--------------------------- MODULE Services_proofs ---------------------------
(***************************************************************************)
(* What Services promises of its components, for any constants.  The       *)
(* components do not meet: each is proved on its own, and carried over to  *)
(* Services at the end.                                                    *)
(***************************************************************************)
EXTENDS Services, FiniteSetTheorems, SequenceTheorems, TLAPS

(***************************************************************************)
(* Locks and versions of tasks.  A job may be told of a lock that the      *)
(* manager has forgotten by then, so the argument is about what was        *)
(* granted: every grant that has not run out is the manager's present lock *)
(* (Backed), and an update has succeeded from earlier versions only        *)
(* (Counted).                                                              *)
(***************************************************************************)
TypeOK ==
  /\ now \in Nat
  /\ locks \in [Resources -> Lock \union {None}]
  /\ granted \in [Jobs -> [Resources -> Nat]]
  /\ version \in Nat \union {None}
  /\ based \in [Jobs -> Nat \union {None}]
  /\ wins \in [0 .. MaxVersion -> Nat]

(* A grant that has not run out is the lock the manager knows. *)
Backed ==
  \A j \in Jobs, r \in Resources :
    now < granted[j][r] => locks[r] = [owner |-> j, expires |-> granted[j][r]]

(* An update succeeded from earlier versions only, once from each. *)
Counted ==
  \A v \in 0 .. MaxVersion :
    wins[v] > 0 => wins[v] = 1 /\ version # None /\ v < version

LocksInv == TypeOK /\ Backed /\ Counted

-----------------------------------------------------------------------------
(* What changing one grant does to all. *)
LEMMA GrantChanges ==
  ASSUME NEW G \in [Jobs -> [Resources -> Nat]], NEW H,
         NEW j \in Jobs, NEW r \in Resources, NEW x \in Nat,
         H = [G EXCEPT ![j][r] = x]
  PROVE  /\ H \in [Jobs -> [Resources -> Nat]]
         /\ \A k \in Jobs, q \in Resources :
              H[k][q] = IF k = j /\ q = r THEN x ELSE G[k][q]
<1>1. [G[j] EXCEPT ![r] = x] \in [Resources -> Nat]
  OBVIOUS
<1> QED
  BY <1>1

(* What an acquisition that succeeds grants. *)
LEMMA GrantMade ==
  ASSUME TypeOK, NEW j \in Jobs, NEW r \in Resources, NEW d \in Durations,
         Acquire(j, r, d), Cleaned[r] = None
  PROVE  /\ now' = now
         /\ granted' \in [Jobs -> [Resources -> Nat]]
         /\ \A k \in Jobs, q \in Resources :
              granted'[k][q] = IF k = j /\ q = r THEN now + d ELSE granted[k][q]
<1>1. now + d \in Nat /\ granted \in [Jobs -> [Resources -> Nat]]
  BY LocksAssumption DEF TypeOK
<1>2. granted' = [granted EXCEPT ![j][r] = now + d] /\ now' = now
  BY DEF Acquire
<1> HIDE DEF TypeOK
<1> QED
  BY <1>1, <1>2, GrantChanges

(* No client calls an operation with a time or a version that is no number.*)
LEMMA LockTypes ==
  ASSUME TypeOK, [Next]_vars
  PROVE  TypeOK'
<1> USE LocksAssumption, NoneIsNoLock DEF TypeOK, Lock, locking, updating
<1>1. CASE Observe
  BY <1>1 DEF Observe, Cleaned
<1>2. CASE Tick
  BY <1>2 DEF Tick
<1>3. ASSUME NEW j \in Jobs, ReleaseAll(j) PROVE TypeOK'
  BY <1>3 DEF ReleaseAll
<1>4. ASSUME NEW j \in Jobs, ReadVersion(j) PROVE TypeOK'
  BY <1>4 DEF ReadVersion
<1>5. ASSUME NEW j \in Jobs, CheckAndUpdate(j) PROVE TypeOK'
  <2>1. based[j] \in Nat /\ based[j] \in 0 .. MaxVersion
    BY <1>5 DEF CheckAndUpdate
  <2>2. [wins EXCEPT ![based[j]] = @ + 1] \in [0 .. MaxVersion -> Nat]
    BY <2>1
  <2>3. [based EXCEPT ![j] = None] \in [Jobs -> Nat \union {None}]
    OBVIOUS
  <2>4. version' \in Nat \union {None} /\ wins' \in [0 .. MaxVersion -> Nat]
    <3>1. CASE Valid(j)
      <4>1. based[j] + 1 \in Nat
        BY <2>1
      <4>2. version' = based[j] + 1 /\ wins' = [wins EXCEPT ![based[j]] = @ + 1]
        BY <1>5, <3>1 DEF CheckAndUpdate
      <4> QED
        BY <2>2, <4>1, <4>2
    <3>2. CASE ~Valid(j)
      BY <1>5, <3>2 DEF CheckAndUpdate
    <3> QED
      BY <3>1, <3>2
  <2> QED
    BY <1>5, <2>3, <2>4 DEF CheckAndUpdate
<1>6. ASSUME NEW j \in Jobs, NEW r \in Resources, Release(j, r) PROVE TypeOK'
  BY <1>6 DEF Release
<1>7. ASSUME NEW j \in Jobs, NEW r \in Resources, NEW d \in Durations, Acquire(j, r, d) PROVE TypeOK'
  <2>1. now + d \in Nat
    <3>1. now \in Nat
      BY DEF TypeOK
    <3>2. d \in Nat
      BY LocksAssumption
    <3> HIDE LocksAssumption, NoneIsNoLock DEF TypeOK, Lock, locking, updating
    <3> QED BY <3>1, <3>2
  <2>2. Cleaned \in [Resources -> Lock \union {None}]
    BY DEF Cleaned
  <2>3. CASE Cleaned[r] = None
    <3>1. granted' \in [Jobs -> [Resources -> Nat]]
      BY <1>7, <2>3, GrantMade
    <3>2. [Cleaned EXCEPT ![r] = [owner |-> j, expires |-> now + d]] \in [Resources -> Lock \union {None}]
      BY <2>1, <2>2
    <3>3. locks' \in [Resources -> Lock \union {None}]
      BY <1>7, <2>3, <3>2 DEF Acquire
    <3> QED
      BY <1>7, <3>1, <3>3 DEF Acquire
  <2>4. CASE Cleaned[r] # None
    BY <1>7, <2>2, <2>4 DEF Acquire
  <2> QED
    BY <2>3, <2>4
<1>8. CASE UNCHANGED vars
  BY <1>8 DEF vars
<1> QED
  BY <1>1, <1>2, <1>3, <1>4, <1>5, <1>6, <1>7, <1>8 DEF Next

(* Grants are made with a lock and end with their time; whoever takes a    *)
(* lock away has given its grant back, or the grant has run out.           *)
LEMMA BackedStep ==
  ASSUME TypeOK, Backed, [Next]_vars
  PROVE  Backed'
<1> SUFFICES ASSUME NEW k \in Jobs, NEW q \in Resources, (now < granted[k][q])'
             PROVE  (locks[q] = [owner |-> k, expires |-> granted[k][q]])'
  BY DEF Backed
<1> DEFINE Kept == now' = now /\ granted'[k][q] = granted[k][q] /\ locks'[q] = locks[q]
<1>0. ASSUME Kept PROVE (locks[q] = [owner |-> k, expires |-> granted[k][q]])'
  BY <1>0 DEF Backed
<1>a. ASSUME now < granted[k][q]
      PROVE  Cleaned[q] = locks[q] /\ Cleaned[q] # None /\ locks[q].owner = k
  BY <1>a, NoneIsNoLock DEF Backed, Cleaned, Live, TypeOK, Lock
<1>1. CASE Observe
  BY <1>0, <1>1, <1>a DEF Observe
<1>2. CASE Tick
  BY <1>2 DEF Tick, locking, Backed, TypeOK
<1>3. ASSUME NEW j \in Jobs, ReleaseAll(j) PROVE Kept
  <2>1. j # k
    BY <1>3 DEF ReleaseAll, TypeOK
  <2> QED
    BY <1>3, <2>1, <1>a DEF ReleaseAll, TypeOK
<1>4. ASSUME NEW j \in Jobs, ReadVersion(j) PROVE Kept
  BY <1>4 DEF ReadVersion, locking
<1>5. ASSUME NEW j \in Jobs, CheckAndUpdate(j) PROVE Kept
  BY <1>5 DEF CheckAndUpdate, locking
<1>6. ASSUME NEW j \in Jobs, NEW r \in Resources, Release(j, r) PROVE Kept
  <2>1. ~(j = k /\ r = q)
    BY <1>6 DEF Release, TypeOK
  <2>2. granted'[k][q] = granted[k][q] /\ now' = now
    BY <1>6, <2>1 DEF Release, TypeOK
  <2> QED
    BY <1>6, <2>1, <2>2, <1>a DEF Release, TypeOK
<1>7. ASSUME NEW j \in Jobs, NEW r \in Resources, NEW d \in Durations, Acquire(j, r, d)
      PROVE  (locks[q] = [owner |-> k, expires |-> granted[k][q]])'
  <2>1. CASE Cleaned[r] = None /\ j = k /\ r = q
    BY <1>7, <2>1 DEF Acquire, TypeOK, Cleaned
  <2>2. CASE Cleaned[r] = None /\ ~(j = k /\ r = q)
    <3>1. granted'[k][q] = granted[k][q] /\ now' = now
      BY <1>7, <2>2, GrantMade
    <3>2. Cleaned[q] = locks[q] /\ Cleaned[q] # None
      BY <3>1, <1>a
    <3>3. r # q
      BY <2>2, <3>2
    <3>4. locks'[q] = locks[q]
      BY <1>7, <2>2, <3>2, <3>3 DEF Acquire, TypeOK, Cleaned
    <3> QED
      BY <1>0, <3>1, <3>4
  <2>3. CASE Cleaned[r] # None
    BY <1>7, <2>3, <1>a, <1>0 DEF Acquire
  <2> QED
    BY <2>1, <2>2, <2>3
<1>8. CASE UNCHANGED vars
  BY <1>0, <1>8 DEF vars, locking
<1> QED
  BY <1>0, <1>1, <1>2, <1>3, <1>4, <1>5, <1>6, <1>7, <1>8 DEF Next

(* A version is left behind by the update that was based on it. *)
LEMMA CountedStep ==
  ASSUME TypeOK, Counted, [Next]_vars
  PROVE  Counted'
<1>1. ASSUME UNCHANGED <<version, wins>> PROVE Counted'
  BY <1>1 DEF Counted
<1>2. ASSUME NEW j \in Jobs, CheckAndUpdate(j), Valid(j) PROVE Counted'
  <2> DEFINE b == based[j]
  <2>1. b \in 0 .. MaxVersion /\ b \in Nat
    BY <1>2, LocksAssumption DEF CheckAndUpdate, TypeOK
  <2>2. wins[b] = 0
    BY <1>2, <2>1, NoneIsNoLock DEF Valid, Counted, TypeOK
  <2>3. version' = b + 1 /\ wins' = [wins EXCEPT ![b] = 1]
    BY <1>2, <2>1, <2>2 DEF CheckAndUpdate, TypeOK
  <2>4. version' \in Nat /\ version' # None
    BY <2>1, <2>3, NoneIsNoLock
  <2>5. ASSUME NEW v \in 0 .. MaxVersion, wins'[v] > 0
        PROVE  wins'[v] = 1 /\ v < version'
    <3>1. CASE v = b
      BY <2>1, <2>3, <3>1 DEF TypeOK
    <3>2. CASE v # b
      <4>1. wins'[v] = wins[v]
        BY <2>3, <3>2 DEF TypeOK
      <4>2. wins[v] = 1 /\ version # None /\ v < version
        BY <2>5, <4>1 DEF Counted
      <4>3. version = b
        BY <1>2, <4>2 DEF Valid
      <4> QED
        BY <2>1, <2>3, <4>1, <4>2, <4>3
    <3> QED
      BY <3>1, <3>2
  <2> QED
    BY <2>4, <2>5 DEF Counted
<1>3. ASSUME NEW j \in Jobs, CheckAndUpdate(j), ~Valid(j) PROVE Counted'
  BY <1>1, <1>3 DEF CheckAndUpdate
<1> QED
  BY <1>1, <1>2, <1>3
  DEF Next, Observe, Tick, ReleaseAll, ReadVersion, Release, Acquire, updating, vars

(* No lock, no grant, no version yet. *)
LEMMA LocksInitially == ASSUME Init PROVE LocksInv
BY LocksAssumption, NoneIsNoLock DEF Init, LocksInv, TypeOK, Backed, Counted

(* The invariant of the locks and versions, from its three parts. *)
LEMMA LocksInvariant == Spec => []LocksInv
<1>1. LocksInv /\ [Next]_vars => LocksInv'
  BY LockTypes, BackedStep, CountedStep DEF LocksInv
<1> QED
  BY LocksInitially, <1>1, PTL DEF Spec

-----------------------------------------------------------------------------
(* checkAndUpdateVersion: of the updates based on one version of a task at *)
(* most one succeeds, whatever jobs read and update in whatever order.     *)
THEOREM UpdatesAreNotLost == Spec => []NoLostUpdate
<1>1. LocksInv => NoLostUpdate
  BY DEF LocksInv, TypeOK, Counted, NoLostUpdate
<1> QED
  BY LocksInvariant, <1>1, PTL

(* A resource has one holder at most, since its holders share a lock. *)
LEMMA OneHolder ==
  ASSUME TypeOK, Backed, NEW r \in Resources,
         NEW j \in Holders[r], NEW k \in Holders[r]
  PROVE  j = k
<1>1. /\ locks[r] = [owner |-> j, expires |-> granted[j][r]]
      /\ locks[r] = [owner |-> k, expires |-> granted[k][r]]
  BY DEF Backed, Holders
<1> QED
  BY <1>1

(* If no resource gains a holder, some have been left: LockService allows  *)
(* it.                                                                     *)
LEMMA Shrinking ==
  ASSUME TypeOK, Backed, \A r \in Resources : Holders'[r] \subseteq Holders[r]
  PROVE  Service!Next
<1> DEFINE R == {r \in Resources : Holders'[r] = {}}
<1>1. Holders' = [r \in Resources |-> Holders'[r]]
  BY DEF Holders
<1>2. ASSUME NEW r \in Resources, Holders'[r] # {} PROVE Holders'[r] = Holders[r]
  BY <1>2, OneHolder
<1>3. Holders' = [r \in Resources |-> IF r \in R THEN {} ELSE Holders[r]]
  BY <1>1, <1>2
<1>4. Service!Leave(R)
  BY <1>3 DEF Service!Leave
<1> QED
  BY <1>4 DEF Service!Next

(* Every call is a step of the lock service: an acquisition takes a free   *)
(* resource, all others only leave some.                                   *)
LEMMA LockStep ==
  ASSUME LocksInv, [Next]_vars
  PROVE  Service!Next \/ UNCHANGED Holders
<1> USE DEF LocksInv
<1>1. ASSUME now' >= now, \A j \in Jobs, r \in Resources : granted'[j][r] <= granted[j][r], TypeOK'
      PROVE  Service!Next
  <2>1. ASSUME NEW r \in Resources, NEW j \in Holders'[r] PROVE j \in Holders[r]
    <3>1. j \in Jobs /\ now' < granted'[j][r]
      BY <2>1 DEF Holders
    <3> QED
      BY <1>1, <3>1 DEF Holders, TypeOK
  <2> QED
    BY <2>1, Shrinking
<1>2. TypeOK'
  BY LockTypes
<1>3. CASE Observe
  BY <1>1, <1>2, <1>3 DEF Observe, TypeOK
<1>4. CASE Tick
  BY <1>1, <1>2, <1>4 DEF Tick, locking, TypeOK
<1>5. ASSUME NEW j \in Jobs, ReleaseAll(j) PROVE Service!Next
  BY <1>1, <1>2, <1>5 DEF ReleaseAll, TypeOK
<1>6. ASSUME NEW j \in Jobs, ReadVersion(j) \/ CheckAndUpdate(j) PROVE Service!Next
  BY <1>1, <1>2, <1>6 DEF ReadVersion, CheckAndUpdate, locking, TypeOK
<1>7. ASSUME NEW j \in Jobs, NEW r \in Resources, Release(j, r) PROVE Service!Next
  BY <1>1, <1>2, <1>7 DEF Release, TypeOK
<1>8. ASSUME NEW j \in Jobs, NEW r \in Resources, NEW d \in Durations, Acquire(j, r, d)
      PROVE  Service!Next \/ UNCHANGED Holders
  <2>1. CASE Cleaned[r] # None
    BY <1>1, <1>2, <1>8, <2>1 DEF Acquire, TypeOK
  <2>2. CASE Cleaned[r] = None /\ d = 0
    <3>1. now' = now /\ \A k \in Jobs, q \in Resources :
            granted'[k][q] = IF k = j /\ q = r THEN now ELSE granted[k][q]
      BY <1>8, <2>2, GrantMade DEF TypeOK
    <3>2. ASSUME NEW q \in Resources, NEW k \in Holders'[q] PROVE k \in Holders[q]
      <4>1. k \in Jobs /\ now < granted'[k][q]
        BY <3>1, <3>2 DEF Holders
      <4>2. now < granted[k][q]
        BY <3>1, <4>1 DEF TypeOK
      <4> QED
        BY <4>1, <4>2 DEF Holders
    <3> QED
      BY <3>2, Shrinking
  <2>3. CASE Cleaned[r] = None /\ d > 0
    <3>1. Holders[r] = {}
      BY <2>3, NoneIsNoLock DEF Holders, Backed, Cleaned, Live, TypeOK, Lock
    <3>2. now' = now /\ \A k \in Jobs, q \in Resources :
            granted'[k][q] = IF k = j /\ q = r THEN now + d ELSE granted[k][q]
      BY <1>8, <2>3, GrantMade
    <3>3. ASSUME NEW q \in Resources
          PROVE  Holders'[q] = IF q = r THEN {j} ELSE Holders[q]
      <4>1. CASE q = r
        <5>1. ASSUME NEW k \in Jobs PROVE k \in Holders'[r] <=> k = j
          <6>1. k \notin Holders[r]
            BY <3>1
          <6>2. ~(now < granted[k][r])
            BY <6>1 DEF Holders
          <6> QED
            BY <3>2, <6>2, <2>3, LocksAssumption DEF Holders, TypeOK
        <5>2. Holders'[r] \subseteq Jobs
          BY DEF Holders
        <5> QED
          BY <4>1, <5>1, <5>2
      <4>2. CASE q # r
        BY <3>2, <4>2 DEF Holders
      <4> QED
        BY <4>1, <4>2
    <3>4. Holders' = [Holders EXCEPT ![r] = {j}]
      BY <3>3 DEF Holders
    <3> QED
      BY <3>1, <3>4 DEF Service!Take, Service!Next
  <2> QED
    BY <2>1, <2>2, <2>3, LocksAssumption
<1>9. CASE UNCHANGED vars
  BY <1>9 DEF vars, locking, Holders
<1> QED
  BY <1>3, <1>4, <1>5, <1>6, <1>7, <1>8, <1>9 DEF Next

(* acquireLock, releaseLock, releaseLocksForJob and expiry implement the   *)
(* lock service of LockService: a resource passes from one job to another  *)
(* only by way of being free, however late or often it is released.        *)
THEOREM LocksImplementService == Spec => LocksExclude
<1>1. Init => Service!Init
  BY DEF Init, Service!Init, Holders
<1>2. LocksInv /\ [Next]_vars => [Service!Next]_Holders
  BY LockStep
<1> QED
  BY LocksInvariant, <1>1, <1>2, PTL DEF Spec, LocksExclude, Service!Spec

-----------------------------------------------------------------------------
(***************************************************************************)
(* The events of a session.  Once its output was fetched it says nothing   *)
(* more, and what it said is among the events.                             *)
(***************************************************************************)
SaidEvents == {Events!Parsed(item) : item \in Said}

(* All of the log is among the events. *)
Fetched(l, events) == \A i \in DOMAIN l : \E k \in DOMAIN events : events[k] = Events!Parsed(l[i])

HeardInv ==
  /\ log \in Seq(Said) /\ stream \in Seq(SaidEvents)
  /\ heard => session # "running" /\ Fetched(log, stream)
  /\ at = "reported" => result = Events!Escalations(stream)

(* A transcript that is added is among the events, with all that was. *)
LEMMA EventsAdded ==
  ASSUME NEW l \in Seq(Said), NEW events \in Seq(SaidEvents)
  PROVE  /\ events \o Events!Events(l) \in Seq(SaidEvents)
         /\ Fetched(l, events \o Events!Events(l))
         /\ \A m : Fetched(m, events) => Fetched(m, events \o Events!Events(l))
  <1> DEFINE new == Events!Events(l)
             u == events \o new
  <1>1. new \in Seq(SaidEvents) /\ Len(new) = Len(l) /\ \A i \in 1..Len(l) : new[i] = Events!Parsed(l[i])
    <2>1. \A i \in DOMAIN l : Events!Parsed(l[i]) \in SaidEvents
      BY DEF SaidEvents
    <2>2. DOMAIN l = 1..Len(l) /\ Len(l) \in Nat
      OBVIOUS
    <2>3. new = [i \in 1..Len(l) |-> Events!Parsed(l[i])]
      BY <2>2 DEF Events!Events
    <2> HIDE DEF new
    <2> QED BY <2>1, <2>2, <2>3
  <1>2. DOMAIN l = 1..Len(l) /\ Len(l) \in Nat /\ Len(events) \in Nat /\ DOMAIN events = 1..Len(events)
    OBVIOUS
  <1> HIDE DEF new
  <1>3. /\ u \in Seq(SaidEvents) /\ DOMAIN u = 1..(Len(events) + Len(new))
        /\ \A i \in 1..Len(events) : u[i] = events[i]
        /\ \A i \in 1..Len(new) : u[Len(events) + i] = new[i]
    <2>1. /\ u \in Seq(SaidEvents) /\ Len(u) = Len(events) + Len(new)
          /\ \A i \in 1..(Len(events) + Len(new)) :
               u[i] = IF i <= Len(events) THEN events[i] ELSE new[i - Len(events)]
      BY <1>1, ConcatProperties
    <2> HIDE DEF u
    <2>2. Len(new) \in Nat /\ DOMAIN u = 1..Len(u)
      BY <1>1, <2>1
    <2>3. ASSUME NEW i \in 1..Len(events) PROVE u[i] = events[i]
      BY <1>2, <2>1, <2>2
    <2>4. ASSUME NEW i \in 1..Len(new) PROVE u[Len(events) + i] = new[i]
      <3>1. /\ Len(events) + i \in 1..(Len(events) + Len(new)) /\ ~(Len(events) + i <= Len(events))
            /\ (Len(events) + i) - Len(events) = i
        BY <1>2, <2>2
      <3> QED BY <2>1, <3>1
    <2> QED BY <2>1, <2>2, <2>3, <2>4
  <1> HIDE DEF u
  <1>4. Fetched(l, u)
    <2> SUFFICES ASSUME NEW i \in DOMAIN l PROVE \E k \in DOMAIN u : u[k] = Events!Parsed(l[i])
      BY DEF Fetched
    <2>1. Len(events) + i \in DOMAIN u /\ u[Len(events) + i] = Events!Parsed(l[i])
      BY <1>1, <1>2, <1>3
    <2> QED BY <2>1
  <1>5. ASSUME NEW m, Fetched(m, events) PROVE Fetched(m, u)
    <2>1. DOMAIN events \subseteq DOMAIN u
      BY <1>1, <1>2, <1>3
    <2> QED BY <1>2, <1>3, <1>5, <2>1 DEF Fetched
  <1> QED BY <1>3, <1>4, <1>5 DEF u, new

(* Answers add what was said to the stream; a report reads all of it. *)
LEMMA HeardStep ==
  ASSUME HeardInv, [Events!Next]_Events!vars
  PROVE  HeardInv'
  <1>1. ASSUME NEW item \in Said, Events!Say(item) PROVE HeardInv'
    <2>1. log \in Seq(Said)
      BY DEF HeardInv
    <2>2. log' \in Seq(Said) /\ ~heard'
      BY <1>1, <2>1 DEF Events!Say, HeardInv
    <2> QED BY <1>1, <2>2 DEF Events!Say, HeardInv
  <1>2. CASE Events!SessionEnds
    BY <1>2 DEF Events!SessionEnds, HeardInv
  <1>3. CASE Events!RunFails \/ Events!PollFails
    BY <1>3 DEF Events!RunFails, Events!PollFails, HeardInv
  <1>4. CASE Events!RunAnswers
    <2>1. PICK transcript \in {log, <<>>} :
            /\ stream' = stream \o Events!Events(transcript)
            /\ session # "running" => transcript = log
      BY <1>4 DEF Events!RunAnswers
    <2>2. transcript \in Seq(Said) /\ stream \in Seq(SaidEvents)
      <3>1. <<>> \in Seq(Said)
        OBVIOUS
      <3> QED BY <3>1 DEF HeardInv
    <2>3. stream' \in Seq(SaidEvents) /\ (session # "running" => Fetched(log, stream'))
      BY <2>1, <2>2, EventsAdded
    <2>4. heard' = (session # "running") /\ UNCHANGED <<log, session>> /\ at' # "reported"
      BY <1>4 DEF Events!RunAnswers
    <2> QED BY <2>3, <2>4 DEF HeardInv
  <1>5. CASE Events!PollCompletes
    <2>1. UNCHANGED <<log, session>> /\ at' # "reported" /\ session = "completed"
      BY <1>5 DEF Events!PollCompletes
    <2>2. CASE UNCHANGED <<heard, stream>>
      BY <2>1, <2>2 DEF HeardInv
    <2>3. CASE stream' = stream \o Events!Events(log)
      <3>1. log \in Seq(Said) /\ stream \in Seq(SaidEvents)
        BY DEF HeardInv
      <3>2. stream' \in Seq(SaidEvents) /\ Fetched(log, stream')
        BY <2>3, <3>1, EventsAdded
      <3> QED BY <2>1, <3>2 DEF HeardInv
    <2> QED BY <1>5, <2>2, <2>3 DEF Events!PollCompletes
  <1>6. CASE Events!Report
    BY <1>6 DEF Events!Report, HeardInv
  <1>7. CASE UNCHANGED Events!vars
    BY <1>7 DEF Events!vars, HeardInv
  <1> QED BY <1>1, <1>2, <1>3, <1>4, <1>5, <1>6, <1>7 DEF Events!Next

(* A permission goes by either name, and is escalated as it was asked for. *)
LEMMA RequestsAreReported == HeardInv => Events!NoRequestIsDropped
  <1> SUFFICES ASSUME HeardInv, at = "reported", heard, NEW i \in DOMAIN log,
                      log[i].type \in {"permission", "permission_request"}
               PROVE  \E escalation \in result :
                        escalation.raw = [log[i] EXCEPT !.type = "permission_request"]
    BY DEF Events!NoRequestIsDropped
  <1> DEFINE e == Events!Parsed(log[i])
  <1>1. e = [log[i] EXCEPT !.type = "permission_request"]
    BY DEF Events!Parsed, Events!Aliases, Events!Types
  <1>2. "type" \in DOMAIN log[i]
    BY SaidAssumption DEF HeardInv
  <1>3. e.type = "permission_request"
    BY <1>1, <1>2
  <1> HIDE DEF e
  <1>4. \E k \in DOMAIN stream : stream[k] = e
    BY DEF HeardInv, Fetched, e
  <1>5. [kind |-> Events!EscalationKind(e), raw |-> e] \in Events!Escalations(stream)
    BY <1>3, <1>4 DEF Events!Escalations, Events!Requests
  <1>6. result = Events!Escalations(stream)
    BY DEF HeardInv
  <1> QED BY <1>1, <1>5, <1>6

(***************************************************************************)
(* Links and documents.  An operation that met no other has stored, or has *)
(* left to remove, what Progress says; none in flight takes away what is   *)
(* settled (Spares) or brings back what is gone (Shuns), because it has    *)
(* read the indexes and the references after that was settled; a check     *)
(* knows what was acknowledged before it began (Remembers).                *)
(***************************************************************************)
LinkPlaces == {"set", "readLocal", "writeLocal", "readRemote", "writeRemote", "last"}
UnlinkPlaces == {"list", "next", "readLocal", "writeLocal", "readRemote", "writeRemote", "last"}
Resolver == [acks : Seq(Nat), docs : Nat, stale : {"unknown", "fresh", "stale"}]

Operation ==
  [kind : {"idle", "link", "unlink", "check"},
   at : {"start", "version", "check"} \union LinkPlaces \union UnlinkPlaces,
   entity : {Links!Local} \union Entities, link : Nat, seen : SUBSET Nat, todo : SUBSET Nat,
   refs : SUBSET Entities, resolver : Resolver, version : Nat, alone : BOOLEAN]

(* Where an operation can be, and that its links are of its entity. *)
Sound(o, b) ==
  /\ o.kind = "idle" => o.at = "start"
  /\ o.kind = "check" => o.at \in {"version", "check"}
  /\ o.kind = "link" => o.at \in LinkPlaces
  /\ o.kind = "unlink" => o.at \in UnlinkPlaces
  /\ o.seen \subseteq DOMAIN b
  /\ o.kind \in {"link", "unlink"} => o.entity \in Entities
  /\ o.kind = "unlink" => \A l \in o.todo : l \in DOMAIN b /\ b[l] = o.entity
  /\ o.kind = "link" \/ (o.kind = "unlink" /\ o.at \notin {"list", "next"})
       => o.link \in DOMAIN b /\ b[o.link] = o.entity

OpType == asked \in [Clients -> Operation] /\ \A c \in Clients : Sound(asked[c], made)

StoreType ==
  /\ made \in Seq(Entities) /\ links \in SUBSET Links!Ids
  /\ tables \in [{Links!Local} \union Entities -> SUBSET Links!Ids]
  /\ refs \in SUBSET Entities /\ resolver \in Resolver /\ doc \in Nat
  /\ \A l : Links!Settled("link", l) => l \in Links!Ids

RefType == OpType /\ StoreType

Alone == \A c, d \in Clients : c # d /\ Links!Linking(c) /\ asked[c].alone => ~Links!Linking(d)

(* Another operation has begun: this one is as it was, but alone no more   *)
(* if the two are of a kind.                                               *)
JoinedBy(d) ==
  /\ asked'[d] = [asked[d] EXCEPT !.alone = asked'[d].alone]
  /\ asked'[d].alone => asked[d].alone

(* One that begins is what it was given; those it meets are not alone.     *)
LEMMA Beginning ==
  ASSUME OpType, NEW c \in Clients, NEW o \in Operation, Links!Begin(c, o)
  PROVE  /\ asked[c] = Links!Idle /\ asked' \in [Clients -> Operation]
         /\ asked'[c] = [o EXCEPT !.alone = asked'[c].alone]
         /\ \A d \in Clients \ {c} : JoinedBy(d)
         /\ Alone => Alone'
  <1> USE DEF JoinedBy
  <1> DEFINE Same(d) == d # c /\ (IF o.kind = "check" THEN Links!Checking(d) ELSE Links!Linking(d))
             met == ~\E x \in Clients : Same(x)
  <1>1. /\ asked[c] = Links!Idle
        /\ asked' = [d \in Clients |->
              IF d = c THEN [o EXCEPT !.alone = met]
              ELSE IF Same(d) THEN [asked[d] EXCEPT !.alone = FALSE] ELSE asked[d]]
    BY DEF Links!Begin
  <1>2. met \in BOOLEAN
    OBVIOUS
  <1>3. asked'[c] = [o EXCEPT !.alone = met] /\ asked'[c] \in Operation /\ asked'[c].alone = met
        /\ asked'[c].kind = o.kind
    <2> HIDE DEF met
    <2> QED BY <1>1, <1>2 DEF Operation
  <1>4. ASSUME NEW d \in Clients \ {c}
        PROVE  /\ asked'[d] = [asked[d] EXCEPT !.alone = asked'[d].alone] /\ asked'[d] \in Operation
               /\ asked'[d].alone = (asked[d].alone /\ ~Same(d)) /\ asked'[d].kind = asked[d].kind
    <2> HIDE DEF met
    <2>1. asked[d] \in Operation
      BY DEF OpType
    <2>2. CASE Same(d)
      <3>1. asked'[d] = [asked[d] EXCEPT !.alone = FALSE]
        BY <1>1, <2>2
      <3> HIDE DEF Same
      <3> QED BY <2>1, <2>2, <3>1 DEF Operation
    <2>3. CASE ~Same(d)
      <3>1. asked'[d] = asked[d]
        BY <1>1, <2>3
      <3> HIDE DEF Same
      <3> QED BY <2>1, <2>3, <3>1 DEF Operation
    <2> QED BY <2>2, <2>3
  <1>5. asked' \in [Clients -> Operation]
    <2>1. \A d \in Clients : asked'[d] \in Operation
      BY <1>3, <1>4
    <2> HIDE DEF met, Same
    <2> QED BY <1>1, <2>1
  <1>6. ASSUME Alone PROVE Alone'
    <2> SUFFICES ASSUME NEW x \in Clients, NEW y \in Clients, x # y, Links!Linking(x)', (asked[x].alone)', Links!Linking(y)'
                 PROVE  FALSE
      BY DEF Alone
    <2>0. \A z \in Clients : Links!Linking(z)' <=> (IF z = c THEN o.kind \in {"link", "unlink"} ELSE Links!Linking(z))
      <3> HIDE DEF met, Same
      <3> QED BY <1>3, <1>4 DEF Links!Linking
    <2>1. CASE x = c
      BY <2>0, <2>1, <1>3
    <2>2. CASE y = c
      BY <2>0, <2>2, <1>4
    <2>3. CASE x # c /\ y # c
      BY <2>0, <2>3, <1>4, <1>6 DEF Alone
    <2> QED BY <2>1, <2>2, <2>3
  <1> QED BY <1>1, <1>3, <1>4, <1>5, <1>6

(* A client without an operation is well typed. *)
LEMMA IdleIsSound == Links!Idle \in Operation /\ \A b : Sound(Links!Idle, b)
  BY DEF Links!Idle, Operation, Sound, Resolver, LinkPlaces, UnlinkPlaces

(* One that goes on or ends; the others stay as they are.                  *)
LEMMA Moving ==
  ASSUME OpType, NEW c \in Clients, NEW x \in Operation, asked' = [asked EXCEPT ![c] = x],
         Sound(x, made), made' = made, x.alone => asked[c].alone,
         x.kind \in {asked[c].kind, "idle"}
  PROVE  /\ OpType'
         /\ Alone => Alone'
         /\ asked'[c] = x /\ \A d \in Clients \ {c} : asked'[d] = asked[d]
  <1>1. asked'[c] = x /\ \A d \in Clients \ {c} : asked'[d] = asked[d]
    BY DEF OpType
  <1>2. OpType'
    BY <1>1 DEF OpType
  <1>3. ASSUME Alone PROVE Alone'
    BY <1>1, <1>3 DEF Alone, Links!Linking
  <1> QED BY <1>1, <1>2, <1>3

(* An operation ends; the others are as they were. *)
LEMMA Finishing ==
  ASSUME OpType, NEW c \in Clients, Links!Finish(c), made' = made
  PROVE  /\ OpType'
         /\ Alone => Alone'
         /\ asked'[c] = Links!Idle /\ \A d \in Clients \ {c} : asked'[d] = asked[d]
  <1>1. \A d \in Clients \ {c} : asked'[d] = asked[d]
    BY DEF OpType, Links!Finish
  <1>2. asked'[c] = Links!Idle /\ asked' = [asked EXCEPT ![c] = Links!Idle]
    BY DEF OpType, Links!Finish
  <1>3. Links!Idle.kind = "idle" 
    BY DEF Links!Idle
  <1>4. OpType'
    BY <1>1, <1>2, IdleIsSound DEF OpType
  <1>5. ASSUME Alone PROVE Alone'
    BY <1>1, <1>2, <1>3, <1>5 DEF Alone, Links!Linking
  <1> QED BY <1>1, <1>2, <1>4, <1>5

(* A new link has an id of its own. *)
LEMMA Grown ==
  ASSUME NEW b \in Seq(Entities), NEW e \in Entities
  PROVE  /\ Append(b, e) \in Seq(Entities)
         /\ Len(b) + 1 \in Nat /\ Len(b) + 1 \notin DOMAIN b
         /\ DOMAIN Append(b, e) = DOMAIN b \union {Len(b) + 1}
         /\ Append(b, e)[Len(b) + 1] = e
         /\ \A l \in DOMAIN b : Append(b, e)[l] = b[l]
         /\ \A o : Sound(o, b) => Sound(o, Append(b, e))
  <1> DEFINE g == Append(b, e)
  <1>1. /\ g \in Seq(Entities) /\ Len(b) + 1 \in Nat /\ Len(b) + 1 \notin DOMAIN b
        /\ DOMAIN g = DOMAIN b \union {Len(b) + 1} /\ g[Len(b) + 1] = e
        /\ \A l \in DOMAIN b : g[l] = b[l] /\ l \in DOMAIN g
    OBVIOUS
  <1> HIDE DEF g
  <1>2. ASSUME NEW o, Sound(o, b) PROVE Sound(o, g)
    BY <1>1, <1>2 DEF Sound
  <1> QED BY <1>1, <1>2 DEF g

(* What linkTracker, unlink and staleCheck begin with.                     *)
LinkOperation(e) ==
  [Links!Idle EXCEPT !.kind = "link", !.at = "set", !.entity = e, !.link = Len(made) + 1, !.refs = refs]
UnlinkOperation(e) == [Links!Idle EXCEPT !.kind = "unlink", !.at = "list", !.entity = e]
CheckOperation == [Links!Idle EXCEPT !.kind = "check", !.at = "version", !.resolver = resolver]

(* linkTracker and unlink start as well-typed operations. *)
LEMMA Operations ==
  ASSUME RefType, NEW e \in Entities
  PROVE  /\ LinkOperation(e) \in Operation /\ Sound(LinkOperation(e), Append(made, e))
         /\ UnlinkOperation(e) \in Operation /\ Sound(UnlinkOperation(e), made)
         /\ LinkOperation(e).kind = "link" /\ LinkOperation(e).at = "set"
         /\ LinkOperation(e).entity = e /\ LinkOperation(e).refs = refs
         /\ LinkOperation(e).link = Len(made) + 1
         /\ UnlinkOperation(e).kind = "unlink" /\ UnlinkOperation(e).at = "list"
         /\ UnlinkOperation(e).entity = e
  <1>1. Links!Idle \in Operation
    BY IdleIsSound
  <1>2. refs \in SUBSET Entities /\ Len(made) + 1 \in Nat /\ made \in Seq(Entities)
    BY DEF RefType, StoreType
  <1>3. Len(made) + 1 \in DOMAIN Append(made, e) /\ Append(made, e)[Len(made) + 1] = e
    BY <1>2
  <1>4. /\ LinkOperation(e).kind = "link" /\ LinkOperation(e).at = "set"
        /\ LinkOperation(e).entity = e /\ LinkOperation(e).refs = refs
        /\ LinkOperation(e).link = Len(made) + 1 /\ LinkOperation(e).seen = {}
        /\ LinkOperation(e) \in Operation
    BY <1>1, <1>2 DEF LinkOperation, Operation, LinkPlaces, UnlinkPlaces, Links!Idle
  <1>5. /\ UnlinkOperation(e).kind = "unlink" /\ UnlinkOperation(e).at = "list"
        /\ UnlinkOperation(e).entity = e /\ UnlinkOperation(e).seen = {} /\ UnlinkOperation(e).todo = {}
        /\ UnlinkOperation(e) \in Operation
    BY <1>1 DEF UnlinkOperation, Operation, LinkPlaces, UnlinkPlaces, Links!Idle
  <1>6. Sound(LinkOperation(e), Append(made, e))
    BY <1>3, <1>4 DEF Sound, LinkPlaces
  <1>7. Sound(UnlinkOperation(e), made)
    BY <1>5 DEF Sound, UnlinkPlaces
  <1> QED BY <1>4, <1>5, <1>6, <1>7

(* So does a stale check, with the references it has read. *)
LEMMA CheckOperations ==
  ASSUME RefType
  PROVE  /\ CheckOperation \in Operation /\ Sound(CheckOperation, made)
         /\ CheckOperation.kind = "check" /\ CheckOperation.at = "version"
         /\ CheckOperation.resolver = resolver
  <1>1. Links!Idle \in Operation /\ resolver \in Resolver
    BY IdleIsSound DEF RefType, StoreType
  <1>2. /\ CheckOperation.kind = "check" /\ CheckOperation.at = "version"
        /\ CheckOperation.resolver = resolver /\ CheckOperation.seen = {}
        /\ CheckOperation \in Operation
    BY <1>1 DEF CheckOperation, Operation, Links!Idle
  <1> QED BY <1>2 DEF Sound

(* What stays of the store when an operation only goes on.                 *)
LEMMA StoreStays ==
  ASSUME StoreType, UNCHANGED <<made, links, tables, refs, resolver, doc>>,
         \A l : Links!Settled("link", l)' => Links!Settled("link", l) \/ l \in Links!Ids
  PROVE  StoreType'
  BY DEF StoreType, Links!Settled, Links!Ids

(* linkTracker. *)
LEMMA LinkTrackerType ==
  ASSUME RefType, NEW c \in Clients, NEW e \in Entities, Links!LinkTracker(c, e)
  PROVE  /\ RefType' /\ (Alone => Alone')
         /\ asked'[c] = [LinkOperation(e) EXCEPT !.alone = asked'[c].alone]
         /\ \A d \in Clients \ {c} : JoinedBy(d)
  <1> USE DEF JoinedBy
  <1>1. Links!Begin(c, LinkOperation(e)) /\ made' = Append(made, e) /\ settled' = Links!Forget({<<"unlinked", e>>})
        /\ UNCHANGED <<Links!storing, refs, resolver, doc>>
    BY DEF Links!LinkTracker, LinkOperation
  <1>2. OpType /\ made \in Seq(Entities)
    BY DEF RefType, StoreType
  <1>3. /\ asked[c] = Links!Idle /\ asked' \in [Clients -> Operation]
        /\ asked'[c] = [LinkOperation(e) EXCEPT !.alone = asked'[c].alone]
        /\ \A d \in Clients \ {c} : JoinedBy(d)
        /\ (Alone => Alone')
    BY <1>1, <1>2, Operations, Beginning
  <1>4. \A d \in Clients : Sound(asked'[d], made')
    <2>1. Sound(asked'[c], made')
      BY <1>1, <1>3, Operations DEF Sound, Operation
    <2>2. ASSUME NEW d \in Clients \ {c} PROVE Sound(asked'[d], made')
      <3>1. Sound(asked[d], made') /\ asked[d] \in Operation
        BY <1>1, <1>2, Grown DEF OpType
      <3> QED BY <1>3, <3>1 DEF Sound, Operation
    <2> QED BY <2>1, <2>2
  <1>5. StoreType'
    <2>1. made' \in Seq(Entities) /\ Links!Ids \subseteq Links!Ids'
      BY <1>1, <1>2, Grown DEF Links!Ids
    <2>2. tables \in [{Links!Local} \union Entities -> SUBSET Links!Ids] /\ links \in SUBSET Links!Ids
      BY DEF RefType, StoreType
    <2>3. tables' \in [{Links!Local} \union Entities -> SUBSET Links!Ids'] /\ links' \in SUBSET Links!Ids'
      BY <1>1, <2>1, <2>2 DEF Links!storing
    <2>4. \A l : Links!Settled("link", l)' => l \in Links!Ids'
      BY <1>1, <2>1 DEF RefType, StoreType, Links!Settled, Links!Forget
    <2> QED BY <1>1, <2>1, <2>3, <2>4 DEF RefType, StoreType
  <1> QED BY <1>3, <1>4, <1>5 DEF RefType, OpType

(* unlink and staleCheck, up to their first request. *)
LEMMA UnlinkTrackerType ==
  ASSUME RefType, NEW c \in Clients, NEW e \in Entities, Links!UnlinkTracker(c, e)
  PROVE  /\ RefType' /\ (Alone => Alone')
         /\ asked'[c] = [UnlinkOperation(e) EXCEPT !.alone = asked'[c].alone]
         /\ \A d \in Clients \ {c} : JoinedBy(d)
  <1> USE DEF JoinedBy
  <1>1. Links!Begin(c, UnlinkOperation(e)) /\ UNCHANGED <<Links!storing, refs, resolver, doc, made>>
        /\ settled' \subseteq settled
    BY DEF Links!UnlinkTracker, UnlinkOperation, Links!Forget
  <1>2. OpType /\ StoreType
    BY DEF RefType
  <1>3. /\ asked[c] = Links!Idle /\ asked' \in [Clients -> Operation]
        /\ asked'[c] = [UnlinkOperation(e) EXCEPT !.alone = asked'[c].alone]
        /\ \A d \in Clients \ {c} : JoinedBy(d)
        /\ (Alone => Alone')
    BY <1>1, <1>2, Operations, Beginning
  <1>4. \A d \in Clients : Sound(asked'[d], made')
    <2>1. Sound(asked'[c], made')
      BY <1>1, <1>3, Operations DEF Sound, Operation
    <2>2. ASSUME NEW d \in Clients \ {c} PROVE Sound(asked'[d], made')
      <3>1. Sound(asked[d], made') /\ asked[d] \in Operation
        BY <1>1, <1>2 DEF OpType
      <3> QED BY <1>3, <3>1 DEF Sound, Operation
    <2> QED BY <2>1, <2>2
  <1>5. StoreType'
    BY <1>1, <1>2, StoreStays DEF Links!storing, Links!Settled
  <1> QED BY <1>3, <1>4, <1>5 DEF RefType, OpType

(* staleCheck reads and begins. *)
LEMMA StaleCheckType ==
  ASSUME RefType, NEW c \in Clients, Links!StaleCheck(c)
  PROVE  /\ RefType' /\ (Alone => Alone')
         /\ asked'[c] = [CheckOperation EXCEPT !.alone = asked'[c].alone]
         /\ \A d \in Clients \ {c} : JoinedBy(d)
  <1> USE DEF JoinedBy
  <1>1. Links!Begin(c, CheckOperation) /\ UNCHANGED <<Links!storing, refs, resolver, doc, made, settled>>
    BY DEF Links!StaleCheck, CheckOperation
  <1>2. OpType /\ StoreType
    BY DEF RefType
  <1>3. /\ asked[c] = Links!Idle /\ asked' \in [Clients -> Operation]
        /\ asked'[c] = [CheckOperation EXCEPT !.alone = asked'[c].alone]
        /\ \A d \in Clients \ {c} : JoinedBy(d)
        /\ (Alone => Alone')
    BY <1>1, <1>2, CheckOperations, Beginning
  <1>4. \A d \in Clients : Sound(asked'[d], made')
    <2>1. Sound(asked'[c], made')
      BY <1>1, <1>3, CheckOperations DEF Sound, Operation
    <2>2. ASSUME NEW d \in Clients \ {c} PROVE Sound(asked'[d], made')
      <3>1. Sound(asked[d], made') /\ asked[d] \in Operation
        BY <1>1, <1>2 DEF OpType
      <3> QED BY <1>3, <3>1 DEF Sound, Operation
    <2> QED BY <2>1, <2>2
  <1>5. StoreType'
    BY <1>1, <1>2, StoreStays DEF Links!storing, Links!Settled
  <1> QED BY <1>3, <1>4, <1>5 DEF RefType, OpType

(* An operation that goes on, or one that ends.                            *)
Onward(c, x) ==
  /\ asked' \in [Clients -> Operation] /\ asked'[c] = x
  /\ \A d \in Clients \ {c} : asked'[d] = asked[d]

(* The last step of an operation may write the references. *)
LEMMA FinishType ==
  ASSUME RefType, NEW c \in Clients, Links!Finish(c), UNCHANGED <<made, Links!storing, doc>>,
         refs' \in SUBSET Entities, resolver' \in Resolver,
         \A l : Links!Settled("link", l)' => Links!Settled("link", l) \/ l \in Links!Ids
  PROVE  RefType' /\ (Alone => Alone') /\ Onward(c, Links!Idle)
  <1>1. OpType' /\ (Alone => Alone') /\ asked'[c] = Links!Idle /\ \A d \in Clients \ {c} : asked'[d] = asked[d]
    BY Finishing DEF RefType
  <1>2. StoreType'
    BY DEF RefType, StoreType, Links!Settled, Links!Ids, Links!storing
  <1> QED BY <1>1, <1>2 DEF RefType, OpType, Onward

(* The end of an unlinking. *)
LEMMA UnlinkedType ==
  ASSUME RefType, NEW c \in Clients, Links!Unlinked(c)
  PROVE  RefType' /\ (Alone => Alone') /\ Onward(c, Links!Idle)
  <1>1. \A l : Links!Settled("link", l)' => Links!Settled("link", l)
    BY DEF Links!Unlinked, Links!Settled
  <1> QED BY <1>1, FinishType DEF Links!Unlinked, RefType, StoreType

(* A request fails, and its operation with it. *)
LEMMA FailType ==
  ASSUME RefType, NEW c \in Clients, Links!Fail(c)
  PROVE  RefType' /\ (Alone => Alone') /\ Onward(c, Links!Idle)
  <1>1. \A l : Links!Settled("link", l)' => Links!Settled("link", l)
    BY DEF Links!Fail, Links!Settled
  <1> QED BY <1>1, FinishType DEF Links!Fail, RefType, StoreType

(* The end of a linking, with the references it writes back. *)
LEMMA LinkedType ==
  ASSUME RefType, NEW c \in Clients, Links!Linked(c)
  PROVE  RefType' /\ (Alone => Alone') /\ Onward(c, Links!Idle)
  <1>1. /\ asked[c].link \in Links!Ids /\ asked[c].entity \in Entities /\ asked[c].refs \in SUBSET Entities
    BY DEF Links!Linked, RefType, OpType, Sound, Operation, Links!Ids
  <1>2. \A l : Links!Settled("link", l)' => Links!Settled("link", l) \/ l \in Links!Ids
    BY <1>1 DEF Links!Linked, Links!Settled
  <1>3. refs' \in SUBSET Entities
    BY <1>1 DEF Links!Linked, Links!Merged
  <1> QED BY <1>2, <1>3, FinishType DEF Links!Linked, RefType, StoreType

(* An update of the references is one. *)
LEMMA Update ==
  ASSUME NEW r \in Resolver, NEW u \in Resolver
  PROVE  Links!Updated(r, u) \in Resolver
  BY DEF Links!Updated, Resolver

(* The end of a stale check, with the references it writes back. *)
LEMMA CheckedType ==
  ASSUME RefType, NEW c \in Clients, Links!Checked(c)
  PROVE  RefType' /\ (Alone => Alone') /\ Onward(c, Links!Idle)
  <1>1. asked[c].resolver \in Resolver /\ resolver \in Resolver
    BY DEF RefType, OpType, Operation, StoreType
  <1>2. [asked[c].resolver EXCEPT !.stale = "stale"] \in Resolver
    BY <1>1 DEF Resolver
  <1>3. resolver' \in Resolver
    BY <1>1, <1>2, Update DEF Links!Checked
  <1>4. \A l : Links!Settled("link", l)' => Links!Settled("link", l)
    BY DEF Links!Checked, Links!Settled
  <1> QED BY <1>3, <1>4, FinishType DEF Links!Checked, RefType, StoreType

(* An operation goes on to its next request. *)
LEMMA MoveType ==
  ASSUME RefType, NEW c \in Clients, NEW x \in Operation, asked' = [asked EXCEPT ![c] = x],
         Sound(x, made), x.alone = asked[c].alone, x.kind = asked[c].kind,
         UNCHANGED <<made, refs, resolver, doc, settled>>,
         links' \in SUBSET Links!Ids, tables' \in [{Links!Local} \union Entities -> SUBSET Links!Ids]
  PROVE  RefType' /\ (Alone => Alone') /\ Onward(c, x)
  <1>1. OpType' /\ (Alone => Alone') /\ asked'[c] = x /\ \A d \in Clients \ {c} : asked'[d] = asked[d]
    BY Moving DEF RefType
  <1>2. StoreType'
    BY DEF RefType, StoreType, Links!Settled, Links!Ids
  <1> QED BY <1>1, <1>2 DEF RefType, OpType, Onward

(* setEntityLink stores the link of the operation. *)
LEMMA SetEntityLinkType ==
  ASSUME RefType, NEW c \in Clients, Links!SetEntityLink(c)
  PROVE  /\ RefType' /\ (Alone => Alone') /\ asked[c].kind = "link"
         /\ asked[c].link \in Links!Ids /\ asked[c].entity = made[asked[c].link]
         /\ Onward(c, [asked[c] EXCEPT !.at = "readLocal"])
  <1> DEFINE x == [asked[c] EXCEPT !.at = "readLocal"]
  <1>1. asked[c] \in Operation /\ Sound(asked[c], made) /\ asked[c].at = "set"
    BY DEF Links!SetEntityLink, RefType, OpType
  <1>2. asked[c].kind = "link" /\ asked[c].link \in Links!Ids /\ asked[c].entity = made[asked[c].link]
    BY <1>1 DEF Operation, Sound, UnlinkPlaces, Links!Ids
  <1>3. x \in Operation /\ x.alone = asked[c].alone /\ x.kind = asked[c].kind /\ x.at = "readLocal"
        /\ x.seen = asked[c].seen /\ x.entity = asked[c].entity /\ x.todo = asked[c].todo /\ x.link = asked[c].link
    BY <1>1 DEF Operation, LinkPlaces
  <1>4. Sound(x, made)
    BY <1>1, <1>2, <1>3 DEF Sound, LinkPlaces
  <1>5. asked' = [asked EXCEPT ![c] = x]
    BY DEF Links!SetEntityLink, Links!At
  <1>6. links' \in SUBSET Links!Ids /\ tables' \in [{Links!Local} \union Entities -> SUBSET Links!Ids]
        /\ UNCHANGED <<made, refs, resolver, doc, settled>>
    BY <1>2 DEF Links!SetEntityLink, RefType, StoreType
  <1> HIDE DEF x
  <1>7. RefType' /\ (Alone => Alone') /\ Onward(c, x)
    BY <1>3, <1>4, <1>5, <1>6, MoveType
  <1> QED BY <1>2, <1>7 DEF x

(* unlink reads the list of the task. *)
LEMMA ListLinksType ==
  ASSUME RefType, NEW c \in Clients, Links!ListLinks(c)
  PROVE  /\ RefType' /\ (Alone => Alone') /\ asked[c].kind = "unlink" /\ asked[c].entity \in Entities
         /\ Onward(c, [[asked[c] EXCEPT !.at = "next"] EXCEPT
                         !.todo = {l \in tables[Links!Local] : made[l] = asked[c].entity}])
  <1> DEFINE S == {l \in tables[Links!Local] : made[l] = asked[c].entity}
             x == [[asked[c] EXCEPT !.at = "next"] EXCEPT !.todo = S]
  <1>1. asked[c] \in Operation /\ Sound(asked[c], made) /\ asked[c].at = "list" /\ asked \in [Clients -> Operation]
    BY DEF Links!ListLinks, RefType, OpType
  <1>2. asked[c].kind = "unlink" /\ asked[c].entity \in Entities
    BY <1>1 DEF Operation, Sound, LinkPlaces
  <1>3. tables[Links!Local] \in SUBSET Links!Ids /\ Links!Ids \subseteq Nat
    BY DEF RefType, StoreType, Links!Ids
  <1>4. S \in SUBSET Nat /\ \A l \in S : l \in DOMAIN made /\ made[l] = asked[c].entity
    BY <1>3 DEF Links!Ids
  <1>5. asked' = [asked EXCEPT ![c] = x]
    <2> HIDE DEF S
    <2>1. asked' = [asked EXCEPT ![c].at = "next", ![c].todo = S]
      BY DEF Links!ListLinks, S
    <2> QED BY <2>1, <1>1
  <1> HIDE DEF S
  <1>6. x \in Operation /\ x.alone = asked[c].alone /\ x.kind = asked[c].kind /\ x.at = "next"
        /\ x.seen = asked[c].seen /\ x.entity = asked[c].entity /\ x.todo = S
    BY <1>1, <1>4 DEF Operation, UnlinkPlaces
  <1>7. Sound(x, made)
    BY <1>1, <1>2, <1>4, <1>6 DEF Sound, UnlinkPlaces
  <1>8. links' \in SUBSET Links!Ids /\ tables' \in [{Links!Local} \union Entities -> SUBSET Links!Ids]
        /\ UNCHANGED <<made, refs, resolver, doc, settled>>
    BY DEF Links!ListLinks, Links!storing, RefType, StoreType
  <1> HIDE DEF x
  <1>9. RefType' /\ (Alone => Alone') /\ Onward(c, x)
    BY <1>5, <1>6, <1>7, <1>8, MoveType
  <1> QED BY <1>2, <1>9 DEF x, S

(* What FindLink makes of an operation that finds the link l.              *)
Found(o, l) ==
  [[[o EXCEPT !.todo = o.todo \ {l}] EXCEPT !.link = l] EXCEPT
     !.at = IF l \in links THEN "readLocal" ELSE "last"]

(* unlink takes up one of the links it has listed. *)
LEMMA FindLinkType ==
  ASSUME RefType, NEW c \in Clients, Links!FindLink(c)
  PROVE  /\ RefType' /\ (Alone => Alone') /\ asked[c].kind = "unlink" /\ asked[c].at = "next"
         /\ \E l \in asked[c].todo : l \in Links!Ids /\ made[l] = asked[c].entity /\ Onward(c, Found(asked[c], l))
  <1>1. asked[c] \in Operation /\ Sound(asked[c], made) /\ asked[c].at = "next" /\ asked \in [Clients -> Operation]
    BY DEF Links!FindLink, RefType, OpType
  <1>2. asked[c].kind = "unlink"
    BY <1>1 DEF Operation, Sound, LinkPlaces
  <1>3. PICK l \in asked[c].todo :
          asked' = [asked EXCEPT ![c].todo = @ \ {l}, ![c].link = l,
                           ![c].at = IF l \in links THEN "readLocal" ELSE "last"]
    BY DEF Links!FindLink
  <1> DEFINE x == Found(asked[c], l)
             where == IF l \in links THEN "readLocal" ELSE "last"
  <1>4. l \in Links!Ids /\ l \in Nat /\ made[l] = asked[c].entity
    BY <1>1, <1>2 DEF Sound, Operation, Links!Ids
  <1>5. asked' = [asked EXCEPT ![c] = x]
    BY <1>1, <1>3 DEF Found
  <1>6. where \in {"readLocal", "last"}
    OBVIOUS
  <1>7. x \in Operation /\ x.alone = asked[c].alone /\ x.kind = asked[c].kind /\ x.at = where
        /\ x.seen = asked[c].seen /\ x.entity = asked[c].entity /\ x.todo = asked[c].todo \ {l} /\ x.link = l
    <2>1. x = [[[asked[c] EXCEPT !.todo = asked[c].todo \ {l}] EXCEPT !.link = l] EXCEPT !.at = where]
      BY DEF Found
    <2> HIDE DEF where, x
    <2> QED BY <1>1, <1>4, <1>6, <2>1 DEF Operation, UnlinkPlaces
  <1>8. Sound(x, made)
    <2> HIDE DEF where, x
    <2> QED BY <1>1, <1>2, <1>4, <1>6, <1>7 DEF Sound, UnlinkPlaces, Links!Ids
  <1>9. links' \in SUBSET Links!Ids /\ tables' \in [{Links!Local} \union Entities -> SUBSET Links!Ids]
        /\ UNCHANGED <<made, refs, resolver, doc, settled>>
    BY DEF Links!FindLink, Links!storing, RefType, StoreType
  <1> HIDE DEF x
  <1>10. RefType' /\ (Alone => Alone') /\ Onward(c, x)
    BY <1>5, <1>7, <1>8, <1>9, MoveType
  <1> QED BY <1>1, <1>2, <1>4, <1>10 DEF x

(* unlink deletes the link it has taken up. *)
LEMMA DeleteLinkType ==
  ASSUME RefType, NEW c \in Clients, Links!DeleteLink(c)
  PROVE  /\ RefType' /\ (Alone => Alone')
         /\ asked[c].link \in Links!Ids /\ asked[c].entity = made[asked[c].link]
         /\ Onward(c, [asked[c] EXCEPT !.at = "next"])
  <1> DEFINE x == [asked[c] EXCEPT !.at = "next"]
  <1>1. asked[c] \in Operation /\ Sound(asked[c], made) /\ asked[c].at = "last" /\ asked[c].kind = "unlink"
    BY DEF Links!DeleteLink, RefType, OpType
  <1>2. asked[c].link \in Links!Ids /\ asked[c].entity = made[asked[c].link]
    BY <1>1 DEF Sound, Links!Ids
  <1>3. x \in Operation /\ x.alone = asked[c].alone /\ x.kind = asked[c].kind /\ x.at = "next"
        /\ x.seen = asked[c].seen /\ x.entity = asked[c].entity /\ x.todo = asked[c].todo /\ x.link = asked[c].link
    BY <1>1 DEF Operation, UnlinkPlaces
  <1>4. Sound(x, made)
    BY <1>1, <1>2, <1>3 DEF Sound, UnlinkPlaces
  <1>5. asked' = [asked EXCEPT ![c] = x]
    BY DEF Links!DeleteLink, Links!At
  <1>6. links' \in SUBSET Links!Ids /\ tables' \in [{Links!Local} \union Entities -> SUBSET Links!Ids]
        /\ UNCHANGED <<made, refs, resolver, doc, settled>>
    BY DEF Links!DeleteLink, RefType, StoreType
  <1> HIDE DEF x
  <1>7. RefType' /\ (Alone => Alone') /\ Onward(c, x)
    BY <1>3, <1>4, <1>5, <1>6, MoveType
  <1> QED BY <1>2, <1>7 DEF x

(* The requests on an index, one after the other. *)
LEMMA StepsFacts ==
  /\ Links!Steps["readLocal"] = "writeLocal" /\ Links!Steps["writeLocal"] = "readRemote"
  /\ Links!Steps["readRemote"] = "writeRemote" /\ Links!Steps["writeRemote"] = "last"
  BY DEF Links!Steps

(* Reading and writing an index: an operation that links or unlinks.       *)
LEMMA IndexStep ==
  ASSUME RefType, NEW c \in Clients, asked[c].at \in {"readLocal", "writeLocal", "readRemote", "writeRemote"}
  PROVE  /\ asked[c].kind \in {"link", "unlink"} /\ asked[c].entity \in Entities
         /\ asked[c].link \in Links!Ids /\ made[asked[c].link] = asked[c].entity
         /\ Links!Key(c) = IF asked[c].at \in {"readLocal", "writeLocal"} THEN Links!Local ELSE asked[c].entity
         /\ Links!Key(c) \in {Links!Local} \union Entities /\ tables[Links!Key(c)] \in SUBSET Links!Ids
         /\ Links!Steps[asked[c].at] \in LinkPlaces \ {"set", "readLocal"}
  <1>1. asked[c] \in Operation /\ Sound(asked[c], made)
    BY DEF RefType, OpType
  <1>2. asked[c].kind \in {"link", "unlink"} /\ asked[c].entity \in Entities
    BY <1>1 DEF Operation, Sound
  <1>3. asked[c].link \in Links!Ids /\ made[asked[c].link] = asked[c].entity
    BY <1>1, <1>2 DEF Sound, Links!Ids
  <1>4. Links!Key(c) \in {Links!Local} \union Entities
    BY <1>2 DEF Links!Key
  <1>5. tables[Links!Key(c)] \in SUBSET Links!Ids
    BY <1>4 DEF RefType, StoreType
  <1>6. Links!Steps[asked[c].at] \in LinkPlaces \ {"set", "readLocal"}
    BY StepsFacts DEF LinkPlaces
  <1> QED BY <1>2, <1>3, <1>4, <1>5, <1>6 DEF Links!Key

(* An index is read into the operation. *)
LEMMA ReadIndexType ==
  ASSUME RefType, NEW c \in Clients, Links!ReadIndex(c)
  PROVE  /\ RefType' /\ (Alone => Alone')
         /\ Onward(c, [[asked[c] EXCEPT !.at = Links!Steps[asked[c].at]] EXCEPT !.seen = tables[Links!Key(c)]])
  <1> DEFINE at_ == Links!Steps[asked[c].at]
             S == tables[Links!Key(c)]
             x == [[asked[c] EXCEPT !.at = at_] EXCEPT !.seen = S]
  <1>1. asked[c] \in Operation /\ Sound(asked[c], made) /\ asked[c].at \in {"readLocal", "readRemote"}
        /\ asked \in [Clients -> Operation]
    BY DEF Links!ReadIndex, RefType, OpType
  <1>2. asked[c].kind \in {"link", "unlink"} /\ at_ \in LinkPlaces \ {"set", "readLocal"} /\ S \in SUBSET Links!Ids
    BY <1>1, IndexStep
  <1>3. S \in SUBSET Nat /\ S \subseteq DOMAIN made
    BY <1>2 DEF RefType, StoreType, Links!Ids
  <1>4. asked' = [asked EXCEPT ![c] = x]
    <2> HIDE DEF S
    <2>1. asked' = [asked EXCEPT ![c].at = Links!Steps[@], ![c].seen = S]
      BY DEF Links!ReadIndex, S
    <2> QED BY <2>1, <1>1
  <1> HIDE DEF S, at_
  <1>5. x \in Operation /\ x.alone = asked[c].alone /\ x.kind = asked[c].kind /\ x.at = at_
        /\ x.seen = S /\ x.entity = asked[c].entity /\ x.todo = asked[c].todo /\ x.link = asked[c].link
    BY <1>1, <1>2, <1>3 DEF Operation
  <1>6. Sound(x, made)
    BY <1>1, <1>2, <1>3, <1>5 DEF Sound, LinkPlaces, UnlinkPlaces
  <1>7. links' \in SUBSET Links!Ids /\ tables' \in [{Links!Local} \union Entities -> SUBSET Links!Ids]
        /\ UNCHANGED <<made, refs, resolver, doc, settled>>
    BY DEF Links!ReadIndex, Links!storing, RefType, StoreType
  <1> HIDE DEF x
  <1>8. RefType' /\ (Alone => Alone') /\ Onward(c, x)
    BY <1>4, <1>5, <1>6, <1>7, MoveType
  <1> QED BY <1>8 DEF x, S, at_

(* An index is written from what was read. *)
LEMMA WriteIndexType ==
  ASSUME RefType, NEW c \in Clients, Links!WriteIndex(c)
  PROVE  /\ RefType' /\ (Alone => Alone') /\ Onward(c, [asked[c] EXCEPT !.at = Links!Steps[asked[c].at]])
         /\ \A k \in {Links!Local} \union Entities :
              tables'[k] = IF k # Links!Key(c) THEN tables[k]
                          ELSE IF asked[c].kind = "link" THEN asked[c].seen \union {asked[c].link}
                                                      ELSE asked[c].seen \ {asked[c].link}
  <1> DEFINE at_ == Links!Steps[asked[c].at]
             x == [asked[c] EXCEPT !.at = at_]
             S == IF asked[c].kind = "link" THEN asked[c].seen \union {asked[c].link}
                                         ELSE asked[c].seen \ {asked[c].link}
  <1>1. asked[c] \in Operation /\ Sound(asked[c], made) /\ asked[c].at \in {"writeLocal", "writeRemote"}
    BY DEF Links!WriteIndex, RefType, OpType
  <1>2. asked[c].kind \in {"link", "unlink"} /\ at_ \in LinkPlaces \ {"set", "readLocal"}
        /\ asked[c].link \in Links!Ids /\ Links!Key(c) \in {Links!Local} \union Entities
    BY <1>1, IndexStep
  <1>3. S \in SUBSET Links!Ids
    BY <1>1, <1>2 DEF Sound, Links!Ids
  <1>4. asked' = [asked EXCEPT ![c] = x] /\ tables' = [tables EXCEPT ![Links!Key(c)] = S]
        /\ UNCHANGED <<links, made, refs, resolver, doc, settled>>
    BY DEF Links!WriteIndex, Links!At
  <1> HIDE DEF S, at_
  <1>5. x \in Operation /\ x.alone = asked[c].alone /\ x.kind = asked[c].kind /\ x.at = at_
        /\ x.seen = asked[c].seen /\ x.entity = asked[c].entity /\ x.todo = asked[c].todo /\ x.link = asked[c].link
    BY <1>1, <1>2 DEF Operation
  <1>6. Sound(x, made)
    BY <1>1, <1>2, <1>5 DEF Sound, LinkPlaces, UnlinkPlaces
  <1>7. /\ links' \in SUBSET Links!Ids /\ tables' \in [{Links!Local} \union Entities -> SUBSET Links!Ids]
        /\ \A k \in {Links!Local} \union Entities : tables'[k] = IF k # Links!Key(c) THEN tables[k] ELSE S
    BY <1>2, <1>3, <1>4 DEF RefType, StoreType
  <1> HIDE DEF x
  <1>8. RefType' /\ (Alone => Alone') /\ Onward(c, x)
    BY <1>4, <1>5, <1>6, <1>7, MoveType
  <1> QED BY <1>7, <1>8 DEF x, S, at_

(* A stale check learns the version of the document. *)
LEMMA GetVersionType ==
  ASSUME RefType, NEW c \in Clients, Links!GetVersion(c)
  PROVE  /\ RefType' /\ (Alone => Alone') /\ asked[c].kind = "check"
         /\ Onward(c, [[asked[c] EXCEPT !.at = "check"] EXCEPT !.version = doc])
  <1> DEFINE x == [[asked[c] EXCEPT !.at = "check"] EXCEPT !.version = doc]
  <1>1. asked[c] \in Operation /\ Sound(asked[c], made) /\ asked[c].at = "version" /\ asked \in [Clients -> Operation]
        /\ doc \in Nat
    BY DEF Links!GetVersion, RefType, OpType, StoreType
  <1>2. asked[c].kind = "check"
    BY <1>1 DEF Operation, Sound, LinkPlaces, UnlinkPlaces
  <1>3. x \in Operation /\ x.alone = asked[c].alone /\ x.kind = asked[c].kind /\ x.at = "check"
        /\ x.seen = asked[c].seen
    BY <1>1 DEF Operation
  <1>4. Sound(x, made)
    BY <1>1, <1>2, <1>3 DEF Sound
  <1>5. asked' = [asked EXCEPT ![c] = x]
    BY <1>1 DEF Links!GetVersion
  <1>6. links' \in SUBSET Links!Ids /\ tables' \in [{Links!Local} \union Entities -> SUBSET Links!Ids]
        /\ UNCHANGED <<made, refs, resolver, doc, settled>>
    BY DEF Links!GetVersion, Links!storing, RefType, StoreType
  <1> HIDE DEF x
  <1>7. RefType' /\ (Alone => Alone') /\ Onward(c, x)
    BY <1>3, <1>4, <1>5, <1>6, MoveType
  <1> QED BY <1>2, <1>7 DEF x

(* What happens between operations. *)
LEMMA DocumentsType ==
  ASSUME RefType,
         \/ \E v \in 1..MaxDocVersion : Links!ResolveDocs(v) \/ Links!AckDocs(v)
         \/ \E v \in 0..MaxDocVersion : Links!Publish(v)
  PROVE  RefType' /\ (Alone => Alone') /\ UNCHANGED <<asked, Links!storing, refs, made>>
  <1>1. UNCHANGED <<asked, Links!storing, refs, made>>
    BY DEF Links!ResolveDocs, Links!AckDocs, Links!Publish
  <1>2. OpType' /\ (Alone => Alone')
    BY <1>1 DEF RefType, OpType, Alone, Links!Linking
  <1>3. \A l : Links!Settled("link", l)' => Links!Settled("link", l)
    <2>1. ASSUME NEW v \in 1..MaxDocVersion, Links!ResolveDocs(v), NEW l, Links!Settled("link", l)' PROVE Links!Settled("link", l)
      <3>1. \A x : x \in settled' => x \in settled \/ x = <<"docs", v>>
        BY <2>1 DEF Links!ResolveDocs, Links!Forget
      <3> QED BY <2>1, <3>1 DEF Links!Settled
    <2>2. ASSUME NEW v \in 1..MaxDocVersion, Links!AckDocs(v), NEW l, Links!Settled("link", l)' PROVE Links!Settled("link", l)
      <3>1. \A x : x \in settled' => x \in settled \/ x = <<"ack", v>>
        BY <2>2 DEF Links!AckDocs
      <3> QED BY <2>2, <3>1 DEF Links!Settled
    <2>3. ASSUME NEW v \in 0..MaxDocVersion, Links!Publish(v) PROVE settled' = settled
      BY <2>3 DEF Links!Publish
    <2> QED BY <2>1, <2>2, <2>3 DEF Links!Settled
  <1>4. resolver \in Resolver /\ doc \in Nat
    BY DEF RefType, StoreType
  <1>5. resolver' \in Resolver /\ doc' \in Nat
    <2>1. ASSUME NEW v \in 1..MaxDocVersion, Links!ResolveDocs(v) PROVE resolver' \in Resolver /\ doc' = doc
      <3>1. [acks |-> <<>>, docs |-> v, stale |-> "fresh"] \in Resolver
        BY LinksAssumption DEF Resolver
      <3> QED BY <1>4, <2>1, <3>1, Update DEF Links!ResolveDocs
    <2>2. ASSUME NEW v \in 1..MaxDocVersion, Links!AckDocs(v) PROVE resolver' \in Resolver /\ doc' = doc
      <3>1. v \in Nat /\ resolver.acks \in Seq(Nat)
        BY <1>4, LinksAssumption DEF Resolver
      <3>2. Append(resolver.acks, v) \in Seq(Nat)
        BY <3>1
      <3>3. PICK acks \in Seq(Nat) : resolver' = [resolver EXCEPT !.acks = acks]
        BY <2>2, <3>1, <3>2 DEF Links!AckDocs
      <3> QED BY <1>4, <2>2, <3>3 DEF Resolver, Links!AckDocs
    <2>3. ASSUME NEW v \in 0..MaxDocVersion, Links!Publish(v) PROVE resolver' = resolver /\ doc' \in Nat
      BY <2>3, LinksAssumption DEF Links!Publish
    <2> QED BY <1>4, <2>1, <2>2, <2>3
  <1>6. StoreType'
    BY <1>1, <1>3, <1>5 DEF RefType, StoreType, Links!storing, Links!Ids
  <1> QED BY <1>1, <1>2, <1>6 DEF RefType

-----------------------------------------------------------------------------
(* How far an operation that met no other has come: what it has stored, or *)
(* what it has left to remove.                                             *)
Progress(o) ==
  o.alone =>
    /\ o.kind = "link" =>
         /\ o.at # "set" => o.link \in links
         /\ o.at \in {"readRemote", "writeRemote", "last"} => o.link \in tables[Links!Local]
         /\ o.at = "last" => o.link \in tables[o.entity]
    /\ o.kind = "unlink" /\ o.at # "list" =>
         /\ o.at = "writeLocal" => o.seen \subseteq tables[Links!Local]
         /\ \A l \in tables[Links!Local] \cap links :
              made[l] = o.entity => l \in o.todo \/ (o.at # "next" /\ l = o.link)

(* It will not take a link away, nor the entity from the references.       *)
Spares(o, l) ==
  /\ o.kind = "link" => made[l] \in o.refs
  /\ o.kind = "unlink" => made[l] # o.entity
  /\ o.at = "writeLocal" => l \in o.seen
  /\ o.at = "writeRemote" /\ made[l] = o.entity => l \in o.seen

(* It will not bring a link with an entity back. *)
Shuns(o, e) ==
  /\ o.kind = "link" => o.entity # e
  /\ o.at = "writeLocal" => \A l \in o.seen \cap links : made[l] # e

Fits(o) ==
  /\ Progress(o)
  /\ \A l \in Links!Ids : Links!Settled("link", l) => Spares(o, l)
  /\ \A e \in Entities : Links!Settled("unlinked", e) => Shuns(o, e)

LinkInv ==
  /\ RefType /\ Alone /\ Links!LinksAreKept
  /\ \A c \in Clients : Fits(asked[c])

(* Who does nothing writes nothing back. *)
LEMMA IdleFits == Fits(Links!Idle)
  BY DEF Links!Idle, Fits, Progress, Spares, Shuns

(* A step that leaves links, indexes and references alone.                 *)
LEMMA Quiet ==
  ASSUME LinkInv, RefType', Alone', NEW c \in Clients, UNCHANGED <<Links!storing, refs, made>>,
         \A what \in {"link", "unlinked"} : \A x : Links!Settled(what, x)' => Links!Settled(what, x),
         \A d \in Clients \ {c} :
           \/ asked'[d] = asked[d]
           \/ JoinedBy(d),
         Fits(asked[c])'
  PROVE  LinkInv'
  <1> USE DEF JoinedBy
  <1>1. ASSUME NEW d \in Clients \ {c} PROVE Fits(asked[d])'
    <2>1. asked[d] \in Operation /\ asked'[d] \in Operation /\ Fits(asked[d])
      BY DEF RefType, OpType, LinkInv
    <2>2. asked'[d].kind = asked[d].kind /\ asked'[d].at = asked[d].at /\ asked'[d].entity = asked[d].entity
          /\ asked'[d].link = asked[d].link /\ asked'[d].seen = asked[d].seen /\ asked'[d].todo = asked[d].todo
          /\ asked'[d].refs = asked[d].refs /\ (asked'[d].alone => asked[d].alone)
      BY <2>1 DEF Operation
    <2>3. links' = links /\ tables' = tables /\ made' = made /\ Links!Ids' = Links!Ids
      BY DEF Links!storing, Links!Ids
    <2>4. Progress(asked[d])'
      BY <2>1, <2>2, <2>3 DEF Fits, Progress
    <2>5. \A l \in Links!Ids' : Links!Settled("link", l)' => Spares(asked[d], l)'
      BY <2>1, <2>2, <2>3 DEF Fits, Spares
    <2>6. \A e \in Entities : Links!Settled("unlinked", e)' => Shuns(asked[d], e)'
      BY <2>1, <2>2, <2>3 DEF Fits, Shuns
    <2> QED BY <2>4, <2>5, <2>6 DEF Fits
  <1>2. Links!LinksAreKept'
    BY DEF LinkInv, Links!LinksAreKept, Links!LinkedIsFound, Links!UnlinkedIsGone,
      Links!storing, Links!Ids
  <1> QED BY <1>1, <1>2 DEF LinkInv

(* A step of an operation that links or unlinks: none of the others is     *)
(* alone.                                                                  *)
LEMMA Active ==
  ASSUME LinkInv, RefType', Alone', NEW c \in Clients, Links!Linking(c), made' = made,
         \A d \in Clients \ {c} : asked'[d] = asked[d],
         \A what \in {"link", "unlinked"} : \A x : Links!Settled(what, x)' => Links!Settled(what, x),
         \A l \in links' \ links, e \in Entities : Links!Settled("unlinked", e) => made[l] # e,
         Links!LinksAreKept', Fits(asked[c])'
  PROVE  LinkInv'
  <1>1. ASSUME NEW d \in Clients \ {c} PROVE Fits(asked[d])'
    <2>1. asked[d] \in Operation /\ asked'[d] = asked[d] /\ Fits(asked[d])
      BY DEF RefType, OpType, LinkInv
    <2>2. Links!Linking(d) => ~asked[d].alone
      BY DEF LinkInv, Alone
    <2>3. Links!Ids' = Links!Ids
      BY DEF Links!Ids
    <2>4. Progress(asked[d])'
      BY <2>1, <2>2 DEF Progress, Links!Linking
    <2>5. \A l \in Links!Ids' : Links!Settled("link", l)' => Spares(asked[d], l)'
      BY <2>1, <2>3 DEF Fits, Spares
    <2>6. \A e \in Entities : Links!Settled("unlinked", e)' => Shuns(asked[d], e)'
      BY <2>1 DEF Fits, Shuns
    <2> QED BY <2>4, <2>5, <2>6 DEF Fits
  <1> QED BY <1>1 DEF LinkInv

(* A linking that begins gives up what was promised of unlinking its       *)
(* entity.                                                                 *)
LEMMA LinkTrackerStep ==
  ASSUME LinkInv, NEW c \in Clients, NEW e \in Entities, Links!LinkTracker(c, e)
  PROVE  LinkInv'
  <1> USE DEF JoinedBy
  <1> DEFINE o == LinkOperation(e)
  <1>1. /\ RefType' /\ Alone'
        /\ asked'[c] = [o EXCEPT !.alone = asked'[c].alone]
        /\ \A d \in Clients \ {c} : JoinedBy(d)
    BY LinkTrackerType DEF LinkInv
  <1>2. /\ o \in Operation /\ o.kind = "link" /\ o.at = "set" /\ o.entity = e /\ o.refs = refs
        /\ o.link = Len(made) + 1
    BY Operations DEF LinkInv
  <1>3. /\ made' = Append(made, e) /\ made \in Seq(Entities) /\ UNCHANGED <<Links!storing, refs>>
        /\ settled' = settled \ {<<"unlinked", e>>}
    BY DEF Links!LinkTracker, Links!Forget, LinkInv, RefType, StoreType
  <1>4. Links!Ids \subseteq Links!Ids' /\ \A l \in Links!Ids : made'[l] = made[l]
    BY <1>3, Grown DEF Links!Ids
  <1>5. /\ \A l : Links!Settled("link", l)' => Links!Settled("link", l) /\ l \in Links!Ids
        /\ \A x : Links!Settled("unlinked", x)' => Links!Settled("unlinked", x) /\ x # e
    BY <1>3 DEF Links!Settled, LinkInv, RefType, StoreType
  <1>6. /\ links \subseteq Links!Ids /\ tables[Links!Local] \subseteq Links!Ids /\ links' = links /\ tables' = tables /\ refs' = refs
    BY <1>3 DEF LinkInv, RefType, StoreType, Links!storing
  <1>7. Links!LinksAreKept'
    BY <1>4, <1>5, <1>6 DEF LinkInv, Links!LinksAreKept, Links!LinkedIsFound,
      Links!UnlinkedIsGone
  <1>8. Fits(asked[c])'
    <2> HIDE DEF o
    <2>1. asked'[c].kind = "link" /\ asked'[c].at = "set" /\ asked'[c].entity = e /\ asked'[c].refs = refs
      BY <1>1, <1>2 DEF Operation
    <2>2. \A l \in Links!Ids : Links!Settled("link", l) => made[l] \in refs
      BY DEF LinkInv, Links!LinksAreKept, Links!LinkedIsFound
    <2> QED BY <2>1, <2>2, <1>4, <1>5 DEF Fits, Progress, Spares, Shuns
  <1>9. ASSUME NEW d \in Clients \ {c} PROVE Fits(asked[d])'
    <2>1. asked[d] \in Operation /\ asked'[d] \in Operation /\ Fits(asked[d]) /\ asked[d].seen \subseteq Links!Ids
      BY <1>1 DEF RefType, OpType, LinkInv, Sound, Links!Ids
    <2>2. asked'[d].kind = asked[d].kind /\ asked'[d].at = asked[d].at /\ asked'[d].entity = asked[d].entity
          /\ asked'[d].link = asked[d].link /\ asked'[d].seen = asked[d].seen /\ asked'[d].todo = asked[d].todo
          /\ asked'[d].refs = asked[d].refs /\ (asked'[d].alone => asked[d].alone)
      BY <1>1, <2>1 DEF Operation
    <2>4. Progress(asked[d])'
      BY <2>1, <2>2, <1>4, <1>6 DEF Fits, Progress
    <2>5. \A l \in Links!Ids' : Links!Settled("link", l)' => Spares(asked[d], l)'
      BY <2>1, <2>2, <1>4, <1>5 DEF Fits, Spares
    <2>6. \A x \in Entities : Links!Settled("unlinked", x)' => Shuns(asked[d], x)'
      BY <2>1, <2>2, <1>4, <1>5, <1>6 DEF Fits, Shuns
    <2> QED BY <2>4, <2>5, <2>6 DEF Fits
  <1> QED BY <1>1, <1>7, <1>8, <1>9 DEF LinkInv

(* An unlinking that begins gives up what was promised of the links of its *)
(* entity.                                                                 *)
LEMMA UnlinkTrackerStep ==
  ASSUME LinkInv, NEW c \in Clients, NEW e \in Entities, Links!UnlinkTracker(c, e)
  PROVE  LinkInv'
  <1> USE DEF JoinedBy
  <1> DEFINE o == UnlinkOperation(e)
  <1>1. /\ RefType' /\ Alone'
        /\ asked'[c] = [o EXCEPT !.alone = asked'[c].alone]
        /\ \A d \in Clients \ {c} : JoinedBy(d)
    BY UnlinkTrackerType DEF LinkInv
  <1>2. /\ o \in Operation /\ o.kind = "unlink" /\ o.at = "list" /\ o.entity = e
    BY Operations DEF LinkInv
  <1>3. /\ UNCHANGED <<Links!storing, refs, made>>
        /\ settled' = settled \ {<<"link", l>> : l \in {i \in Links!Ids : made[i] = e}}
    BY DEF Links!UnlinkTracker, Links!Forget
  <1>4. \A l \in Links!Ids : Links!Settled("link", l)' => made[l] # e
    BY <1>3 DEF Links!Settled
  <1>5. \A what \in {"link", "unlinked"} : \A x : Links!Settled(what, x)' => Links!Settled(what, x)
    BY <1>3 DEF Links!Settled
  <1>6. Fits(asked[c])'
    <2> HIDE DEF o
    <2>1. asked'[c].kind = "unlink" /\ asked'[c].at = "list" /\ asked'[c].entity = e
      BY <1>1, <1>2 DEF Operation
    <2>2. Links!Ids' = Links!Ids /\ made' = made
      BY <1>3 DEF Links!Ids
    <2> QED BY <2>1, <2>2, <1>4 DEF Fits, Progress, Spares, Shuns
  <1> QED BY <1>1, <1>3, <1>5, <1>6, Quiet

(* Stale checks touch no link. *)
LEMMA StaleCheckStep ==
  ASSUME LinkInv, NEW c \in Clients, Links!StaleCheck(c)
  PROVE  LinkInv'
  <1> USE DEF JoinedBy
  <1>1. /\ RefType' /\ Alone'
        /\ asked'[c] = [CheckOperation EXCEPT !.alone = asked'[c].alone]
        /\ \A d \in Clients \ {c} : JoinedBy(d)
    BY StaleCheckType DEF LinkInv
  <1>2. /\ CheckOperation \in Operation /\ CheckOperation.kind = "check" /\ CheckOperation.at = "version"
    BY CheckOperations DEF LinkInv
  <1>3. UNCHANGED <<Links!storing, refs, made, settled>>
    BY DEF Links!StaleCheck
  <1>4. asked'[c].kind = "check" /\ asked'[c].at = "version"
    BY <1>1, <1>2 DEF Operation
  <1>5. Fits(asked[c])'
    BY <1>4 DEF Fits, Progress, Spares, Shuns
  <1> QED BY <1>1, <1>3, <1>5, Quiet DEF Links!Settled

(* An operation that stops writes nothing more. *)
LEMMA FailStep ==
  ASSUME LinkInv, NEW c \in Clients, Links!Fail(c) \/ Links!Checked(c)
  PROVE  LinkInv'
  <1>1. RefType' /\ Alone' /\ Onward(c, Links!Idle)
    BY FailType, CheckedType DEF LinkInv
  <1>2. UNCHANGED <<Links!storing, refs, made, settled>>
    BY DEF Links!Fail, Links!Checked
  <1>3. Fits(asked[c])'
    BY <1>1 DEF Onward, Fits, Progress, Spares, Shuns, Links!Idle
  <1> QED BY <1>1, <1>2, <1>3, Quiet DEF Onward, Links!Settled

(* The version of the document is read between links. *)
LEMMA GetVersionStep ==
  ASSUME LinkInv, NEW c \in Clients, Links!GetVersion(c)
  PROVE  LinkInv'
  <1>1. /\ RefType' /\ Alone' /\ asked[c].kind = "check"
        /\ Onward(c, [[asked[c] EXCEPT !.at = "check"] EXCEPT !.version = doc])
    BY GetVersionType DEF LinkInv
  <1>2. UNCHANGED <<Links!storing, refs, made, settled>>
    BY DEF Links!GetVersion
  <1>3. asked'[c].kind = "check" /\ asked'[c].at = "check"
    BY <1>1 DEF Onward, Operation, LinkInv, RefType, OpType
  <1>4. Fits(asked[c])'
    BY <1>3 DEF Fits, Progress, Spares, Shuns
  <1> QED BY <1>1, <1>2, <1>4, Quiet DEF Onward, Links!Settled

(* Documents are resolved, acknowledged and published beside the links. *)
LEMMA DocumentsStep ==
  ASSUME LinkInv,
         \/ \E v \in 1..MaxDocVersion : Links!ResolveDocs(v) \/ Links!AckDocs(v)
         \/ \E v \in 0..MaxDocVersion : Links!Publish(v)
  PROVE  LinkInv'
  <1>1. RefType' /\ Alone' /\ UNCHANGED <<asked, Links!storing, refs, made>>
    BY DocumentsType DEF LinkInv
  <1>2. \A what \in {"link", "unlinked"} : \A x : Links!Settled(what, x)' => Links!Settled(what, x)
    <2>1. ASSUME NEW v \in 1..MaxDocVersion, Links!ResolveDocs(v), NEW what \in {"link", "unlinked"}, NEW x, Links!Settled(what, x)'
          PROVE  Links!Settled(what, x)
      <3>1. \A y : y \in settled' => y \in settled \/ y = <<"docs", v>>
        BY <2>1 DEF Links!ResolveDocs, Links!Forget
      <3> QED BY <2>1, <3>1 DEF Links!Settled
    <2>2. ASSUME NEW v \in 1..MaxDocVersion, Links!AckDocs(v), NEW what \in {"link", "unlinked"}, NEW x, Links!Settled(what, x)'
          PROVE  Links!Settled(what, x)
      <3>1. \A y : y \in settled' => y \in settled \/ y = <<"ack", v>>
        BY <2>2 DEF Links!AckDocs
      <3> QED BY <2>2, <3>1 DEF Links!Settled
    <2>3. ASSUME NEW v \in 0..MaxDocVersion, Links!Publish(v) PROVE settled' = settled
      BY <2>3 DEF Links!Publish
    <2> QED BY <2>1, <2>2, <2>3 DEF Links!Settled
  <1>3. \A c \in Clients : Fits(asked[c])'
    BY <1>1, <1>2 DEF LinkInv, Fits, Progress, Spares, Shuns, Links!storing, Links!Ids
  <1>4. Links!LinksAreKept'
    BY <1>1, <1>2 DEF LinkInv, Links!LinksAreKept, Links!LinkedIsFound, Links!UnlinkedIsGone,
      Links!storing, Links!Ids
  <1> QED BY <1>1, <1>3, <1>4 DEF LinkInv

(* What unlink lists is all the task has with the entity. *)
LEMMA ListLinksStep ==
  ASSUME LinkInv, NEW c \in Clients, Links!ListLinks(c)
  PROVE  LinkInv'
  <1> DEFINE S == {l \in tables[Links!Local] : made[l] = asked[c].entity}
  <1>1. /\ RefType' /\ Alone' /\ asked[c].kind = "unlink"
        /\ Onward(c, [[asked[c] EXCEPT !.at = "next"] EXCEPT !.todo = S])
    BY ListLinksType DEF LinkInv
  <1>2. UNCHANGED <<Links!storing, refs, made, settled>>
    BY DEF Links!ListLinks
  <1>3. asked[c] \in Operation /\ Fits(asked[c])
    BY DEF LinkInv, RefType, OpType
  <1>4. /\ asked'[c].kind = "unlink" /\ asked'[c].at = "next" /\ asked'[c].todo = S
        /\ asked'[c].entity = asked[c].entity
    <2> HIDE DEF S
    <2> QED BY <1>1, <1>3 DEF Onward, Operation
  <1>5. Fits(asked[c])'
    BY <1>1, <1>2, <1>3, <1>4 DEF Fits, Progress, Spares, Shuns, Links!storing, Links!Ids,
      Links!Settled
  <1> QED BY <1>1, <1>2, <1>5, Quiet DEF Onward, Links!Settled

(* What it takes up is no longer to do. *)
LEMMA FindLinkStep ==
  ASSUME LinkInv, NEW c \in Clients, Links!FindLink(c)
  PROVE  LinkInv'
  <1>1. /\ RefType' /\ Alone' /\ asked[c].kind = "unlink" /\ asked[c].at = "next"
    BY FindLinkType DEF LinkInv
  <1>2. PICK l \in asked[c].todo : l \in Links!Ids /\ made[l] = asked[c].entity /\ Onward(c, Found(asked[c], l))
    BY FindLinkType DEF LinkInv
  <1>3. UNCHANGED <<Links!storing, refs, made, settled>>
    BY DEF Links!FindLink
  <1>4. asked[c] \in Operation /\ Fits(asked[c])
    BY DEF LinkInv, RefType, OpType
  <1>5. /\ asked'[c].kind = "unlink" /\ asked'[c].at \in {"readLocal", "last"} /\ asked'[c].todo = asked[c].todo \ {l}
        /\ asked'[c].entity = asked[c].entity /\ asked'[c].link = l /\ asked'[c].alone = asked[c].alone
    <2> DEFINE where == IF l \in links THEN "readLocal" ELSE "last"
    <2>1. where \in {"readLocal", "last"}
      OBVIOUS
    <2>2. asked'[c] = [[[asked[c] EXCEPT !.todo = asked[c].todo \ {l}] EXCEPT !.link = l] EXCEPT !.at = where]
      BY <1>2 DEF Found, Onward
    <2> HIDE DEF where
    <2> QED BY <1>1, <1>4, <2>1, <2>2 DEF Operation
  <1>6. Fits(asked[c])'
    BY <1>1, <1>3, <1>4, <1>5 DEF Fits, Progress, Spares, Shuns, Links!storing, Links!Ids,
      Links!Settled
  <1> QED BY <1>1, <1>2, <1>3, <1>6, Quiet DEF Onward, Links!Settled

(* What is read now is the index that will be written back, as long as it  *)
(* is alone.                                                               *)
LEMMA ReadIndexStep ==
  ASSUME LinkInv, NEW c \in Clients, Links!ReadIndex(c)
  PROVE  LinkInv'
  <1> DEFINE S == tables[Links!Key(c)]
  <1>1. /\ RefType' /\ Alone' /\ Onward(c, [[asked[c] EXCEPT !.at = Links!Steps[asked[c].at]] EXCEPT !.seen = S])
    BY ReadIndexType DEF LinkInv
  <1>2. UNCHANGED <<Links!storing, refs, made, settled>> /\ asked[c].at \in {"readLocal", "readRemote"}
    BY DEF Links!ReadIndex
  <1>3. asked[c] \in Operation /\ Fits(asked[c])
    BY DEF LinkInv, RefType, OpType
  <1>4. Links!Key(c) = (IF asked[c].at = "readLocal" THEN Links!Local ELSE asked[c].entity) /\ Links!Key(c) \in {Links!Local} \union Entities
        /\ asked[c].entity \in Entities
    BY <1>2, IndexStep DEF LinkInv
  <1>5. /\ asked'[c].at = IF asked[c].at = "readLocal" THEN "writeLocal" ELSE "writeRemote"
        /\ asked'[c].kind = asked[c].kind /\ asked'[c].seen = S /\ asked'[c].todo = asked[c].todo /\ asked'[c].refs = asked[c].refs
        /\ asked'[c].entity = asked[c].entity /\ asked'[c].link = asked[c].link /\ asked'[c].alone = asked[c].alone
    <2> HIDE DEF S
    <2> QED BY <1>1, <1>2, <1>3, StepsFacts DEF Onward, Operation
  <1>6. links' = links /\ tables' = tables /\ made' = made /\ settled' = settled /\ Links!Ids' = Links!Ids
    BY <1>2 DEF Links!storing, Links!Ids
  <1>7. Progress(asked[c])'
    BY <1>2, <1>3, <1>4, <1>5, <1>6 DEF Fits, Progress
  <1>8. ASSUME NEW l \in Links!Ids, Links!Settled("link", l) PROVE Spares(asked[c], l)'
    BY <1>2, <1>3, <1>4, <1>5, <1>6, <1>8 DEF Fits, Spares, LinkInv, Links!LinksAreKept,
      Links!LinkedIsFound
  <1>9. ASSUME NEW e \in Entities, Links!Settled("unlinked", e) PROVE Shuns(asked[c], e)'
    BY <1>2, <1>3, <1>4, <1>5, <1>6, <1>9 DEF Fits, Shuns, LinkInv, Links!LinksAreKept,
      Links!UnlinkedIsGone
  <1>10. Fits(asked[c])'
    BY <1>6, <1>7, <1>8, <1>9 DEF Fits, Links!Settled
  <1> QED BY <1>1, <1>2, <1>10, Quiet DEF Onward, Links!Settled

(* A stored link is new: no list names it, and nobody unlinks it. *)
LEMMA SetEntityLinkStep ==
  ASSUME LinkInv, NEW c \in Clients, Links!SetEntityLink(c)
  PROVE  LinkInv'
  <1>1. /\ RefType' /\ Alone' /\ asked[c].kind = "link"
        /\ asked[c].link \in Links!Ids /\ asked[c].entity = made[asked[c].link]
        /\ Onward(c, [asked[c] EXCEPT !.at = "readLocal"])
    BY SetEntityLinkType DEF LinkInv
  <1>2. UNCHANGED <<tables, refs, made, settled>> /\ links' = links \union {asked[c].link}
    BY DEF Links!SetEntityLink
  <1>3. asked[c] \in Operation /\ Fits(asked[c])
    BY DEF LinkInv, RefType, OpType
  <1>4. /\ asked'[c].at = "readLocal" /\ asked'[c].kind = asked[c].kind /\ asked'[c].refs = asked[c].refs
        /\ asked'[c].entity = asked[c].entity /\ asked'[c].link = asked[c].link /\ asked'[c].alone = asked[c].alone
    BY <1>1, <1>3 DEF Onward, Operation
  <1>5. Links!Ids' = Links!Ids
    BY <1>2 DEF Links!Ids
  <1>6. Fits(asked[c])'
    BY <1>1, <1>2, <1>3, <1>4, <1>5 DEF Fits, Progress, Spares, Shuns, Links!Settled
  <1>7. \A e \in Entities : Links!Settled("unlinked", e) => asked[c].entity # e
    BY <1>1, <1>3 DEF Fits, Shuns
  <1>8. Links!LinksAreKept'
    BY <1>1, <1>2, <1>5, <1>7 DEF LinkInv, Links!LinksAreKept, Links!LinkedIsFound,
      Links!UnlinkedIsGone, Links!Settled
  <1> QED BY <1>1, <1>2, <1>6, <1>7, <1>8, Active DEF Onward, Links!Settled, Links!Linking

(* What is written back keeps the settled links and brings no unlinked one *)
(* back.                                                                   *)
LEMMA WriteIndexStep ==
  ASSUME LinkInv, NEW c \in Clients, Links!WriteIndex(c)
  PROVE  LinkInv'
  <1>1. /\ RefType' /\ Alone' /\ Onward(c, [asked[c] EXCEPT !.at = Links!Steps[asked[c].at]])
        /\ \A k \in {Links!Local} \union Entities :
              tables'[k] = IF k # Links!Key(c) THEN tables[k]
                          ELSE IF asked[c].kind = "link" THEN asked[c].seen \union {asked[c].link}
                                                      ELSE asked[c].seen \ {asked[c].link}
    BY WriteIndexType DEF LinkInv
  <1>2. UNCHANGED <<links, refs, made, settled>> /\ asked[c].at \in {"writeLocal", "writeRemote"}
    BY DEF Links!WriteIndex
  <1>3. asked[c] \in Operation /\ Fits(asked[c])
    BY DEF LinkInv, RefType, OpType
  <1>4. /\ Links!Key(c) = (IF asked[c].at = "writeLocal" THEN Links!Local ELSE asked[c].entity) /\ asked[c].entity \in Entities
        /\ asked[c].kind \in {"link", "unlink"} /\ asked[c].link \in Links!Ids /\ made[asked[c].link] = asked[c].entity
    BY <1>2, IndexStep DEF LinkInv
  <1>5. /\ asked'[c].at = IF asked[c].at = "writeLocal" THEN "readRemote" ELSE "last"
        /\ asked'[c].kind = asked[c].kind /\ asked'[c].todo = asked[c].todo /\ asked'[c].refs = asked[c].refs
        /\ asked'[c].entity = asked[c].entity /\ asked'[c].link = asked[c].link /\ asked'[c].alone = asked[c].alone
    BY <1>1, <1>2, <1>3, StepsFacts DEF Onward, Operation
  <1>6. Links!Ids' = Links!Ids /\ \A l \in Links!Ids : made[l] \in Entities /\ made[l] # Links!Local
    BY <1>2, LinksAssumption DEF Links!Ids, LinkInv, RefType, StoreType
  <1>7. /\ tables'[Links!Local] = IF asked[c].at # "writeLocal" THEN tables[Links!Local]
                           ELSE IF asked[c].kind = "link" THEN asked[c].seen \union {asked[c].link}
                                                       ELSE asked[c].seen \ {asked[c].link}
        /\ \A e \in Entities :
             tables'[e] = IF asked[c].at # "writeRemote" \/ e # asked[c].entity THEN tables[e]
                         ELSE IF asked[c].kind = "link" THEN asked[c].seen \union {asked[c].link}
                                                     ELSE asked[c].seen \ {asked[c].link}
    BY <1>1, <1>2, <1>4, LinksAssumption
  <1>8. Progress(asked[c])'
    BY <1>2, <1>3, <1>4, <1>5, <1>7 DEF Fits, Progress
  <1>9. Fits(asked[c])'
    BY <1>2, <1>3, <1>5, <1>6, <1>8 DEF Fits, Spares, Shuns, Links!Settled
  <1>10. Links!LinkedIsFound'
    <2> SUFFICES ASSUME NEW l \in Links!Ids, Links!Settled("link", l)
                 PROVE  l \in links /\ l \in tables'[Links!Local] /\ l \in tables'[made[l]] /\ made[l] \in refs
      BY <1>2, <1>6 DEF Links!LinkedIsFound, Links!Settled
    <2>1. Spares(asked[c], l) /\ l \in links /\ l \in tables[Links!Local] /\ l \in tables[made[l]] /\ made[l] \in refs
      BY <1>3 DEF Fits, LinkInv, Links!LinksAreKept, Links!LinkedIsFound
    <2>2. l \in tables'[Links!Local]
      BY <2>1, <1>4, <1>7 DEF Spares
    <2>3. l \in tables'[made[l]]
      BY <2>1, <1>2, <1>4, <1>6, <1>7 DEF Spares
    <2> QED BY <2>1, <2>2, <2>3
  <1>11. Links!UnlinkedIsGone'
    <2> SUFFICES ASSUME NEW e \in Entities, Links!Settled("unlinked", e), NEW l \in tables'[Links!Local] \cap links
                 PROVE  made[l] # e
      BY <1>2 DEF Links!UnlinkedIsGone, Links!Settled
    <2>1. Shuns(asked[c], e) /\ \A i \in tables[Links!Local] \cap links : made[i] # e
      BY <1>3 DEF Fits, LinkInv, Links!LinksAreKept, Links!UnlinkedIsGone
    <2> QED BY <2>1, <1>2, <1>4, <1>7 DEF Shuns
  <1>12. Links!LinksAreKept'
    BY <1>10, <1>11 DEF Links!LinksAreKept
  <1> QED BY <1>1, <1>2, <1>4, <1>9, <1>12, Active DEF Onward, Links!Settled, Links!Linking

(* A deleted link is one whose promise was given up. *)
LEMMA DeleteLinkStep ==
  ASSUME LinkInv, NEW c \in Clients, Links!DeleteLink(c)
  PROVE  LinkInv'
  <1>1. /\ RefType' /\ Alone' /\ asked[c].link \in Links!Ids /\ asked[c].entity = made[asked[c].link]
        /\ Onward(c, [asked[c] EXCEPT !.at = "next"])
    BY DeleteLinkType DEF LinkInv
  <1>2. UNCHANGED <<tables, refs, made, settled>> /\ links' = links \ {asked[c].link}
        /\ asked[c].kind = "unlink" /\ asked[c].at = "last"
    BY DEF Links!DeleteLink
  <1>3. asked[c] \in Operation /\ Fits(asked[c])
    BY DEF LinkInv, RefType, OpType
  <1>4. /\ asked'[c].at = "next" /\ asked'[c].kind = asked[c].kind /\ asked'[c].todo = asked[c].todo
        /\ asked'[c].entity = asked[c].entity /\ asked'[c].link = asked[c].link /\ asked'[c].alone = asked[c].alone
    BY <1>1, <1>3 DEF Onward, Operation
  <1>5. Links!Ids' = Links!Ids
    BY <1>2 DEF Links!Ids
  <1>6. Fits(asked[c])'
    BY <1>2, <1>3, <1>4, <1>5 DEF Fits, Progress, Spares, Shuns, Links!Settled
  <1>7. \A l \in Links!Ids : Links!Settled("link", l) => l # asked[c].link
    BY <1>1, <1>2, <1>3 DEF Fits, Spares
  <1>8. Links!LinksAreKept'
    BY <1>2, <1>5, <1>7 DEF LinkInv, Links!LinksAreKept, Links!LinkedIsFound,
      Links!UnlinkedIsGone, Links!Settled
  <1> QED BY <1>1, <1>2, <1>6, <1>8, Active DEF Onward, Links!Settled, Links!Linking

(* Where nobody else links or unlinks, the others hold nothing back.       *)
LEMMA OthersHoldNothing ==
  ASSUME RefType, Alone, NEW c \in Clients, Links!Linking(c), asked[c].alone, NEW d \in Clients \ {c}
  PROVE  asked[d].kind \notin {"link", "unlink"} /\ asked[d].at \in {"start", "version", "check"}
  <1>1. asked[d] \in Operation /\ Sound(asked[d], made) /\ ~Links!Linking(d)
    BY DEF RefType, OpType, Alone
  <1> QED BY <1>1 DEF Operation, Sound, Links!Linking

(* An operation ends, having settled what it did if it was alone.          *)
LEMMA Settling ==
  ASSUME LinkInv, RefType', Alone', NEW c \in Clients, Links!Linking(c), Onward(c, Links!Idle),
         UNCHANGED <<Links!storing, made>>, Links!LinksAreKept',
         NEW what \in {"link", "unlinked"}, NEW of,
         settled' = IF asked[c].alone THEN settled \union {<<what, of>>} ELSE settled
  PROVE  LinkInv'
  <1>1. \A w \in {"link", "unlinked"} : \A x :
          Links!Settled(w, x)' => Links!Settled(w, x) \/ (asked[c].alone /\ w = what /\ x = of)
    BY DEF Links!Settled
  <1>2. links' = links /\ tables' = tables /\ Links!Ids' = Links!Ids
    BY DEF Links!storing, Links!Ids
  <1>3. ASSUME NEW d \in Clients \ {c} PROVE Fits(asked[d])'
    <2>1. asked'[d] = asked[d] /\ Fits(asked[d])
      BY DEF LinkInv, Onward
    <2>2. Progress(asked[d])'
      BY <2>1, <1>2 DEF Fits, Progress
    <2>3. CASE asked[c].alone
      <3>1. asked[d].kind \notin {"link", "unlink"} /\ asked[d].at \in {"start", "version", "check"}
        BY <2>3, OthersHoldNothing DEF LinkInv
      <3> QED BY <2>1, <2>2, <3>1 DEF Fits, Spares, Shuns
    <2>4. CASE ~asked[c].alone
      <3>1. settled' = settled
        BY <2>4
      <3> QED BY <2>1, <2>2, <3>1, <1>2 DEF Fits, Spares, Shuns, Links!Settled
    <2> QED BY <2>3, <2>4
  <1>4. Fits(asked[c])'
    BY DEF Onward, Fits, Progress, Spares, Shuns, Links!Idle
  <1> QED BY <1>3, <1>4 DEF LinkInv

(* An unlinking that was alone has left no stored link with its entity. *)
LEMMA UnlinkedStep ==
  ASSUME LinkInv, NEW c \in Clients, Links!Unlinked(c)
  PROVE  LinkInv'
  <1>1. RefType' /\ Alone' /\ Onward(c, Links!Idle)
    BY UnlinkedType DEF LinkInv
  <1>2. /\ UNCHANGED <<Links!storing, refs, made>> /\ asked[c].at = "next" /\ asked[c].todo = {}
        /\ settled' = IF asked[c].alone THEN settled \union {<<"unlinked", asked[c].entity>>} ELSE settled
    BY DEF Links!Unlinked
  <1>3. asked[c] \in Operation /\ Fits(asked[c]) /\ asked[c].kind = "unlink"
    BY <1>2 DEF LinkInv, RefType, OpType, Operation, Sound, LinkPlaces
  <1>4. asked[c].alone => \A l \in tables[Links!Local] \cap links : made[l] # asked[c].entity
    BY <1>2, <1>3 DEF Fits, Progress
  <1>5. /\ \A x : Links!Settled("link", x)' => Links!Settled("link", x)
        /\ \A x : Links!Settled("unlinked", x)' => Links!Settled("unlinked", x) \/ (asked[c].alone /\ x = asked[c].entity)
    BY <1>2 DEF Links!Settled
  <1>6. Links!LinksAreKept'
    BY <1>2, <1>4, <1>5 DEF LinkInv, Links!LinksAreKept, Links!LinkedIsFound,
      Links!UnlinkedIsGone, Links!storing, Links!Ids
  <1> QED BY <1>1, <1>2, <1>3, <1>6, Settling DEF Links!Linking

(* A linking that was alone is in both lists, in the store and in the      *)
(* references.                                                             *)
LEMMA LinkedStep ==
  ASSUME LinkInv, NEW c \in Clients, Links!Linked(c)
  PROVE  LinkInv'
  <1>1. RefType' /\ Alone' /\ Onward(c, Links!Idle)
    BY LinkedType DEF LinkInv
  <1>2. /\ UNCHANGED <<Links!storing, made>> /\ asked[c].at = "last" /\ asked[c].kind = "link"
        /\ refs' = asked[c].refs \union {asked[c].entity}
        /\ settled' = IF asked[c].alone THEN settled \union {<<"link", asked[c].link>>} ELSE settled
    BY DEF Links!Linked, Links!Merged
  <1>3. asked[c] \in Operation /\ Fits(asked[c]) /\ asked[c].link \in Links!Ids /\ made[asked[c].link] = asked[c].entity
    BY <1>2 DEF LinkInv, RefType, OpType, Sound, Links!Ids
  <1>4. /\ \A x : Links!Settled("unlinked", x)' => Links!Settled("unlinked", x)
        /\ \A x : Links!Settled("link", x)' => Links!Settled("link", x) \/ (asked[c].alone /\ x = asked[c].link)
    BY <1>2 DEF Links!Settled
  <1>5. Links!LinkedIsFound'
    <2> SUFFICES ASSUME NEW l \in Links!Ids, Links!Settled("link", l)'
                 PROVE  l \in links /\ l \in tables[Links!Local] /\ l \in tables[made[l]] /\ made[l] \in refs'
      BY <1>2 DEF Links!LinkedIsFound, Links!storing, Links!Ids
    <2>1. CASE Links!Settled("link", l)
      BY <1>2, <1>3, <2>1 DEF Fits, Spares, LinkInv, Links!LinksAreKept, Links!LinkedIsFound
    <2>2. CASE asked[c].alone /\ l = asked[c].link
      BY <1>2, <1>3, <2>2 DEF Fits, Progress
    <2> QED BY <1>4, <2>1, <2>2
  <1>6. Links!UnlinkedIsGone'
    BY <1>2, <1>4 DEF LinkInv, Links!LinksAreKept, Links!UnlinkedIsGone, Links!storing
  <1>7. Links!LinksAreKept'
    BY <1>5, <1>6 DEF Links!LinksAreKept
  <1> QED BY <1>1, <1>2, <1>7, Settling DEF Links!Linking

(* Each step on links or documents. *)
LEMMA LinkStep ==
  ASSUME LinkInv, [Links!Next]_Links!vars
  PROVE  LinkInv'
  <1>1. CASE UNCHANGED Links!vars
    BY <1>1 DEF Links!vars, Links!storing, LinkInv, RefType, OpType, StoreType, Links!Settled,
      Links!Ids, Alone, Links!Linking,
      Links!LinksAreKept, Links!LinkedIsFound, Links!UnlinkedIsGone, Fits, Progress, Spares, Shuns
  <1>2. CASE Links!LinkNext
    BY <1>2, LinkTrackerStep, UnlinkTrackerStep, SetEntityLinkStep, ListLinksStep, FindLinkStep,
      DeleteLinkStep, UnlinkedStep, ReadIndexStep, WriteIndexStep, LinkedStep, FailStep DEF Links!LinkNext
  <1>3. CASE Links!ReadNext
    BY <1>3, StaleCheckStep, GetVersionStep, FailStep, DocumentsStep DEF Links!ReadNext
  <1> QED BY <1>1, <1>2, <1>3 DEF Links!Next

(* No links and no operations yet. *)
LEMMA LinkInitially == Links!Init => LinkInv
  <1> SUFFICES ASSUME Links!Init PROVE LinkInv
    OBVIOUS
  <1>1. Links!Ids = {} /\ made \in Seq(Entities) /\ settled = {}
    BY DEF Links!Init, Links!Ids
  <1>2. \A c \in Clients : asked[c] = Links!Idle /\ asked[c].kind = "idle"
    BY DEF Links!Init, Links!Idle
  <1>3. OpType
    BY <1>2, IdleIsSound DEF Links!Init, OpType
  <1>4. StoreType
    <2>1. resolver \in Resolver /\ doc \in Nat
      BY DEF Links!Init, Links!Idle, Resolver
    <2> QED BY <1>1, <2>1 DEF Links!Init, StoreType, Links!Settled
  <1>5. Alone
    BY <1>2 DEF Alone, Links!Linking
  <1>6. Links!LinksAreKept
    BY <1>1 DEF Links!LinksAreKept, Links!LinkedIsFound, Links!UnlinkedIsGone, Links!Settled
  <1> QED BY <1>2, <1>3, <1>4, <1>5, <1>6, IdleFits DEF LinkInv, RefType

-----------------------------------------------------------------------------
Carries(r, v) == \E i \in DOMAIN r.acks : r.acks[i] = v

(* What is settled is also known to every check in flight: it writes back  *)
(* the references it has read.                                             *)
Remembers(r) ==
  \A v \in 1..MaxDocVersion :
    /\ Links!Settled("ack", v) => Carries(r, v)
    /\ Links!Settled("docs", v) => r.docs = v

KnownInv ==
  /\ RefType /\ Remembers(resolver)
  /\ \A c \in Clients : Links!Checking(c) => Remembers(asked[c].resolver)

(* The task itself is among those that remember. *)
LEMMA KnownIsAcknowledged == KnownInv => Links!AcknowledgedIsKnown
  BY DEF KnownInv, Remembers, Carries, Links!AcknowledgedIsKnown

(* Steps that settle no document and begin no check. *)
LEMMA KnownQuiet ==
  ASSUME KnownInv, RefType', resolver' = resolver,
         \A what \in {"ack", "docs"} : \A x : Links!Settled(what, x)' => Links!Settled(what, x),
         \A d \in Clients : Links!Checking(d)' => Links!Checking(d) /\ asked'[d].resolver = asked[d].resolver
  PROVE  KnownInv'
  BY DEF KnownInv, Remembers, Carries

(* Other operations leave a check with the references it has read. *)
LEMMA KnownByOthers ==
  ASSUME RefType, RefType', NEW d \in Clients,
         \/ asked'[d] = asked[d]
         \/ asked'[d] = [asked[d] EXCEPT !.alone = asked'[d].alone]
  PROVE  Links!Checking(d)' => Links!Checking(d) /\ asked'[d].resolver = asked[d].resolver
  <1>1. asked[d] \in Operation /\ asked'[d] \in Operation
    BY DEF RefType, OpType
  <1> QED BY <1>1 DEF Operation, Links!Checking

(* linkTracker and unlink leave the documents alone. *)
LEMMA LinksKnow ==
  ASSUME KnownInv, NEW c \in Clients, RefType', resolver' = resolver,
         \A what \in {"ack", "docs"} : \A x : Links!Settled(what, x)' => Links!Settled(what, x),
         asked'[c].kind # "check",
         \A d \in Clients \ {c} :
           \/ asked'[d] = asked[d]
           \/ JoinedBy(d)
  PROVE  KnownInv'
  <1> USE DEF JoinedBy
  <1>1. \A d \in Clients : Links!Checking(d)' => Links!Checking(d) /\ asked'[d].resolver = asked[d].resolver
    BY KnownByOthers DEF KnownInv, Links!Checking
  <1> QED BY <1>1, KnownQuiet

(* Links and stale checks: a check writes back what it has read, which is  *)
(* what was settled.                                                       *)
LEMMA LinkNextKnows ==
  ASSUME KnownInv, Links!LinkNext
  PROVE  KnownInv'
  <1> USE DEF JoinedBy
  <1> USE DEF KnownInv
  <1>1. ASSUME NEW c \in Clients, NEW e \in Entities, Links!LinkTracker(c, e) PROVE KnownInv'
    <2>1. /\ asked'[c] = [LinkOperation(e) EXCEPT !.alone = asked'[c].alone] /\ RefType'
          /\ \A d \in Clients \ {c} : JoinedBy(d)
      BY <1>1, LinkTrackerType
    <2>2. asked'[c].kind # "check"
      BY <2>1, Operations DEF Operation
    <2>3. resolver' = resolver /\ settled' \subseteq settled
      BY <1>1 DEF Links!LinkTracker, Links!Forget
    <2> QED BY <2>1, <2>2, <2>3, LinksKnow DEF Links!Settled
  <1>2. ASSUME NEW c \in Clients, NEW e \in Entities, Links!UnlinkTracker(c, e) PROVE KnownInv'
    <2>1. /\ asked'[c] = [UnlinkOperation(e) EXCEPT !.alone = asked'[c].alone] /\ RefType'
          /\ \A d \in Clients \ {c} : JoinedBy(d)
      BY <1>2, UnlinkTrackerType
    <2>2. asked'[c].kind # "check"
      BY <2>1, Operations DEF Operation
    <2>3. resolver' = resolver /\ settled' \subseteq settled
      BY <1>2 DEF Links!UnlinkTracker, Links!Forget
    <2> QED BY <2>1, <2>2, <2>3, LinksKnow DEF Links!Settled
  <1>3. ASSUME NEW c \in Clients, Onward(c, Links!Idle), RefType', resolver' = resolver,
               \A what \in {"ack", "docs"} : \A x : Links!Settled(what, x)' => Links!Settled(what, x)
        PROVE  KnownInv'
    <2>1. asked'[c].kind # "check"
      BY <1>3 DEF Onward, Links!Idle
    <2> QED BY <1>3, <2>1, LinksKnow DEF Onward
  <1>4. ASSUME NEW c \in Clients, Links!Unlinked(c) \/ Links!Linked(c) \/ Links!Fail(c) PROVE KnownInv'
    <2>1. RefType' /\ Onward(c, Links!Idle)
      BY <1>4, UnlinkedType, LinkedType, FailType
    <2>2. resolver' = resolver
      BY <1>4 DEF Links!Unlinked, Links!Linked, Links!Fail
    <2>3. \A what \in {"ack", "docs"} : \A x : Links!Settled(what, x)' => Links!Settled(what, x)
      BY <1>4 DEF Links!Unlinked, Links!Linked, Links!Fail, Links!Settled
    <2> QED BY <1>3, <2>1, <2>2, <2>3
  <1>5. ASSUME NEW c \in Clients, NEW x \in Operation, Onward(c, x), RefType', x.kind \in {"link", "unlink"},
               UNCHANGED <<resolver, settled>>
        PROVE  KnownInv'
    <2>1. asked'[c].kind # "check"
      BY <1>5 DEF Onward
    <2> QED BY <1>5, <2>1, LinksKnow DEF Onward, Links!Settled
  <1>6. ASSUME NEW c \in Clients,
               Links!SetEntityLink(c) \/ Links!ListLinks(c) \/ Links!FindLink(c) \/ Links!DeleteLink(c) \/ Links!ReadIndex(c) \/ Links!WriteIndex(c)
        PROVE  KnownInv'
    <2>1. UNCHANGED <<resolver, settled>>
      BY <1>6 DEF Links!SetEntityLink, Links!ListLinks, Links!FindLink, Links!DeleteLink,
        Links!ReadIndex, Links!WriteIndex
    <2>2. asked[c] \in Operation /\ Sound(asked[c], made)
      BY DEF RefType, OpType
    <2>3. asked[c].kind \in {"link", "unlink"}
      BY <1>6, <2>2 DEF Links!SetEntityLink, Links!ListLinks, Links!FindLink,
        Links!DeleteLink, Links!ReadIndex, Links!WriteIndex,
        Operation, Sound
    <2>4. RefType' /\ \E x : Onward(c, x) /\ asked'[c].kind = asked[c].kind
      <3>1. CASE Links!SetEntityLink(c)
        BY <2>2, <3>1, SetEntityLinkType DEF Onward, Operation
      <3>2. CASE Links!ListLinks(c)
        <4> DEFINE S == {l \in tables[Links!Local] : made[l] = asked[c].entity}
        <4>1. RefType' /\ Onward(c, [[asked[c] EXCEPT !.at = "next"] EXCEPT !.todo = S])
          BY <3>2, ListLinksType
        <4> HIDE DEF S
        <4> QED BY <2>2, <4>1 DEF Onward, Operation
      <3>3. CASE Links!FindLink(c)
        <4>1. PICK l \in asked[c].todo : RefType' /\ Onward(c, Found(asked[c], l))
          BY <3>3, FindLinkType
        <4> DEFINE where == IF l \in links THEN "readLocal" ELSE "last"
        <4>2. Onward(c, [[[asked[c] EXCEPT !.todo = asked[c].todo \ {l}] EXCEPT !.link = l] EXCEPT !.at = where])
          BY <4>1 DEF Found
        <4> HIDE DEF where
        <4> QED BY <2>2, <4>1, <4>2 DEF Onward, Operation
      <3>4. CASE Links!DeleteLink(c)
        BY <2>2, <3>4, DeleteLinkType DEF Onward, Operation
      <3>5. CASE Links!ReadIndex(c)
        BY <2>2, <3>5, ReadIndexType DEF Onward, Operation
      <3>6. CASE Links!WriteIndex(c)
        BY <2>2, <3>6, WriteIndexType DEF Onward, Operation
      <3> QED BY <1>6, <3>1, <3>2, <3>3, <3>4, <3>5, <3>6
    <2>5. asked'[c] \in Operation /\ Onward(c, asked'[c])
      BY <2>4 DEF Onward
    <2> QED BY <1>5, <2>1, <2>3, <2>4, <2>5
  <1> QED BY <1>1, <1>2, <1>4, <1>6 DEF Links!LinkNext

(* The documents: what is settled now no check in flight has missed. *)
LEMMA ReadNextKnows ==
  ASSUME KnownInv, Links!ReadNext
  PROVE  KnownInv'
  <1> USE DEF JoinedBy
  <1> USE DEF KnownInv
  <1>1. ASSUME NEW c \in Clients, Links!StaleCheck(c) PROVE KnownInv'
    <2>1. /\ asked'[c] = [CheckOperation EXCEPT !.alone = asked'[c].alone] /\ RefType'
          /\ \A d \in Clients \ {c} : JoinedBy(d)
      BY <1>1, StaleCheckType
    <2>2. asked'[c].resolver = resolver
      BY <2>1, CheckOperations DEF Operation
    <2>3. UNCHANGED <<resolver, settled>>
      BY <1>1 DEF Links!StaleCheck
    <2>4. \A d \in Clients \ {c} : Links!Checking(d)' => Links!Checking(d) /\ asked'[d].resolver = asked[d].resolver
      BY <2>1, KnownByOthers
    <2> QED BY <2>1, <2>2, <2>3, <2>4 DEF Remembers, Carries, Links!Settled
  <1>2. ASSUME NEW c \in Clients, Links!GetVersion(c) PROVE KnownInv'
    <2>1. /\ RefType' /\ asked[c].kind = "check"
          /\ Onward(c, [[asked[c] EXCEPT !.at = "check"] EXCEPT !.version = doc])
      BY <1>2, GetVersionType
    <2>2. asked'[c].resolver = asked[c].resolver
      BY <2>1 DEF Onward, Operation, RefType, OpType
    <2>3. UNCHANGED <<resolver, settled>>
      BY <1>2 DEF Links!GetVersion
    <2>4. \A d \in Clients : Links!Checking(d)' => Links!Checking(d) /\ asked'[d].resolver = asked[d].resolver
      BY <2>1, <2>2, KnownByOthers DEF Onward, Links!Checking
    <2> QED BY <2>1, <2>3, <2>4, KnownQuiet DEF Links!Settled
  <1>3. ASSUME NEW c \in Clients, Links!Fail(c) PROVE KnownInv'
    BY <1>3, LinkNextKnows DEF Links!LinkNext
  <1>4. ASSUME NEW c \in Clients, Links!Checked(c) PROVE KnownInv'
    <2>1. RefType' /\ Onward(c, Links!Idle) /\ settled' = settled
      BY <1>4, CheckedType DEF Links!Checked
    <2>2. asked[c] \in Operation /\ Sound(asked[c], made) /\ asked[c].at = "check" /\ resolver \in Resolver
      BY <1>4 DEF Links!Checked, RefType, OpType, StoreType
    <2>3. Links!Checking(c)
      BY <2>2 DEF Operation, Sound, LinkPlaces, UnlinkPlaces, Links!Checking
    <2> DEFINE u == [asked[c].resolver EXCEPT !.stale = "stale"]
    <2>4. u \in Resolver /\ u.acks = asked[c].resolver.acks /\ u.docs = asked[c].resolver.docs
      BY <2>2 DEF Operation, Resolver
    <2> HIDE DEF u
    <2>5. Remembers(Links!Updated(resolver, u))
      BY <2>3, <2>4 DEF Links!Updated, Remembers, Carries
    <2>6. resolver' = resolver \/ resolver' = Links!Updated(resolver, u)
      BY <1>4 DEF Links!Checked, u
    <2>7. Remembers(resolver)'
      BY <2>1, <2>5, <2>6 DEF Remembers, Carries, Links!Settled
    <2>8. ASSUME NEW d \in Clients, Links!Checking(d)' PROVE Links!Checking(d) /\ asked'[d] = asked[d]
      BY <2>1, <2>8 DEF Onward, Links!Checking, Links!Idle
    <2> QED BY <2>1, <2>7, <2>8 DEF Remembers, Carries, Links!Settled
  <1>5. ASSUME NEW v \in 1..MaxDocVersion, Links!ResolveDocs(v) PROVE KnownInv'
    <2>1. RefType' /\ asked' = asked
      BY <1>5, DocumentsType
    <2>2. v \in Nat /\ v # 0 /\ resolver \in Resolver
      BY LinksAssumption DEF RefType, StoreType
    <2>3. resolver'.docs = v /\ resolver'.acks = resolver.acks
      BY <1>5, <2>2 DEF Links!ResolveDocs, Links!Updated
    <2>4. /\ \A w : Links!Settled("ack", w)' => Links!Settled("ack", w)
          /\ \A w \in 1..MaxDocVersion : Links!Settled("docs", w)' => w = v /\ Links!NobodyChecks
      BY <1>5 DEF Links!ResolveDocs, Links!Forget, Links!Settled
    <2> QED BY <2>1, <2>3, <2>4 DEF Remembers, Carries, Links!NobodyChecks, Links!Checking
  <1>6. ASSUME NEW v \in 1..MaxDocVersion, Links!AckDocs(v) PROVE KnownInv'
    <2>1. RefType' /\ asked' = asked
      BY <1>6, DocumentsType
    <2>2. v \in Nat /\ resolver \in Resolver /\ resolver.acks \in Seq(Nat)
      BY LinksAssumption DEF RefType, StoreType, Resolver
    <2> DEFINE acks == IF \E i \in DOMAIN resolver.acks : resolver.acks[i] = v THEN resolver.acks
                       ELSE Append(resolver.acks, v)
    <2>3. /\ acks \in Seq(Nat) /\ \E i \in DOMAIN acks : acks[i] = v
          /\ \A i \in DOMAIN resolver.acks : i \in DOMAIN acks /\ acks[i] = resolver.acks[i]
      <3>1. CASE \E i \in DOMAIN resolver.acks : resolver.acks[i] = v
        BY <2>2, <3>1
      <3>2. CASE ~\E i \in DOMAIN resolver.acks : resolver.acks[i] = v
        <4>1. acks = Append(resolver.acks, v)
          BY <3>2
        <4>2. Len(resolver.acks) + 1 \in DOMAIN Append(resolver.acks, v)
              /\ Append(resolver.acks, v)[Len(resolver.acks) + 1] = v
          BY <2>2
        <4> QED BY <2>2, <4>1, <4>2
      <3> QED BY <3>1, <3>2
    <2>4. resolver' = [resolver EXCEPT !.acks = acks]
      BY <1>6, <2>2 DEF Links!AckDocs
    <2> HIDE DEF acks
    <2>5. resolver'.acks = acks /\ resolver'.docs = resolver.docs
      BY <2>2, <2>4 DEF Resolver
    <2>6. /\ \A w : Links!Settled("docs", w)' => Links!Settled("docs", w)
          /\ \A w : Links!Settled("ack", w)' => Links!Settled("ack", w) \/ (w = v /\ Links!NobodyChecks)
      BY <1>6 DEF Links!AckDocs, Links!Settled
    <2> QED BY <2>1, <2>3, <2>5, <2>6 DEF Remembers, Carries, Links!NobodyChecks, Links!Checking
  <1>7. ASSUME NEW v \in 0..MaxDocVersion, Links!Publish(v) PROVE KnownInv'
    <2>1. RefType' /\ UNCHANGED <<asked, resolver, settled>>
      BY <1>7, DocumentsType DEF Links!Publish
    <2> QED BY <2>1, KnownQuiet DEF Links!Checking, Links!Settled
  <1> QED BY <1>1, <1>2, <1>3, <1>4, <1>5, <1>6, <1>7 DEF Links!ReadNext

(* Each step on links or documents. *)
LEMMA KnownStep ==
  ASSUME KnownInv, [Links!Next]_Links!vars
  PROVE  KnownInv'
  <1>1. CASE UNCHANGED Links!vars
    BY <1>1 DEF Links!vars, Links!storing, KnownInv, RefType, OpType, StoreType,
      Links!Settled, Links!Ids, Remembers, Carries, Links!Checking
  <1> QED BY <1>1, LinkNextKnows, ReadNextKnows DEF Links!Next

(* Nothing is settled and nobody checks yet. *)
LEMMA KnownInitially == Links!Init => KnownInv
  <1> SUFFICES ASSUME Links!Init PROVE KnownInv
    OBVIOUS
  <1>1. RefType
    BY LinkInitially DEF LinkInv
  <1>2. settled = {} /\ \A c \in Clients : asked[c].kind = "idle"
    BY DEF Links!Init, Links!Idle
  <1> QED BY <1>1, <1>2 DEF KnownInv, Remembers, Links!Checking, Links!Settled

(***************************************************************************)
(* The components together: a behaviour of Services is a behaviour of      *)
(* each of them, which explores that one or leaves it alone.               *)
(***************************************************************************)
(* The pool and the records are proved in modules of their own, about      *)
(* instances of their own: Services has the same of both.                  *)
PoolProofs == INSTANCE SessionPool_proofs
RecordProofs == INSTANCE TaskRecords_proofs WITH Items <- Attachments, MaxOps <- MaxRecordOps
RuntimeProofs == INSTANCE WorkerRuntime_proofs

(* The pool of Services and the one the proofs are about. *)
LEMMA SamePool ==
  /\ Pool!Init <=> PoolProofs!Init
  /\ Pool!Next <=> PoolProofs!Next
  /\ InTimeJobsAreAlone <=> PoolProofs!InTimeJobsAreAlone
  /\ PooledSessionsAreFree <=> PoolProofs!PooledSessionsAreFree
  <1>1. Pool!Init <=> PoolProofs!Init
    BY DEF Pool!Init, PoolProofs!Init
  <1>2. Pool!Next <=> PoolProofs!Next
    BY DEF PoolProofs!Next, Pool!Next, PoolProofs!ProcessOrphans, Pool!ProcessOrphans,
      PoolProofs!Orphaned, Pool!Orphaned, PoolProofs!Reuse, Pool!Reuse,
      PoolProofs!AskServer, Pool!AskServer, PoolProofs!ServerAnswers, Pool!ServerAnswers,
      PoolProofs!RunEnds, Pool!RunEnds, PoolProofs!SetupFails, Pool!SetupFails,
      PoolProofs!Collected, Pool!Collected, PoolProofs!Cancel, Pool!Cancel,
      PoolProofs!Cancelled, Pool!Cancelled, PoolProofs!Poll, Pool!Poll,
      PoolProofs!LeaseRunsOut, Pool!LeaseRunsOut, PoolProofs!Expire, Pool!Expire,
      PoolProofs!Drain, Pool!Drain, PoolProofs!Eligible, Pool!Eligible,
      PoolProofs!Healthy, Pool!Healthy, PoolProofs!Cleared, Pool!Cleared,
      PoolProofs!Leased, Pool!Leased, PoolProofs!Changed, Pool!Changed,
      PoolProofs!Created, Pool!Created, PoolProofs!Released, Pool!Released,
      PoolProofs!Dead, Pool!Dead, PoolProofs!Poolable, Pool!Poolable,
      PoolProofs!Failed, Pool!Failed
  <1>3. InTimeJobsAreAlone <=> PoolProofs!InTimeJobsAreAlone
    BY DEF InTimeJobsAreAlone, Pool!InTimeJobsAreAlone, PoolProofs!InTimeJobsAreAlone
  <1>4. PooledSessionsAreFree <=> PoolProofs!PooledSessionsAreFree
    BY DEF PooledSessionsAreFree, Pool!PooledSessionsAreFree, PoolProofs!PooledSessionsAreFree,
      PoolProofs!Healthy, Pool!Healthy
  <1> QED BY <1>1, <1>2, <1>3, <1>4

(* The records of Services and those the proofs are about. *)
LEMMA SameRecords ==
  /\ Records!Init <=> RecordProofs!Init
  /\ Records!Next <=> RecordProofs!Next
  /\ RecordsAreKept <=> RecordProofs!RecordsAreKept
  <1> USE DEF Records!Idle, RecordProofs!Idle, Records!Statuses, RecordProofs!Statuses,
      Records!ValidTransitions, RecordProofs!ValidTransitions, Records!Exists, RecordProofs!Exists
  <1>1. Records!Init <=> RecordProofs!Init
    BY DEF Records!Init, RecordProofs!Init
  <1>2. Records!Next <=> RecordProofs!Next
    BY DEF Records!Next, RecordProofs!Next, Records!Doing, RecordProofs!Doing,
      Records!At, RecordProofs!At, Records!Finish, RecordProofs!Finish,
      Records!Begin, RecordProofs!Begin, Records!Fail, RecordProofs!Fail,
      Records!IsValidTransition, RecordProofs!IsValidTransition,
      Records!Propose, RecordProofs!Propose, Records!Proposed, RecordProofs!Proposed,
      Records!Transition, RecordProofs!Transition,
      Records!AddTransition, RecordProofs!AddTransition,
      Records!UpdateTask, RecordProofs!UpdateTask, Records!WriteTask, RecordProofs!WriteTask,
      Records!CreateItem, RecordProofs!CreateItem, Records!StoreItem, RecordProofs!StoreItem,
      Records!ResolveItem, RecordProofs!ResolveItem, Records!WriteItem, RecordProofs!WriteItem,
      Records!DeleteTask, RecordProofs!DeleteTask, Records!Deleted, RecordProofs!Deleted,
      Records!DeleteItems, RecordProofs!DeleteItems
  <1>3. RecordsAreKept <=> RecordProofs!RecordsAreKept
    BY DEF RecordsAreKept, Records!RecordsAreKept, RecordProofs!RecordsAreKept,
      Records!StatusIsRecorded, RecordProofs!StatusIsRecorded,
      Records!DeletedLeavesNothing, RecordProofs!DeletedLeavesNothing
  <1> QED BY <1>1, <1>2, <1>3

(* The runtime of Services and the one the proofs are about. *)
LEMMA SameRuntime ==
  /\ Runtime!Init <=> RuntimeProofs!Init
  /\ Runtime!Next <=> RuntimeProofs!Next
  /\ SessionIsOrderly <=> RuntimeProofs!SessionIsOrderly
  <1> USE DEF Runtime!Idle, RuntimeProofs!Idle, Runtime!Other, RuntimeProofs!Other,
      Runtime!Ended, RuntimeProofs!Ended, Runtime!Known, RuntimeProofs!Known,
      Runtime!session, RuntimeProofs!session, Runtime!registry, RuntimeProofs!registry
  <1>1. Runtime!Init <=> RuntimeProofs!Init
    BY DEF Runtime!Init, RuntimeProofs!Init
  <1>2. Runtime!OwnerNext <=> RuntimeProofs!OwnerNext
    BY DEF Runtime!OwnerNext, RuntimeProofs!OwnerNext, Runtime!Start, RuntimeProofs!Start,
      Runtime!AdmitInput, RuntimeProofs!AdmitInput,
      Runtime!PromoteAdmittedInputs, RuntimeProofs!PromoteAdmittedInputs,
      Runtime!Allowed, RuntimeProofs!Allowed, Runtime!Sent, RuntimeProofs!Sent,
      Runtime!Send, RuntimeProofs!Send, Runtime!End, RuntimeProofs!End,
      Runtime!Register, RuntimeProofs!Register,
      Runtime!CloseRegistration, RuntimeProofs!CloseRegistration
  <1>3. Runtime!BridgeNext <=> RuntimeProofs!BridgeNext
    BY DEF Runtime!BridgeNext, RuntimeProofs!BridgeNext,
      Runtime!BridgeStart, RuntimeProofs!BridgeStart, Runtime!Submitted, RuntimeProofs!Submitted,
      Runtime!Ask, RuntimeProofs!Ask, Runtime!PollWithoutJob, RuntimeProofs!PollWithoutJob,
      Runtime!InterruptWithoutJob, RuntimeProofs!InterruptWithoutJob,
      Runtime!AdapterAnswers, RuntimeProofs!AdapterAnswers,
      Runtime!JobEnds, RuntimeProofs!JobEnds, Runtime!Outcome, RuntimeProofs!Outcome,
      Runtime!Polled, RuntimeProofs!Polled, Runtime!Sent, RuntimeProofs!Sent,
      Runtime!Allowed, RuntimeProofs!Allowed, Runtime!Interrupted, RuntimeProofs!Interrupted
  <1>4. SessionIsOrderly <=> RuntimeProofs!SessionIsOrderly
    BY DEF SessionIsOrderly, Runtime!SessionIsOrderly, RuntimeProofs!SessionIsOrderly,
      Runtime!InputsArriveOnce, RuntimeProofs!InputsArriveOnce,
      Runtime!QueueIsFifo, RuntimeProofs!QueueIsFifo,
      Runtime!LimitsAreKept, RuntimeProofs!LimitsAreKept,
      Runtime!CompletedJobSucceeded, RuntimeProofs!CompletedJobSucceeded
  <1> QED BY <1>1, <1>2, <1>3, <1>4 DEF Runtime!Next, RuntimeProofs!Next

(* OpenCodeSessionRegistry and SessionExecutor: of any number of jobs two  *)
(* that work within their leases never share a session, whatever late jobs *)
(* release, cancel or bury.                                                *)
THEOREM JobsShareNoSession == AllSpec => []InTimeJobsAreAlone
  <1>1. AllInit => PoolProofs!Init
    BY SamePool DEF AllInit
  <1>2. [AllNext]_all => [PoolProofs!Next]_PoolProofs!vars
    BY SamePool DEF AllNext, all, pooling, PoolProofs!vars
  <1>3. PoolProofs!Spec => []PoolProofs!InTimeJobsAreAlone
    BY PoolProofs!InTimeAlone, NoneIsNoWorker
  <1> QED BY <1>1, <1>2, <1>3, SamePool, PTL DEF AllSpec, PoolProofs!Spec

(* OpenCodeSessionRegistry: what waits in the warm pool is leased to       *)
(* nobody, healthy and not dead, whoever released it.                      *)
THEOREM PoolHoldsFreeSessions == AllSpec => []PooledSessionsAreFree
  <1>1. AllInit => PoolProofs!Init
    BY SamePool DEF AllInit
  <1>2. [AllNext]_all => [PoolProofs!Next]_PoolProofs!vars
    BY SamePool DEF AllNext, all, pooling, PoolProofs!vars
  <1>3. PoolProofs!Spec => []PoolProofs!PooledSessionsAreFree
    BY PoolProofs!PooledFree, NoneIsNoWorker
  <1> QED BY <1>1, <1>2, <1>3, SamePool, PTL DEF AllSpec, PoolProofs!Spec

(* agent-taskstate-js: the history of a task knows its status, and what a  *)
(* deletion leaves is nothing, as far as RecordsAreKept promises it.       *)
THEOREM HistoryIsKept == AllSpec => []RecordsAreKept
  <1>1. AllInit => RecordProofs!Init
    BY SameRecords DEF AllInit
  <1>2. [AllNext]_all => [RecordProofs!Next]_RecordProofs!vars
    BY SameRecords DEF AllNext, all, recording, RecordProofs!vars
  <1>3. RecordProofs!Spec => []RecordProofs!RecordsAreKept
    BY RecordProofs!RecordsKept
  <1> QED BY <1>1, <1>2, <1>3, SameRecords, PTL DEF AllSpec, RecordProofs!Spec

(* EventIngestor: every permission a session asked for is in the result,   *)
(* as it was asked for, once its transcript was heard.                     *)
THEOREM RequestsAreNeverDropped == AllSpec => []NoRequestIsDropped
  <1>1. AllInit => HeardInv
    BY DEF AllInit, Events!Init, HeardInv
  <1>2. [AllNext]_all => [Events!Next]_Events!vars
    BY DEF AllNext, all, hearing, Events!vars
  <1>3. HeardInv => NoRequestIsDropped
    BY RequestsAreReported DEF NoRequestIsDropped
  <1> QED BY <1>1, <1>2, <1>3, HeardStep, PTL DEF AllSpec

(* tracker-bridge-js and the facade: a link, or an unlinking, that met no  *)
(* other stays as it was made, whatever reads before it and writes after   *)
(* it, and wherever requests fail, until it is undone.                     *)
THEOREM LinksStay == AllSpec => []LinksAreKept
  <1>1. AllInit => LinkInv
    BY LinkInitially DEF AllInit
  <1>2. [AllNext]_all => [Links!Next]_Links!vars
    BY DEF AllNext, all, referring, Links!vars, Links!storing, Links!Next
  <1>3. LinkInv => LinksAreKept
    BY DEF LinkInv, LinksAreKept
  <1> QED BY <1>1, <1>2, <1>3, LinkStep, PTL DEF AllSpec

(* The facade and memx-resolver-js: what was acknowledged or resolved      *)
(* while no check was in flight is not undone by checks that answer late.  *)
THEOREM AcknowledgementsStay == AllSpec => []AcknowledgedIsKnown
  <1>1. AllInit => KnownInv
    BY KnownInitially DEF AllInit
  <1>2. [AllNext]_all => [Links!Next]_Links!vars
    BY DEF AllNext, all, referring, Links!vars, Links!storing, Links!Next
  <1>3. KnownInv => AcknowledgedIsKnown
    BY KnownIsAcknowledged DEF AcknowledgedIsKnown
  <1> QED BY <1>1, <1>2, <1>3, KnownStep, PTL DEF AllSpec

(* InMemoryWorkerRuntimeSession and WorkerRuntimeAdapterBridge: a promoted *)
(* input is one turn, the queue is first in, first out, what is sent stays *)
(* within the policy, and only a job that succeeded completes its session. *)
THEOREM SessionsAreOrderly == AllSpec => []SessionIsOrderly
  <1>1. AllInit => RuntimeProofs!Init
    BY SameRuntime DEF AllInit
  <1>2. [AllNext]_all => [RuntimeProofs!Next]_RuntimeProofs!vars
    BY SameRuntime DEF AllNext, all, running, RuntimeProofs!vars,
      RuntimeProofs!session, RuntimeProofs!registry
  <1>3. RuntimeProofs!Spec => []RuntimeProofs!SessionIsOrderly
    BY RuntimeProofs!SessionsOrderly, RuntimeAssumption DEF Runtime!Other, RuntimeProofs!Other
  <1> QED BY <1>1, <1>2, <1>3, SameRuntime, PTL DEF AllSpec, RuntimeProofs!Spec
=============================================================================
