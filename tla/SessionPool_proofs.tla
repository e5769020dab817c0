-------------------------- MODULE SessionPool_proofs --------------------------
(***************************************************************************)
(* The two promises of SessionPool, for any sessions, jobs and kinds of    *)
(* jobs.  A job that works in time has its session leased, unless the      *)
(* registry has forgotten it (Held); a session that is leased in time is   *)
(* not eligible, and a forgotten id is not handed out again (Known), so    *)
(* nobody else comes to work in it.                                        *)
(***************************************************************************)
EXTENDS SessionPool, TLAPS

Free(r) ==
  r.pooled => r.leasedBy = None /\ Healthy(r) /\ r.state \in {"idle", "ready", "draining"}

Record ==
  [kind : {Kind[w] : w \in Workers}, state : {"ready", "idle", "active", "dead", "draining"},
   leasedBy : Workers \union {None}, late : BOOLEAN, errors : Nat, pooled : BOOLEAN]

Session == {r \in Record : Free(r)}

Run ==
  [at : {"new", "creating", "running", "collecting", "succeeded", "failed", "cancelling", "over"},
   session : Sessions \union {None}, ok : BOOLEAN, intime : BOOLEAN]

Placed ==
  \A j \in Workers :
    run[j].at \in {"running", "collecting", "succeeded", "cancelling"} \/ run[j].intime
      => run[j].session \in Sessions

TypeOK ==
  /\ sessions \in [Sessions -> Session \union {None}]
  /\ born \in SUBSET Sessions
  /\ run \in [Workers -> Run]
  /\ Placed

Known == \A s \in Sessions : sessions[s] # None => s \in born

Held ==
  \A j \in Workers : run[j].intime =>
    /\ run[j].session \in born
    /\ sessions[run[j].session] # None =>
         sessions[run[j].session].leasedBy = j /\ ~sessions[run[j].session].late

SessionsInv == TypeOK /\ Known /\ Held /\ InTimeJobsAreAlone

-----------------------------------------------------------------------------
(* What the helpers of the registry return: records, whose lease and place *)
(* in the pool are as their callers expect (leaseSession, releaseSession,  *)
(* markSessionDead).                                                       *)
LEMMA LeasedFacts ==
  ASSUME NEW r \in Session, NEW j \in Workers
  PROVE  Leased(r, j) \in Session /\ Leased(r, j).leasedBy = j /\ ~Leased(r, j).late
  BY DEF Leased, Session, Record, Free

(* createSessionRecord with its first lease. *)
LEMMA CreatedFacts ==
  ASSUME NEW j \in Workers
  PROVE  Created(j) \in Session /\ Created(j).leasedBy = j /\ ~Created(j).late
  BY DEF Created, Session, Record, Free

(* markSessionDead: the lease stays. *)
LEMMA DeadFacts ==
  ASSUME NEW r \in Session
  PROVE  Dead(r) \in Session /\ Dead(r).leasedBy = r.leasedBy /\ Dead(r).late = r.late
  <1> DEFINE buried == [r EXCEPT !.state = "dead", !.pooled = FALSE]
             errors == IF buried.errors > MaxErrors THEN buried.errors ELSE buried.errors + 1
  <1>1. buried \in Record /\ buried.leasedBy = r.leasedBy /\ buried.late = r.late /\ ~buried.pooled
    <2>1. r \in Record
      BY DEF Session
    <2> QED BY <2>1 DEF Record
  <1>2. errors \in Nat
    <2>1. buried.errors \in Nat
      BY <1>1 DEF Record
    <2> HIDE DEF buried
    <2> QED BY <2>1
  <1>3. Dead(r) = [buried EXCEPT !.errors = errors, !.pooled = @ /\ errors <= MaxErrors]
    BY DEF Dead, Failed
  <1>4. (buried.pooled /\ errors <= MaxErrors) = FALSE
    BY <1>1
  <1>5. Dead(r) = [buried EXCEPT !.errors = errors, !.pooled = FALSE]
    BY <1>3, <1>4
  <1> HIDE DEF buried, errors
  <1> QED BY <1>1, <1>2, <1>5 DEF Session, Record, Free

(* releaseSession: who has lost the lease changes nothing, who has it      *)
(* gives it up, and only a healthy session goes to the pool.               *)
LEMMA ReleasedFacts ==
  ASSUME None \notin Workers, NEW r \in Session, NEW j \in Workers, NEW young \in BOOLEAN
  PROVE  /\ Released(r, j, young) \in Session
         /\ r.leasedBy # j => Released(r, j, young) = r
  <1>1. CASE r.leasedBy # j
    BY <1>1 DEF Released
  <1>2. CASE r.leasedBy = j
    <2> DEFINE idle == [r EXCEPT !.leasedBy = None, !.late = FALSE, !.state = "idle"]
    <2>1. ~r.pooled
      BY <1>2 DEF Session, Free
    <2>2. /\ idle \in Record /\ ~idle.pooled
          /\ idle.leasedBy = None /\ idle.state = "idle" /\ idle.errors = r.errors
      <3>1. r \in Record
        BY DEF Session
      <3> QED BY <2>1, <3>1 DEF Record
    <2>3. Poolable(idle, young) \in BOOLEAN /\ (Poolable(idle, young) => Healthy(idle))
      BY DEF Poolable
    <2>4. Released(r, j, young) = [idle EXCEPT !.pooled = Poolable(idle, young)]
      <3>1. Released(r, j, young) = [idle EXCEPT !.pooled = idle.pooled \/ Poolable(idle, young)]
        BY <1>2 DEF Released
      <3>2. (idle.pooled \/ Poolable(idle, young)) = Poolable(idle, young)
        BY <2>2, <2>3
      <3> QED BY <3>1, <3>2
    <2> HIDE DEF idle
    <2> QED BY <2>2, <2>3, <2>4, <1>2 DEF Session, Record, Free, Healthy
  <1> QED BY <1>1, <1>2

(* A session whose lease ran out, cleared by findReusableSession or by the *)
(* scan for orphans, and one that is drained.                              *)
LEMMA ClearedFacts ==
  ASSUME NEW r \in Session, NEW state \in {"idle", "dead"}, r.leasedBy # None
  PROVE  [r EXCEPT !.leasedBy = None, !.late = FALSE, !.state = state] \in Session
  BY DEF Session, Record, Free

LEMMA DrainedFacts ==
  ASSUME NEW r \in Session
  PROVE  LET x == [r EXCEPT !.state = "draining"]
         IN  x \in Session /\ x.leasedBy = r.leasedBy /\ x.late = r.late
  BY DEF Session, Record, Free, Healthy

LEMMA LateFacts ==
  ASSUME NEW r \in Session
  PROVE  [r EXCEPT !.late = TRUE] \in Session
  BY DEF Session, Record, Free, Healthy

-----------------------------------------------------------------------------
(* A request changes one session.                                          *)
LEMMA OneSession ==
  ASSUME TypeOK, NEW s \in Sessions, NEW r \in Session \union {None}, Changed(s, r)
  PROVE  /\ sessions' \in [Sessions -> Session \union {None}]
         /\ sessions'[s] = r /\ \A x \in Sessions \ {s} : sessions'[x] = sessions[x]
  BY DEF TypeOK, Changed

(* The run of one job goes on, and a job that was not in time is not now.  *)
LEMMA OneRun ==
  ASSUME TypeOK, NEW j \in Workers, NEW x \in Run, run' = [run EXCEPT ![j] = x],
         x.at \in {"running", "collecting", "succeeded", "cancelling"} \/ x.intime => x.session \in Sessions
  PROVE  /\ run' \in [Workers -> Run] /\ Placed'
         /\ run'[j] = x /\ \A k \in Workers \ {j} : run'[k] = run[k]
  <1>1. /\ run' \in [Workers -> Run]
        /\ run'[j] = x /\ \A k \in Workers \ {j} : run'[k] = run[k]
    BY DEF TypeOK
  <1>2. Placed'
    BY <1>1 DEF TypeOK, Placed
  <1> QED BY <1>1, <1>2

(* Steps that bring nobody into a session, and leave the leases of those   *)
(* who are in one in time, keep the invariant.                             *)
LEMMA Quiet ==
  ASSUME SessionsInv, TypeOK', born' = born,
         \A k \in Workers : run'[k].intime => run[k].intime /\ run'[k].session = run[k].session,
         \A s \in Sessions : sessions'[s] # None => sessions[s] # None,
         \A k \in Workers, s \in Sessions :
           run'[k].intime /\ run[k].session = s /\ sessions'[s] # None =>
             sessions'[s].leasedBy = sessions[s].leasedBy /\ (sessions'[s].late => sessions[s].late)
  PROVE  SessionsInv'
  <1>1. Known'
    BY DEF SessionsInv, Known
  <1>2. Held'
    BY DEF SessionsInv, TypeOK, Held, Placed
  <1>3. InTimeJobsAreAlone'
    BY DEF SessionsInv, InTimeJobsAreAlone
  <1> QED BY <1>1, <1>2, <1>3 DEF SessionsInv

(* A job comes into a session nobody works in in time: invariant kept.     *)
LEMMA Enters ==
  ASSUME SessionsInv, TypeOK', NEW j \in Workers, NEW s \in Sessions,
         born' = born \union {s},
         run'[j].session = s, \A k \in Workers \ {j} : run'[k] = run[k],
         \A k \in Workers : run[k].intime => run[k].session # s,
         sessions'[s].leasedBy = j, ~sessions'[s].late,
         \A x \in Sessions \ {s} : sessions'[x] # None => sessions[x] # None,
         \A k \in Workers, x \in Sessions \ {s} :
           run[k].intime /\ run[k].session = x /\ sessions'[x] # None => sessions'[x] = sessions[x]
  PROVE  SessionsInv'
  <1>1. Known'
    BY DEF SessionsInv, Known
  <1>2. Held'
    BY DEF SessionsInv, TypeOK, Held, Placed
  <1>3. InTimeJobsAreAlone'
    BY DEF SessionsInv, InTimeJobsAreAlone
  <1> QED BY <1>1, <1>2, <1>3 DEF SessionsInv

-----------------------------------------------------------------------------
(* The search and the lease of execute: the session found is leased to     *)
(* nobody, or its lease has run out, so nobody works in it in time.        *)
LEMMA ReuseStep ==
  ASSUME None \notin Workers, SessionsInv, NEW j \in Workers, Reuse(j)
  PROVE  SessionsInv'
  <1>1. PICK s \in Sessions :
          /\ Eligible(sessions[s], Kind[j])
          /\ sessions' = [Cleared(Kind[j]) EXCEPT ![s] = Leased(@, j)]
          /\ run' = [run EXCEPT ![j] = [@ EXCEPT !.at = "running", !.session = s, !.intime = TRUE]]
    BY DEF Reuse
  <1>2. TypeOK /\ born' = born
    BY DEF SessionsInv, Reuse
  <1> DEFINE clear == Cleared(Kind[j])
  <1>3. \A x \in Sessions :
          \/ clear[x] = sessions[x]
          \/ /\ sessions[x] # None /\ sessions[x].leasedBy # None /\ sessions[x].late
             /\ clear[x] = [sessions[x] EXCEPT !.leasedBy = None, !.late = FALSE, !.state = "idle"]
    BY DEF Cleared, Eligible
  <1>4. clear \in [Sessions -> Session \union {None}]
    <2>1. ASSUME NEW x \in Sessions PROVE clear[x] \in Session \union {None}
      <3>1. CASE clear[x] = sessions[x]
        BY <1>2, <3>1 DEF TypeOK
      <3>2. CASE /\ sessions[x] # None /\ sessions[x].leasedBy # None
                 /\ clear[x] = [sessions[x] EXCEPT !.leasedBy = None, !.late = FALSE, !.state = "idle"]
        <4>1. sessions[x] \in Session
          BY <1>2, <3>2 DEF TypeOK
        <4> QED BY <3>2, <4>1, ClearedFacts
      <3> QED BY <1>3, <3>1, <3>2
    <2> QED BY <2>1 DEF Cleared
  <1>5. sessions[s] # None /\ clear[s] \in Session
    BY <1>1, <1>2, <1>3, ClearedFacts DEF Eligible, TypeOK
  <1> HIDE DEF clear
  <1>6. /\ sessions' \in [Sessions -> Session \union {None}]
        /\ sessions'[s] = Leased(clear[s], j)
        /\ \A x \in Sessions \ {s} : sessions'[x] = clear[x]
    BY <1>1, <1>4, <1>5, LeasedFacts DEF clear
  <1>7. /\ run' \in [Workers -> Run] /\ Placed'
        /\ run'[j].session = s /\ \A k \in Workers \ {j} : run'[k] = run[k]
    <2> DEFINE x == [run[j] EXCEPT !.at = "running", !.session = s, !.intime = TRUE]
    <2>1. x \in Run /\ x.session = s /\ run' = [run EXCEPT ![j] = x]
      BY <1>1, <1>2 DEF TypeOK, Run
    <2> HIDE DEF x
    <2> QED BY <1>2, <2>1, OneRun
  <1>8. TypeOK'
    BY <1>2, <1>6, <1>7 DEF TypeOK
  <1>9. \A k \in Workers : run[k].intime => run[k].session # s
    <2>1. sessions[s].leasedBy = None \/ sessions[s].late
      BY <1>1 DEF Eligible
    <2> QED BY <1>5, <2>1 DEF SessionsInv, Held
  <1>10. \A k \in Workers, x \in Sessions \ {s} :
           run[k].intime /\ run[k].session = x /\ sessions'[x] # None => sessions'[x] = sessions[x]
    <2>1. ASSUME NEW k \in Workers, NEW x \in Sessions \ {s}, run[k].intime, run[k].session = x
          PROVE  clear[x] = sessions[x]
      <3>1. sessions[x] = None \/ ~sessions[x].late
        BY <2>1 DEF SessionsInv, Held
      <3> QED BY <1>3, <3>1
    <2> QED BY <1>6, <2>1
  <1>11. born' = born \union {s}
    BY <1>2, <1>5 DEF SessionsInv, Known
  <1>12. \A x \in Sessions \ {s} : sessions'[x] # None => sessions[x] # None
    BY <1>3, <1>6
  <1>13. sessions'[s].leasedBy = j /\ ~sessions'[s].late
    BY <1>5, <1>6, LeasedFacts
  <1> QED BY <1>7, <1>8, <1>9, <1>10, <1>11, <1>12, <1>13, Enters

(* The server hands out an id it has not handed out before, so nobody      *)
(* works in that session.                                                  *)
LEMMA CreatedStep ==
  ASSUME SessionsInv, NEW j \in Workers, NEW s \in Sessions \ born,
         born' = born \union {s}, Changed(s, Created(j)),
         run' = [run EXCEPT ![j] = [@ EXCEPT !.at = "running", !.session = s, !.intime = TRUE]]
  PROVE  SessionsInv'
  <1>1. TypeOK
    BY DEF SessionsInv
  <1>2. /\ sessions' \in [Sessions -> Session \union {None}]
        /\ sessions'[s] = Created(j) /\ \A x \in Sessions \ {s} : sessions'[x] = sessions[x]
    BY <1>1, CreatedFacts, OneSession
  <1>3. /\ run' \in [Workers -> Run] /\ Placed'
        /\ run'[j].session = s /\ \A k \in Workers \ {j} : run'[k] = run[k]
    <2> DEFINE x == [run[j] EXCEPT !.at = "running", !.session = s, !.intime = TRUE]
    <2>1. x \in Run /\ x.session = s /\ run' = [run EXCEPT ![j] = x]
      BY <1>1 DEF TypeOK, Run
    <2> HIDE DEF x
    <2> QED BY <1>1, <2>1, OneRun
  <1>4. TypeOK'
    BY <1>1, <1>2, <1>3 DEF TypeOK
  <1>5. \A k \in Workers : run[k].intime => run[k].session # s
    BY DEF SessionsInv, Held
  <1> QED BY <1>2, <1>3, <1>4, <1>5, CreatedFacts, Enters

-----------------------------------------------------------------------------
(* A run that goes on to another place, in the session it has.             *)
LEMMA RunMoves ==
  ASSUME TypeOK, NEW j \in Workers,
         NEW at \in {"creating", "collecting", "succeeded", "failed", "cancelling", "over"},
         run' = [run EXCEPT ![j].at = at],
         at \in {"collecting", "succeeded", "cancelling"} => run[j].session \in Sessions
  PROVE  /\ run' \in [Workers -> Run] /\ Placed'
         /\ \A k \in Workers : run'[k].intime = run[k].intime /\ run'[k].session = run[k].session
  <1> DEFINE x == [run[j] EXCEPT !.at = at]
  <1>1. run[j] \in Run /\ run' = [run EXCEPT ![j] = x]
    BY DEF TypeOK
  <1>2. /\ x \in Run /\ x.at = at
        /\ x.intime = run[j].intime /\ x.session = run[j].session
    BY <1>1 DEF Run
  <1>3. x.intime => x.session \in Sessions
    BY <1>2 DEF TypeOK, Placed
  <1> HIDE DEF x
  <1> QED BY <1>1, <1>2, <1>3, OneRun

(* A run that ends, well or badly, is no longer in time.                   *)
LEMMA RunStops ==
  ASSUME TypeOK, NEW j \in Workers, NEW x \in Run, ~x.intime, x.session = run[j].session,
         x.at \in {"collecting", "failed"}, run[j].session \in Sessions,
         run' = [run EXCEPT ![j] = x]
  PROVE  /\ run' \in [Workers -> Run] /\ Placed' /\ ~run'[j].intime
         /\ \A k \in Workers \ {j} : run'[k] = run[k]
  BY OneRun

(* Only the place of a run changes: AskServer, the server's refusal,       *)
(* Cancel, Poll.                                                           *)
LEMMA PlaceStep ==
  ASSUME SessionsInv, NEW j \in Workers,
         NEW at \in {"creating", "failed", "cancelling", "over"},
         run' = [run EXCEPT ![j].at = at],
         at = "cancelling" => run[j].at = "succeeded",
         UNCHANGED <<sessions, born>>
  PROVE  SessionsInv'
  <1>1. TypeOK /\ (at = "cancelling" => run[j].session \in Sessions)
    BY DEF SessionsInv, TypeOK, Placed
  <1>2. /\ run' \in [Workers -> Run] /\ Placed'
        /\ \A k \in Workers : run'[k].intime = run[k].intime /\ run'[k].session = run[k].session
    BY <1>1, RunMoves
  <1>3. TypeOK'
    BY <1>1, <1>2 DEF TypeOK
  <1> QED BY <1>2, <1>3, Quiet

(* A run has ended and releases its session, which frees it only if the    *)
(* run has not lost it to another.                                         *)
LEMMA RunEndsStep ==
  ASSUME None \notin Workers, SessionsInv, NEW j \in Workers, RunEnds(j) \/ SetupFails(j)
  PROVE  SessionsInv'
  <1> DEFINE s == run[j].session
  <1>1. TypeOK /\ s \in Sessions /\ born' = born
    BY DEF RunEnds, SetupFails, SessionsInv, TypeOK, Placed
  <1>2. /\ run' \in [Workers -> Run] /\ Placed' /\ ~run'[j].intime
        /\ \A k \in Workers \ {j} : run'[k] = run[k]
    <2>1. CASE RunEnds(j)
      <3>1. PICK ok \in BOOLEAN :
              run' = [run EXCEPT ![j] = [@ EXCEPT !.at = "collecting", !.ok = ok, !.intime = FALSE]]
        BY <2>1 DEF RunEnds
      <3> DEFINE x == [run[j] EXCEPT !.at = "collecting", !.ok = ok, !.intime = FALSE]
      <3>2. x \in Run /\ ~x.intime /\ x.session = s /\ x.at = "collecting" /\ run' = [run EXCEPT ![j] = x]
        BY <1>1, <3>1 DEF TypeOK, Run
      <3> HIDE DEF x
      <3> QED BY <1>1, <3>2, RunStops
    <2>2. CASE SetupFails(j)
      <3> DEFINE x == [run[j] EXCEPT !.at = "failed", !.intime = FALSE]
      <3>1. x \in Run /\ ~x.intime /\ x.session = s /\ x.at = "failed" /\ run' = [run EXCEPT ![j] = x]
        BY <1>1, <2>2 DEF SetupFails, TypeOK, Run
      <3> HIDE DEF x
      <3> QED BY <1>1, <3>1, RunStops
    <2> QED BY <2>1, <2>2
  <1>3. CASE sessions' = sessions
    <2>1. TypeOK'
      BY <1>1, <1>2, <1>3 DEF TypeOK
    <2> QED BY <1>1, <1>2, <1>3, <2>1, Quiet
  <1>4. ASSUME sessions[s] # None, NEW young \in BOOLEAN, Changed(s, Released(sessions[s], j, young))
        PROVE  SessionsInv'
    <2>1. sessions[s] \in Session
      BY <1>1, <1>4 DEF TypeOK
    <2> DEFINE r == Released(sessions[s], j, young)
    <2>2. r \in Session /\ (sessions[s].leasedBy # j => r = sessions[s])
      BY <2>1, ReleasedFacts
    <2> HIDE DEF r
    <2>3. /\ sessions' \in [Sessions -> Session \union {None}]
          /\ sessions'[s] = r /\ \A x \in Sessions \ {s} : sessions'[x] = sessions[x]
      BY <1>1, <1>4, <2>2, OneSession DEF r
    <2>4. TypeOK'
      BY <1>1, <1>2, <2>3 DEF TypeOK
    <2>5. \A k \in Workers \ {j} : run[k].intime /\ run[k].session = s => sessions[s].leasedBy # j
      BY <1>4 DEF SessionsInv, Held
    <2>6. \A k \in Workers : run'[k].intime /\ run[k].session = s => sessions'[s] = sessions[s]
      BY <1>2, <2>2, <2>3, <2>5
    <2>7. \A k \in Workers : run'[k].intime => run[k].intime /\ run'[k].session = run[k].session
      BY <1>2
    <2>8. \A x \in Sessions : sessions'[x] # None => sessions[x] # None
      BY <1>4, <2>3
    <2> QED BY <1>1, <2>3, <2>4, <2>6, <2>7, <2>8, Quiet
  <1> QED BY <1>3, <1>4 DEF RunEnds, SetupFails

(* A failed or cancelled job has its session marked dead, whoever it is    *)
(* leased to now: the lease stays.                                         *)
LEMMA BuriedStep ==
  ASSUME SessionsInv, NEW j \in Workers, Collected(j) \/ Cancelled(j)
  PROVE  SessionsInv'
  <1> DEFINE s == run[j].session
  <1>1. TypeOK /\ s \in Sessions /\ born' = born
    BY DEF Collected, Cancelled, SessionsInv, TypeOK, Placed
  <1>2. PICK at \in {"succeeded", "failed", "over"} : run' = [run EXCEPT ![j].at = at]
    BY DEF Collected, Cancelled
  <1>3. /\ run' \in [Workers -> Run] /\ Placed'
        /\ \A k \in Workers : run'[k].intime = run[k].intime /\ run'[k].session = run[k].session
    BY <1>1, <1>2, RunMoves
  <1>4. CASE sessions' = sessions
    <2>1. TypeOK'
      BY <1>1, <1>3, <1>4 DEF TypeOK
    <2> QED BY <1>1, <1>3, <1>4, <2>1, Quiet
  <1>5. CASE sessions[s] # None /\ Changed(s, Dead(sessions[s]))
    <2>1. sessions[s] \in Session
      BY <1>1, <1>5 DEF TypeOK
    <2> DEFINE r == Dead(sessions[s])
    <2>2. r \in Session /\ r.leasedBy = sessions[s].leasedBy /\ r.late = sessions[s].late
      BY <2>1, DeadFacts
    <2> HIDE DEF r
    <2>3. /\ sessions' \in [Sessions -> Session \union {None}]
          /\ sessions'[s] = r /\ \A x \in Sessions \ {s} : sessions'[x] = sessions[x]
      BY <1>1, <1>5, <2>2, OneSession DEF r
    <2>4. TypeOK'
      BY <1>1, <1>3, <2>3 DEF TypeOK
    <2>5. \A x \in Sessions : sessions'[x] # None => sessions[x] # None
      BY <1>5, <2>3
    <2>6. \A x \in Sessions : sessions'[x].leasedBy = sessions[x].leasedBy /\ sessions'[x].late = sessions[x].late
      BY <2>2, <2>3
    <2> QED BY <1>1, <1>3, <2>4, <2>5, <2>6, Quiet
  <1> QED BY <1>4, <1>5 DEF Collected, Cancelled

(* The time of a lease is over, and with it that of the job that holds it. *)
LEMMA RunsOutStep ==
  ASSUME SessionsInv, NEW s \in Sessions, LeaseRunsOut(s)
  PROVE  SessionsInv'
  <1>1. TypeOK /\ born' = born /\ sessions[s] # None
    BY DEF SessionsInv, LeaseRunsOut
  <1> DEFINE r == [sessions[s] EXCEPT !.late = TRUE]
  <1>2. r \in Session
    BY <1>1, LateFacts DEF TypeOK
  <1>3. /\ sessions' \in [Sessions -> Session \union {None}]
        /\ sessions'[s] = r /\ \A x \in Sessions \ {s} : sessions'[x] = sessions[x]
    <2>1. Changed(s, r)
      BY DEF LeaseRunsOut
    <2> HIDE DEF r
    <2> QED BY <1>1, <1>2, <2>1, OneSession
  <1>4. \A k \in Workers : run'[k] = IF run[k].session = s /\ sessions[s].leasedBy = k
                                     THEN [run[k] EXCEPT !.intime = FALSE] ELSE run[k]
    BY DEF LeaseRunsOut
  <1>5. \A k \in Workers : /\ run'[k] \in Run
                           /\ run'[k].at = run[k].at /\ run'[k].session = run[k].session
                           /\ run'[k].intime => run[k].intime
    BY <1>1, <1>4 DEF TypeOK, Run
  <1>6. \A k \in Workers : run[k].intime /\ run[k].session = s => ~run'[k].intime
    <2>1. ASSUME NEW k \in Workers, run[k].intime, run[k].session = s PROVE ~run'[k].intime
      <3>1. sessions[s].leasedBy = k
        BY <1>1, <2>1 DEF SessionsInv, Held
      <3> QED BY <1>1, <1>4, <2>1, <3>1 DEF TypeOK, Run
    <2> QED BY <2>1
  <1>7. TypeOK'
    <2>1. run' \in [Workers -> Run]
      BY <1>5 DEF LeaseRunsOut
    <2>2. Placed'
      BY <1>1, <1>5 DEF TypeOK, Placed
    <2> QED BY <1>1, <1>3, <2>1, <2>2 DEF TypeOK
  <1>8. \A x \in Sessions : sessions'[x] # None => sessions[x] # None
    BY <1>1, <1>3
  <1> QED BY <1>1, <1>3, <1>5, <1>6, <1>7, <1>8, Quiet

(* processOrphans gives up leases whose time is over.                      *)
LEMMA OrphansStep ==
  ASSUME SessionsInv, ProcessOrphans
  PROVE  SessionsInv'
  <1>1. TypeOK /\ UNCHANGED <<born, run>>
    BY DEF SessionsInv, ProcessOrphans
  <1>2. \A x \in Sessions :
          \/ sessions'[x] = sessions[x]
          \/ /\ sessions[x] # None /\ sessions[x].leasedBy # None /\ sessions[x].late
             /\ sessions'[x] = [sessions[x] EXCEPT !.state = "dead", !.leasedBy = None, !.late = FALSE]
    BY DEF ProcessOrphans, Orphaned
  <1>3. ASSUME NEW x \in Sessions PROVE sessions'[x] \in Session \union {None}
    <2>1. CASE sessions'[x] = sessions[x]
      BY <1>1, <2>1 DEF TypeOK
    <2>2. CASE /\ sessions[x] # None /\ sessions[x].leasedBy # None
               /\ sessions'[x] = [sessions[x] EXCEPT !.state = "dead", !.leasedBy = None, !.late = FALSE]
      BY <1>1, <2>2 DEF TypeOK, Session, Record, Free
    <2> QED BY <1>2, <2>1, <2>2
  <1>4. TypeOK'
    <2>1. sessions' \in [Sessions -> Session \union {None}]
      BY <1>3 DEF ProcessOrphans
    <2>2. Placed'
      BY <1>1 DEF TypeOK, Placed
    <2> QED BY <1>1, <2>1, <2>2 DEF TypeOK
  <1>5. \A x \in Sessions : sessions'[x] # None => sessions[x] # None
    BY <1>2
  <1>6. ASSUME NEW k \in Workers, NEW x \in Sessions, run[k].intime, run[k].session = x
        PROVE  sessions'[x] = sessions[x]
    <2>1. sessions[x] = None \/ ~sessions[x].late
      BY <1>6 DEF SessionsInv, Held
    <2> QED BY <1>2, <2>1
  <1> QED BY <1>1, <1>4, <1>5, <1>6, Quiet

(* cleanup forgets a session, markSessionDraining takes it out of use; the *)
(* lease stays.                                                            *)
LEMMA RetiredStep ==
  ASSUME SessionsInv, NEW s \in Sessions, Expire(s) \/ Drain(s)
  PROVE  SessionsInv'
  <1>1. TypeOK /\ UNCHANGED <<born, run>> /\ sessions[s] # None
    BY DEF SessionsInv, Expire, Drain
  <1>2. sessions[s] \in Session
    BY <1>1 DEF TypeOK
  <1> DEFINE x == [sessions[s] EXCEPT !.state = "draining"]
  <1>3. x \in Session /\ x.leasedBy = sessions[s].leasedBy /\ x.late = sessions[s].late
    BY <1>2, DrainedFacts
  <1>4. Changed(s, None) \/ Changed(s, x)
    BY DEF Expire, Drain
  <1> HIDE DEF x
  <1>5. PICK r \in {None, x} : Changed(s, r)
    BY <1>4
  <1>6. /\ sessions' \in [Sessions -> Session \union {None}]
        /\ sessions'[s] = r /\ \A y \in Sessions \ {s} : sessions'[y] = sessions[y]
    BY <1>1, <1>3, <1>5, OneSession
  <1>7. TypeOK'
    <2>1. Placed'
      BY <1>1 DEF TypeOK, Placed
    <2> QED BY <1>1, <1>6, <2>1 DEF TypeOK
  <1>8. \A y \in Sessions : sessions'[y] # None =>
          /\ sessions[y] # None
          /\ sessions'[y].leasedBy = sessions[y].leasedBy /\ sessions'[y].late = sessions[y].late
    BY <1>1, <1>3, <1>5, <1>6
  <1> QED BY <1>1, <1>7, <1>8, Quiet

-----------------------------------------------------------------------------
(* The invariant of SessionPool: what is pooled is free and healthy (it is *)
(* part of the type of a session), who works in time holds the lease, and  *)
(* nobody shares a session in time.                                        *)
THEOREM SessionsInvariant ==
  ASSUME None \notin Workers
  PROVE  Spec => []SessionsInv
  <1>1. Init => SessionsInv
    <2> SUFFICES ASSUME Init PROVE SessionsInv
      OBVIOUS
    <2>1. \A j \in Workers : run[j].at = "new" /\ ~run[j].intime
      BY DEF Init
    <2>2. TypeOK
      BY <2>1 DEF Init, TypeOK, Placed, Run
    <2>3. Known /\ Held /\ InTimeJobsAreAlone
      BY <2>1 DEF Init, Known, Held, InTimeJobsAreAlone
    <2> QED BY <2>2, <2>3 DEF SessionsInv
  <1>2. SessionsInv /\ [Next]_vars => SessionsInv'
    <2> SUFFICES ASSUME SessionsInv, [Next]_vars PROVE SessionsInv'
      OBVIOUS
    <2>1. ASSUME NEW j \in Workers, Reuse(j) PROVE SessionsInv'
      BY <2>1, ReuseStep
    <2>2. ASSUME NEW j \in Workers, AskServer(j) PROVE SessionsInv'
      BY <2>2, PlaceStep DEF AskServer
    <2>3. ASSUME NEW j \in Workers, ServerAnswers(j) PROVE SessionsInv'
      BY <2>3, PlaceStep, CreatedStep DEF ServerAnswers
    <2>4. ASSUME NEW j \in Workers, RunEnds(j) \/ SetupFails(j) PROVE SessionsInv'
      BY <2>4, RunEndsStep
    <2>5. ASSUME NEW j \in Workers, Collected(j) \/ Cancelled(j) PROVE SessionsInv'
      BY <2>5, BuriedStep
    <2>6. ASSUME NEW j \in Workers, Cancel(j) PROVE SessionsInv'
      BY <2>6, PlaceStep DEF Cancel
    <2>7. ASSUME NEW j \in Workers, Poll(j) PROVE SessionsInv'
      BY <2>7, PlaceStep DEF Poll
    <2>8. ASSUME NEW s \in Sessions, LeaseRunsOut(s) PROVE SessionsInv'
      BY <2>8, RunsOutStep
    <2>9. ASSUME NEW s \in Sessions, Expire(s) \/ Drain(s) PROVE SessionsInv'
      BY <2>9, RetiredStep
    <2>10. ASSUME ProcessOrphans PROVE SessionsInv'
      BY <2>10, OrphansStep
    <2>11. CASE UNCHANGED vars
      BY <2>11 DEF vars, SessionsInv, TypeOK, Placed, Known, Held, InTimeJobsAreAlone
    <2> QED BY <2>1, <2>2, <2>3, <2>4, <2>5, <2>6, <2>7, <2>8, <2>9, <2>10, <2>11 DEF Next
  <1> QED BY <1>1, <1>2, PTL DEF Spec

(* For any sessions and jobs: two jobs that work within their leases never *)
(* share a session, whatever late jobs release, cancel or bury (execute).  *)
THEOREM InTimeAlone ==
  ASSUME None \notin Workers
  PROVE  Spec => []InTimeJobsAreAlone
  <1>1. SessionsInv => InTimeJobsAreAlone
    BY DEF SessionsInv
  <1> QED BY <1>1, SessionsInvariant, PTL

(* For any sessions and jobs: what waits in the warm pool is leased to     *)
(* nobody, healthy and not dead (releaseSession, leaseSession).            *)
THEOREM PooledFree ==
  ASSUME None \notin Workers
  PROVE  Spec => []PooledSessionsAreFree
  <1>1. SessionsInv => PooledSessionsAreFree
    <2> SUFFICES ASSUME SessionsInv, NEW s \in Sessions, sessions[s] # None, sessions[s].pooled
                 PROVE  /\ sessions[s].leasedBy = None /\ Healthy(sessions[s])
                        /\ sessions[s].state \in {"idle", "ready", "draining"}
      BY DEF PooledSessionsAreFree
    <2> QED BY DEF SessionsInv, TypeOK, Session, Free
  <1> QED BY <1>1, SessionsInvariant, PTL
=============================================================================
