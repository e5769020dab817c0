------------------------ MODULE WorkerRuntime_proofs ------------------------
(***************************************************************************)
(* A session of the bridge is completed only for a job that has succeeded, *)
(* for any clients and limits.  Polls and interruptions answer late and in *)
(* any order; what makes them harmless is that they speak of the session   *)
(* they began with: one that replaces it has nothing to fear from them,    *)
(* and for the rest a job that was submitted ends once, so an answer that  *)
(* says it has succeeded stays true for as long as it is on its way.       *)
(***************************************************************************)
EXTENDS WorkerRuntime, TLAPS

Request ==
  [kind : {"idle", "start", "poll", "interrupt"},
   answer : {"none", "running", "succeeded", "failed", "cancelled"}]

TypeOK ==
  /\ bridged \in BOOLEAN
  /\ job \in {"none", "refused", "running", "succeeded", "failed", "cancelled"}
  /\ asks \in [Clients -> Request]

(* The bridge stores its session when the adapter has answered about the   *)
(* job; sessions with an owner have no job.                                *)
StoredWithJob ==
  /\ bridged => (state = "none" <=> job = "none")
  /\ ~bridged => \A c \in Clients : asks[c].kind = "idle"

(* Who starts a session has nothing to hear of the job yet. *)
StartsUnanswered ==
  \A c \in Clients : asks[c].kind = "start" => bridged /\ asks[c].answer = "none"

(* Who polls or interrupts does so about a job the adapter has taken. *)
AskedOfJob ==
  \A c \in Clients : asks[c].kind \in {"poll", "interrupt"} => job \notin {"none", "refused"}

(* A success on its way is still one. *)
SuccessStands ==
  \A c \in Clients : asks[c].answer = "succeeded" => job = "succeeded"

RuntimeInv ==
  TypeOK /\ StoredWithJob /\ StartsUnanswered /\ AskedOfJob /\ SuccessStands /\ CompletedJobSucceeded

-----------------------------------------------------------------------------
(* One client's request goes on, the others' do not. *)
LEMMA OneRequest ==
  ASSUME TypeOK, NEW c \in Clients, NEW x \in Request, asks' = [asks EXCEPT ![c] = x]
  PROVE  asks' \in [Clients -> Request] /\ asks'[c] = x /\ \A d \in Clients \ {c} : asks'[d] = asks[d]
  BY DEF TypeOK

(* Nothing is asked: the request is over. *)
LEMMA IdleIsRequest == Idle \in Request
  BY DEF Idle, Request

(* Nobody has asked for anything yet. *)
LEMMA InitRuntime == Init => RuntimeInv
  BY IdleIsRequest DEF Init, RuntimeInv, TypeOK, StoredWithJob, StartsUnanswered, AskedOfJob,
     SuccessStands, CompletedJobSucceeded, Idle

(* The owner's calls have nothing to do with the adapter. *)
LEMMA OwnerStep ==
  ASSUME RuntimeInv, ~bridged, UNCHANGED <<bridged, job, asks>>
  PROVE  RuntimeInv'
  BY DEF RuntimeInv, TypeOK, StoredWithJob, StartsUnanswered, AskedOfJob, SuccessStands,
     CompletedJobSucceeded

(* None of them touches the bridge. *)
LEMMA OwnerNextIsOwner ==
  ASSUME OwnerNext
  PROVE  ~bridged /\ UNCHANGED <<bridged, job, asks>>
  <1>1. ASSUME NEW i \in Inputs, NEW d \in {"steer", "queue"}, AdmitInput(i, d)
        PROVE  ~bridged /\ UNCHANGED <<bridged, job, asks>>
    BY <1>1 DEF AdmitInput
  <1>2. ASSUME NEW requested, Send(requested)
        PROVE  ~bridged /\ UNCHANGED <<bridged, job, asks>>
    BY <1>2 DEF Send
  <1>3. ASSUME Start \/ Register
        PROVE  ~bridged /\ UNCHANGED <<bridged, job, asks>>
    BY <1>3 DEF Start, Register, session
  <1>4. ASSUME PromoteAdmittedInputs
        PROVE  ~bridged /\ UNCHANGED <<bridged, job, asks>>
    BY <1>4 DEF PromoteAdmittedInputs, registry
  <1>5. ASSUME NEW how \in Ended, End(how)
        PROVE  ~bridged /\ UNCHANGED <<bridged, job, asks>>
    BY <1>5 DEF End
  <1>6. ASSUME NEW r \in 1..MaxRegistrations, CloseRegistration(r)
        PROVE  ~bridged /\ UNCHANGED <<bridged, job, asks>>
    BY <1>6 DEF CloseRegistration
  <1> QED BY <1>1, <1>2, <1>3, <1>4, <1>5, <1>6 DEF OwnerNext

-----------------------------------------------------------------------------
(* start of the bridge: the job and its session are as before. *)
LEMMA BridgeStartStep ==
  ASSUME RuntimeInv, NEW c \in Clients, BridgeStart(c)
  PROVE  RuntimeInv'
  <1> DEFINE x == [kind |-> "start", answer |-> "none"]
  <1>1. x \in Request /\ x.kind = "start" /\ x.answer = "none"
    BY DEF Request
  <1>2. asks' = [asks EXCEPT ![c] = x] /\ UNCHANGED <<bridged, state, job>>
    BY DEF BridgeStart, session
  <1> HIDE DEF x
  <1>3. asks' \in [Clients -> Request] /\ asks'[c] = x /\ \A d \in Clients \ {c} : asks'[d] = asks[d]
    BY <1>1, <1>2, OneRequest DEF RuntimeInv
  <1>4. bridged
    BY DEF BridgeStart
  <1> QED BY <1>1, <1>2, <1>3, <1>4 DEF RuntimeInv, TypeOK, StoredWithJob, StartsUnanswered,
          AskedOfJob, SuccessStands, CompletedJobSucceeded

(* The adapter has taken the job or not; nobody but other starts waits for *)
(* the session that is stored.                                             *)
LEMMA SubmittedStep ==
  ASSUME RuntimeInv, NEW c \in Clients, NEW success \in BOOLEAN, Submitted(c, success)
  PROVE  RuntimeInv'
  <1>1. asks[c].kind = "start" /\ bridged' = bridged /\ state' \in {"running", "failed"}
        /\ asks' = [d \in Clients |-> IF d # c /\ asks[d].kind = "start" THEN asks[d] ELSE Idle]
        /\ job' = IF success THEN "running" ELSE IF job = "none" THEN "refused" ELSE job
    BY DEF Submitted
  <1>2. asks' \in [Clients -> Request]
    BY <1>1, IdleIsRequest DEF RuntimeInv, TypeOK
  <1>3. \A d \in Clients : /\ asks'[d].kind \in {"idle", "start"}
                           /\ asks'[d].answer = "none"
    <2> SUFFICES ASSUME NEW d \in Clients
                 PROVE  asks'[d].kind \in {"idle", "start"} /\ asks'[d].answer = "none"
      OBVIOUS
    <2>1. asks'[d] = IF d # c /\ asks[d].kind = "start" THEN asks[d] ELSE Idle
      BY <1>1
    <2> QED BY <2>1 DEF Idle, RuntimeInv, StartsUnanswered
  <1>4. bridged
    BY <1>1 DEF RuntimeInv, StartsUnanswered
  <1>5. job' \in {"refused", "running", "succeeded", "failed", "cancelled"}
    BY <1>1 DEF RuntimeInv, TypeOK
  <1> QED BY <1>1, <1>2, <1>3, <1>4, <1>5 DEF RuntimeInv, TypeOK, StoredWithJob,
          StartsUnanswered, AskedOfJob, SuccessStands, CompletedJobSucceeded

(* poll and interrupt, up to their await. *)
LEMMA AskStep ==
  ASSUME RuntimeInv, NEW c \in Clients, NEW kind \in {"poll", "interrupt"}, Ask(c, kind)
  PROVE  RuntimeInv'
  <1> DEFINE x == [kind |-> kind, answer |-> "none"]
  <1>1. x \in Request /\ x.kind = kind /\ x.answer = "none"
    BY DEF Request
  <1>2. asks' = [asks EXCEPT ![c] = x] /\ UNCHANGED <<bridged, state, job>>
    BY DEF Ask, session
  <1> HIDE DEF x
  <1>3. asks' \in [Clients -> Request] /\ asks'[c] = x /\ \A d \in Clients \ {c} : asks'[d] = asks[d]
    BY <1>1, <1>2, OneRequest DEF RuntimeInv
  <1>4. bridged /\ state # "none" /\ job \notin {"none", "refused"}
    BY DEF Ask, RuntimeInv, StoredWithJob
  <1> QED BY <1>1, <1>2, <1>3, <1>4 DEF RuntimeInv, TypeOK, StoredWithJob, StartsUnanswered,
          AskedOfJob, SuccessStands, CompletedJobSucceeded

(* The adapter tells how the job is; a job that has ended is not cancelled. *)
LEMMA AdapterAnswersStep ==
  ASSUME RuntimeInv, NEW c \in Clients, AdapterAnswers(c)
  PROVE  RuntimeInv'
  <1>1. /\ asks[c].kind \in {"poll", "interrupt"}
        /\ job' = job \/ (job = "running" /\ job' = "cancelled")
        /\ asks' = [asks EXCEPT ![c].answer = job'] /\ UNCHANGED <<bridged, state>>
    BY DEF AdapterAnswers, session
  <1>2. job' \in {"running", "succeeded", "failed", "cancelled"}
    BY <1>1 DEF RuntimeInv, TypeOK, AskedOfJob
  <1> DEFINE x == [asks[c] EXCEPT !.answer = job']
  <1>3. x \in Request /\ x.kind = asks[c].kind /\ x.answer = job'
    BY <1>2 DEF RuntimeInv, TypeOK, Request
  <1>4. asks' = [asks EXCEPT ![c] = x]
    BY <1>1
  <1> HIDE DEF x
  <1>5. asks' \in [Clients -> Request] /\ asks'[c] = x /\ \A d \in Clients \ {c} : asks'[d] = asks[d]
    BY <1>3, <1>4, OneRequest DEF RuntimeInv
  <1> QED BY <1>1, <1>2, <1>3, <1>5 DEF RuntimeInv, TypeOK, StoredWithJob, StartsUnanswered,
          AskedOfJob, SuccessStands, CompletedJobSucceeded

(* A running job ends: no answer on its way says that it had succeeded. *)
LEMMA JobEndsStep ==
  ASSUME RuntimeInv, NEW how \in {"succeeded", "failed", "cancelled"}, JobEnds(how)
  PROVE  RuntimeInv'
  BY DEF JobEnds, session, RuntimeInv, TypeOK, StoredWithJob, StartsUnanswered, AskedOfJob,
     SuccessStands, CompletedJobSucceeded

-----------------------------------------------------------------------------
(* The rest of poll or interrupt, which completes a session only on an     *)
(* answer that the job has succeeded.                                      *)
LEMMA AnsweredStep ==
  ASSUME RuntimeInv, NEW c \in Clients, asks[c].kind \in {"poll", "interrupt"},
         asks' = [asks EXCEPT ![c] = Idle], UNCHANGED <<bridged, job>>,
         state' = "none" => state = "none",
         state' = "completed" => state = "completed" \/ asks[c].answer = "succeeded"
  PROVE  RuntimeInv'
  <1>1. asks' \in [Clients -> Request] /\ asks'[c] = Idle /\ \A d \in Clients \ {c} : asks'[d] = asks[d]
    BY OneRequest, IdleIsRequest DEF RuntimeInv
  <1>2. bridged /\ state # "none" /\ job \notin {"none", "refused"}
    BY DEF RuntimeInv, TypeOK, StoredWithJob, AskedOfJob
  <1>3. \A d \in Clients : asks'[d].kind = "start" => asks'[d].answer = "none"
    BY <1>1 DEF Idle, RuntimeInv, StartsUnanswered
  <1>4. StoredWithJob' /\ StartsUnanswered'
    BY <1>2, <1>3 DEF StoredWithJob, StartsUnanswered
  <1>5. AskedOfJob' /\ SuccessStands'
    BY <1>1, <1>2 DEF Idle, RuntimeInv, AskedOfJob, SuccessStands
  <1>6. CompletedJobSucceeded'
    BY DEF RuntimeInv, SuccessStands, CompletedJobSucceeded
  <1> QED BY <1>1, <1>4, <1>5, <1>6 DEF RuntimeInv, TypeOK

(* poll after its await. *)
LEMMA PolledStep ==
  ASSUME RuntimeInv, NEW c \in Clients, Polled(c)
  PROVE  RuntimeInv'
  <1>1. asks[c].kind = "poll" /\ asks' = [asks EXCEPT ![c] = Idle] /\ UNCHANGED <<bridged, job>>
    BY DEF Polled
  <1>2. CASE asks[c].answer = "running"
    <2>1. state' = state \/ state' = "failed"
      BY <1>2 DEF Polled, Sent
    <2> QED BY <1>1, <2>1, AnsweredStep
  <1>3. CASE asks[c].answer # "running"
    <2>1. asks[c].answer \in {"succeeded", "failed", "cancelled"}
      BY <1>3 DEF Polled, RuntimeInv, TypeOK, Request
    <2>2. state' = Outcome[asks[c].answer]
      BY <1>3 DEF Polled
    <2>3. state' \in {"completed", "interrupted", "failed"}
          /\ (state' = "completed" => asks[c].answer = "succeeded")
      BY <2>1, <2>2 DEF Outcome
    <2> QED BY <1>1, <2>3, AnsweredStep
  <1> QED BY <1>2, <1>3

(* interrupt after its await. *)
LEMMA InterruptedStep ==
  ASSUME RuntimeInv, NEW c \in Clients, Interrupted(c)
  PROVE  RuntimeInv'
  BY AnsweredStep DEF Interrupted

(* A job that was refused: the session ends, and not as completed. *)
LEMMA WithoutJobStep ==
  ASSUME RuntimeInv, PollWithoutJob \/ InterruptWithoutJob
  PROVE  RuntimeInv'
  <1>1. bridged /\ job = "refused" /\ state' \in {"failed", "interrupted"}
        /\ UNCHANGED <<bridged, job, asks>>
    BY DEF PollWithoutJob, InterruptWithoutJob
  <1> QED BY <1>1 DEF RuntimeInv, TypeOK, StoredWithJob, StartsUnanswered, AskedOfJob,
          SuccessStands, CompletedJobSucceeded

-----------------------------------------------------------------------------
(* Whatever was started again, the bridge completes its session on the     *)
(* success of its job only (start, poll and interrupt of the bridge).      *)
THEOREM RuntimeInvariant == Spec => []RuntimeInv
  <1>1. RuntimeInv /\ [Next]_vars => RuntimeInv'
    <2> SUFFICES ASSUME RuntimeInv, [Next]_vars PROVE RuntimeInv'
      OBVIOUS
    <2>1. CASE OwnerNext
      BY <2>1, OwnerNextIsOwner, OwnerStep
    <2>2. ASSUME NEW c \in Clients, BridgeStart(c) PROVE RuntimeInv'
      BY <2>2, BridgeStartStep
    <2>3. ASSUME NEW c \in Clients, AdapterAnswers(c) PROVE RuntimeInv'
      BY <2>3, AdapterAnswersStep
    <2>4. ASSUME NEW c \in Clients, Polled(c) PROVE RuntimeInv'
      BY <2>4, PolledStep
    <2>5. ASSUME NEW c \in Clients, Interrupted(c) PROVE RuntimeInv'
      BY <2>5, InterruptedStep
    <2>6. ASSUME NEW c \in Clients, NEW success \in BOOLEAN, Submitted(c, success)
          PROVE  RuntimeInv'
      BY <2>6, SubmittedStep
    <2>7. ASSUME NEW c \in Clients, NEW kind \in {"poll", "interrupt"}, Ask(c, kind)
          PROVE  RuntimeInv'
      BY <2>7, AskStep
    <2>8. CASE PollWithoutJob \/ InterruptWithoutJob
      BY <2>8, WithoutJobStep
    <2>9. ASSUME NEW how \in {"succeeded", "failed", "cancelled"}, JobEnds(how)
          PROVE  RuntimeInv'
      BY <2>9, JobEndsStep
    <2>10. CASE UNCHANGED vars
      BY <2>10 DEF vars, session, RuntimeInv, TypeOK, StoredWithJob, StartsUnanswered, AskedOfJob,
         SuccessStands, CompletedJobSucceeded
    <2> QED BY <2>1, <2>2, <2>3, <2>4, <2>5, <2>6, <2>7, <2>8, <2>9, <2>10 DEF Next, BridgeNext
  <1> QED BY <1>1, InitRuntime, PTL DEF Spec

(* For any clients and limits: a session of the bridge that is completed   *)
(* has a job that succeeded, in whatever order starts, polls,              *)
(* interruptions and their answers come (the bridge).                      *)
THEOREM CompletedOnSuccess == Spec => []CompletedJobSucceeded
  <1>1. RuntimeInv => CompletedJobSucceeded
    BY DEF RuntimeInv
  <1> QED BY <1>1, RuntimeInvariant, PTL

-----------------------------------------------------------------------------
(***************************************************************************)
(* The inputs and the turns of a session.  The code promotes in the order  *)
(* of admission, which is more than it has to: the inputs that were        *)
(* promoted are the first that were admitted, in their order, and the      *)
(* turns that are not theirs are among the first.  A session of the      *)
(* bridge has no inputs, so the turns of a new start take nothing away.    *)
(***************************************************************************)
InputsArriveOnceInOrder ==
  /\ \A j, k \in DOMAIN admitted :
       /\ admitted[j].id = admitted[k].id => j = k
       /\ j < k /\ admitted[k].promoted => admitted[j].promoted
  /\ \A k \in DOMAIN admitted :
       admitted[k].promoted <=> \E n \in DOMAIN turns : turns[n] = admitted[k].id
  /\ \A n \in DOMAIN turns : turns[n] = Other \/ Known(turns[n])
  /\ \A m, n \in DOMAIN turns, j, k \in DOMAIN admitted :
       m < n /\ turns[m] = admitted[j].id /\ turns[n] = admitted[k].id => j < k

Input == [id : Inputs, delivery : {"steer", "queue"}, promoted : BOOLEAN]

TurnsInv ==
  /\ turns \in Seq(Inputs \cup {Other}) /\ admitted \in Seq(Input) /\ calls \in Nat
  /\ bridged => admitted = <<>>
  /\ InputsArriveOnceInOrder /\ LimitsAreKept

(* Nothing is said and no input is touched. *)
LEMMA SilentStep ==
  ASSUME TurnsInv, UNCHANGED <<bridged, turns, admitted, calls>>
  PROVE  TurnsInv'
  BY DEF TurnsInv, InputsArriveOnceInOrder, LimitsAreKept, Known

(* No inputs and no turns yet. *)
LEMMA InitTurns == ASSUME MaxCalls \in Nat PROVE Init => TurnsInv
  BY DEF Init, TurnsInv, InputsArriveOnceInOrder, LimitsAreKept

(* An admitted input is new, so no turn is its yet. *)
LEMMA AdmitInputStep ==
  ASSUME Other \notin Inputs, TurnsInv, NEW i \in Inputs, NEW d \in {"steer", "queue"},
         AdmitInput(i, d)
  PROVE  TurnsInv'
  <1> DEFINE x == [id |-> i, delivery |-> d, promoted |-> FALSE]
  <1>1. x \in Input /\ x.id = i /\ ~x.promoted
    BY DEF Input
  <1>2. /\ admitted' = Append(admitted, x) /\ UNCHANGED <<bridged, turns, calls>>
        /\ ~bridged /\ ~Known(i)
    BY DEF AdmitInput
  <1> HIDE DEF x
  <1>3. /\ turns \in Seq(Inputs \cup {Other}) /\ admitted \in Seq(Input)
        /\ InputsArriveOnceInOrder /\ LimitsAreKept
    BY DEF TurnsInv
  <1> DEFINE l == Len(admitted) + 1
  <1>4. /\ admitted' \in Seq(Input) /\ l \in Nat /\ DOMAIN admitted' = 1..l
        /\ DOMAIN admitted = 1..(l - 1) /\ admitted'[l] = x
        /\ \A k \in DOMAIN admitted : k \in DOMAIN admitted' /\ k < l /\ admitted'[k] = admitted[k]
        /\ \A k \in DOMAIN admitted' : k \in DOMAIN admitted \/ k = l
    BY <1>1, <1>2, <1>3
  <1> HIDE DEF l
  <1>5. \A k \in DOMAIN admitted : admitted[k].id # i
    BY <1>2 DEF Known
  <1>6. \A n \in DOMAIN turns : turns[n] # i
    <2> SUFFICES ASSUME NEW n \in DOMAIN turns, turns[n] = i PROVE FALSE
      OBVIOUS
    <2>1. turns[n] = Other \/ Known(turns[n])
      BY <1>3 DEF InputsArriveOnceInOrder
    <2> QED BY <1>2, <2>1
  <1>7. \A j, k \in DOMAIN admitted' :
          /\ admitted'[j].id = admitted'[k].id => j = k
          /\ j < k /\ admitted'[k].promoted => admitted'[j].promoted
    <2> SUFFICES ASSUME NEW j \in DOMAIN admitted', NEW k \in DOMAIN admitted'
                 PROVE  /\ admitted'[j].id = admitted'[k].id => j = k
                        /\ j < k /\ admitted'[k].promoted => admitted'[j].promoted
      OBVIOUS
    <2>1. CASE j \in DOMAIN admitted /\ k \in DOMAIN admitted
      BY <1>3, <1>4, <2>1 DEF InputsArriveOnceInOrder
    <2>2. CASE k = l
      BY <1>1, <1>4, <1>5, <2>2
    <2>3. CASE j = l /\ k \in DOMAIN admitted
      BY <1>1, <1>4, <1>5, <2>3
    <2> QED BY <1>4, <2>1, <2>2, <2>3
  <1>8. \A k \in DOMAIN admitted' :
          admitted'[k].promoted <=> \E n \in DOMAIN turns' : turns'[n] = admitted'[k].id
    BY <1>1, <1>2, <1>3, <1>4, <1>6 DEF InputsArriveOnceInOrder
  <1>9. \A n \in DOMAIN turns' : turns'[n] = Other \/ Known(turns[n])'
    BY <1>2, <1>3, <1>4 DEF InputsArriveOnceInOrder, Known
  <1>10. \A m, n \in DOMAIN turns', j, k \in DOMAIN admitted' :
           m < n /\ turns'[m] = admitted'[j].id /\ turns'[n] = admitted'[k].id => j < k
    BY <1>1, <1>2, <1>3, <1>4, <1>6 DEF InputsArriveOnceInOrder
  <1>11. LimitsAreKept'
    BY <1>2, <1>3 DEF LimitsAreKept
  <1> QED BY <1>2, <1>4, <1>7, <1>8, <1>9, <1>10, <1>11 DEF TurnsInv, InputsArriveOnceInOrder

(* A turn that is sent is none of an input, and one of the first.          *)
LEMMA SentStep ==
  ASSUME Other \notin Inputs, MaxTurns \in Nat, MaxCalls \in Nat, TurnsInv,
         NEW requested \in Seq(Nat), Sent(requested), UNCHANGED <<bridged, admitted>>
  PROVE  TurnsInv'
  <1>1. /\ turns \in Seq(Inputs \cup {Other}) /\ admitted \in Seq(Input) /\ calls \in Nat
        /\ InputsArriveOnceInOrder /\ LimitsAreKept
    BY DEF TurnsInv
  <1>2. CASE UNCHANGED <<turns, calls>>
    BY <1>2, SilentStep
  <1>3. CASE /\ turns' = Append(turns, Other) /\ calls' = calls + Len(requested)
             /\ Len(turns) < MaxTurns /\ calls + Len(requested) <= MaxCalls
    <2> DEFINE l == Len(turns) + 1
    <2>1. /\ turns' \in Seq(Inputs \cup {Other}) /\ l \in Nat /\ DOMAIN turns' = 1..l
          /\ DOMAIN turns = 1..(l - 1) /\ turns'[l] = Other /\ l <= MaxTurns
          /\ \A n \in DOMAIN turns : n \in DOMAIN turns' /\ n < l /\ turns'[n] = turns[n]
          /\ \A n \in DOMAIN turns' : n \in DOMAIN turns \/ n = l
      BY <1>1, <1>3
    <2> HIDE DEF l
    <2>2. calls' \in Nat /\ calls' <= MaxCalls
      BY <1>1, <1>3
    <2>3. \A k \in DOMAIN admitted : admitted[k].id # Other
      <3>1. \A k \in DOMAIN admitted : admitted[k] \in Input
        BY <1>1
      <3> QED BY <3>1 DEF Input
    <2>4. LimitsAreKept'
      BY <1>1, <2>1, <2>2 DEF LimitsAreKept
    <2>5. InputsArriveOnceInOrder'
      <3>1. \A k \in DOMAIN admitted : admitted[k].promoted <=> \E n \in DOMAIN turns' : turns'[n] = admitted[k].id
        <4> SUFFICES ASSUME NEW k \in DOMAIN admitted
                     PROVE  (\E n \in DOMAIN turns : turns[n] = admitted[k].id)
                              <=> \E n \in DOMAIN turns' : turns'[n] = admitted[k].id
          BY <1>1 DEF InputsArriveOnceInOrder
        <4> QED BY <2>1, <2>3
      <3>2. \A n \in DOMAIN turns' : turns'[n] = Other \/ Known(turns'[n])
        BY <1>1, <2>1 DEF InputsArriveOnceInOrder
      <3>3. \A m, n \in DOMAIN turns', j, k \in DOMAIN admitted :
              m < n /\ turns'[m] = admitted[j].id /\ turns'[n] = admitted[k].id => j < k
        BY <1>1, <2>1, <2>3 DEF InputsArriveOnceInOrder
      <3> QED BY <1>1, <3>1, <3>2, <3>3 DEF InputsArriveOnceInOrder, Known
    <2> QED BY <1>1, <2>1, <2>2, <2>4, <2>5 DEF TurnsInv
  <1> QED BY <1>1, <1>2, <1>3 DEF Sent

(* What is said after a sequence follows it. *)
LEMMA Concatenated ==
  ASSUME NEW S, NEW s \in Seq(S), NEW t \in Seq(S)
  PROVE  /\ s \o t \in Seq(S) /\ DOMAIN (s \o t) = 1..(Len(s) + Len(t))
         /\ \A n \in 1..Len(s) : (s \o t)[n] = s[n]
         /\ \A n \in 1..Len(t) : (s \o t)[Len(s) + n] = t[n]
  OBVIOUS

(* The inputs taken come after those promoted before, and each of them     *)
(* becomes one turn, in their order.                                       *)
LEMMA PromoteStep ==
  ASSUME Other \notin Inputs, TurnsInv, PromoteAdmittedInputs
  PROVE  TurnsInv'
  <1> DEFINE Waiting == {k \in DOMAIN admitted : ~admitted[k].promoted}
             Taken == {k \in Waiting : \A q \in Waiting : q < k => admitted[q].delivery # "queue"}
             l == Len(turns)
  <1>1. /\ turns \in Seq(Inputs \cup {Other}) /\ admitted \in Seq(Input) /\ calls \in Nat
        /\ InputsArriveOnceInOrder
    BY DEF TurnsInv
  <1>2. PICK count \in 0..Len(admitted) : \E order \in [1..count -> Taken] :
          /\ Taken = {order[n] : n \in 1..count}
          /\ \A m, n \in 1..count : m < n => order[m] < order[n]
          /\ turns' = turns \o [n \in 1..count |-> admitted[order[n]].id]
    BY DEF PromoteAdmittedInputs
  <1>3. PICK order \in [1..count -> Taken] :
          /\ Taken = {order[n] : n \in 1..count}
          /\ \A m, n \in 1..count : m < n => order[m] < order[n]
          /\ turns' = turns \o [n \in 1..count |-> admitted[order[n]].id]
    BY <1>2
  <1>4. /\ admitted' = [k \in DOMAIN admitted |->
                          [admitted[k] EXCEPT !.promoted = @ \/ k \in Taken]]
        /\ UNCHANGED <<bridged, calls>> /\ ~bridged
    BY DEF PromoteAdmittedInputs
  <1>5. \A k \in Taken : k \in DOMAIN admitted /\ ~admitted[k].promoted
    OBVIOUS
  <1>6. \A j, k \in DOMAIN admitted : j < k /\ k \in Taken /\ ~admitted[j].promoted => j \in Taken
    <2> SUFFICES ASSUME NEW j \in DOMAIN admitted, NEW k \in Taken, j < k, ~admitted[j].promoted
                 PROVE  j \in Taken
      OBVIOUS
    <2>1. j \in Nat /\ k \in Nat /\ \A q \in Waiting : q \in Nat
      BY <1>1
    <2>2. \A q \in Waiting : q < j => admitted[q].delivery # "queue"
      BY <2>1
    <2> QED BY <2>2
  <1> HIDE DEF Taken, Waiting
  <1>7. /\ DOMAIN admitted' = DOMAIN admitted /\ admitted' \in Seq(Input)
        /\ \A k \in DOMAIN admitted :
             /\ admitted'[k].id = admitted[k].id
             /\ admitted'[k].promoted <=> admitted[k].promoted \/ k \in Taken
    <2>1. \A k \in DOMAIN admitted : admitted[k] \in Input
      BY <1>1
    <2> DEFINE x(k) == [admitted[k] EXCEPT !.promoted = @ \/ k \in Taken]
    <2>2. \A k \in DOMAIN admitted : /\ x(k) \in Input /\ x(k).id = admitted[k].id
                                     /\ x(k).promoted <=> admitted[k].promoted \/ k \in Taken
      BY <2>1 DEF Input
    <2>3. DOMAIN admitted = 1..Len(admitted) /\ Len(admitted) \in Nat
      BY <1>1
    <2>4. admitted' = [k \in DOMAIN admitted |-> x(k)]
      BY <1>4
    <2> HIDE DEF x
    <2>5. admitted' \in Seq(Input)
      BY <2>2, <2>3, <2>4
    <2> QED BY <2>2, <2>4, <2>5
  <1> DEFINE said == [n \in 1..count |-> admitted[order[n]].id]
  <1>8. /\ count \in Nat /\ l \in Nat /\ DOMAIN turns = 1..l
        /\ \A n \in 1..count : order[n] \in DOMAIN admitted /\ said[n] = admitted[order[n]].id
                               /\ said[n] \in Inputs
    <2>1. count \in Nat /\ l \in Nat /\ DOMAIN turns = 1..l
      BY <1>1
    <2>2. \A k \in DOMAIN admitted : admitted[k].id \in Inputs
      <3>1. \A k \in DOMAIN admitted : admitted[k] \in Input
        BY <1>1
      <3> QED BY <3>1 DEF Input
    <2> QED BY <1>5, <2>1, <2>2
  <1>9. said \in Seq(Inputs \cup {Other}) /\ Len(said) = count
    BY <1>8
  <1>10. turns' = turns \o said
    BY <1>3
  <1> HIDE DEF said, l
  <1>11. /\ turns' \in Seq(Inputs \cup {Other}) /\ DOMAIN turns' = 1..(l + count)
         /\ \A n \in 1..l : turns'[n] = turns[n]
         /\ \A n \in 1..count : turns'[l + n] = said[n]
    <2> DEFINE X == Inputs \cup {Other}
    <2>1. turns \in Seq(X) /\ said \in Seq(X)
      BY <1>1, <1>9
    <2> HIDE DEF X
    <2>2. /\ turns \o said \in Seq(X) /\ DOMAIN (turns \o said) = 1..(Len(turns) + Len(said))
          /\ \A n \in 1..Len(turns) : (turns \o said)[n] = turns[n]
          /\ \A n \in 1..Len(said) : (turns \o said)[Len(turns) + n] = said[n]
      BY <2>1, Concatenated
    <2> QED BY <1>9, <1>10, <2>2 DEF l, X
  <1>12. \A n \in DOMAIN turns' : n \in DOMAIN turns \/ \E p \in 1..count : n = l + p
    <2> SUFFICES ASSUME NEW n \in DOMAIN turns', n \notin DOMAIN turns
                 PROVE  \E p \in 1..count : n = l + p
      OBVIOUS
    <2>1. n - l \in 1..count /\ n = l + (n - l)
      BY <1>8, <1>11
    <2> QED BY <2>1
  <1>13. \A n \in DOMAIN turns : n \in DOMAIN turns' /\ turns'[n] = turns[n]
    BY <1>8, <1>11
  <1>14. \A p \in 1..count : l + p \in DOMAIN turns' /\ turns'[l + p] = admitted[order[p]].id
                             /\ order[p] \in Taken /\ turns'[l + p] \in Inputs
    <2> SUFFICES ASSUME NEW p \in 1..count
                 PROVE  /\ l + p \in DOMAIN turns' /\ turns'[l + p] = admitted[order[p]].id
                        /\ order[p] \in Taken /\ turns'[l + p] \in Inputs
      OBVIOUS
    <2>1. l + p \in 1..(l + count)
      BY <1>8
    <2> QED BY <1>8, <1>11, <2>1
  (* Whose turn a new one is, and whose an old one was. *)
  <1>15. \A j \in DOMAIN admitted, p \in 1..count :
           turns'[l + p] = admitted[j].id => j = order[p]
    BY <1>1, <1>8, <1>14 DEF InputsArriveOnceInOrder
  <1>16. \A j \in DOMAIN admitted, n \in DOMAIN turns :
           turns'[n] = admitted[j].id => admitted[j].promoted
    BY <1>1, <1>13 DEF InputsArriveOnceInOrder
  <1>17. \A j, k \in DOMAIN admitted' :
           /\ admitted'[j].id = admitted'[k].id => j = k
           /\ j < k /\ admitted'[k].promoted => admitted'[j].promoted
    BY <1>1, <1>6, <1>7 DEF InputsArriveOnceInOrder
  <1>18. \A k \in DOMAIN admitted' :
           admitted'[k].promoted <=> \E n \in DOMAIN turns' : turns'[n] = admitted'[k].id
    <2> SUFFICES ASSUME NEW k \in DOMAIN admitted
                 PROVE  admitted[k].promoted \/ k \in Taken
                          <=> \E n \in DOMAIN turns' : turns'[n] = admitted[k].id
      BY <1>7
    <2>1. ASSUME admitted[k].promoted PROVE \E n \in DOMAIN turns' : turns'[n] = admitted[k].id
      <3>1. PICK n \in DOMAIN turns : turns[n] = admitted[k].id
        BY <1>1, <2>1 DEF InputsArriveOnceInOrder
      <3> QED BY <1>13, <3>1
    <2>2. ASSUME k \in Taken PROVE \E n \in DOMAIN turns' : turns'[n] = admitted[k].id
      <3>1. PICK p \in 1..count : k = order[p]
        BY <1>3, <2>2
      <3> QED BY <1>14, <3>1
    <2>3. ASSUME NEW n \in DOMAIN turns', turns'[n] = admitted[k].id
          PROVE  admitted[k].promoted \/ k \in Taken
      <3>1. CASE n \in DOMAIN turns
        BY <1>16, <2>3, <3>1
      <3>2. ASSUME NEW p \in 1..count, n = l + p PROVE k \in Taken
        BY <1>14, <1>15, <2>3, <3>2
      <3> QED BY <1>12, <3>1, <3>2
    <2> QED BY <2>1, <2>2, <2>3
  <1>19. \A n \in DOMAIN turns' : turns'[n] = Other \/ Known(turns[n])'
    <2> SUFFICES ASSUME NEW n \in DOMAIN turns'
                 PROVE  turns'[n] = Other \/ \E k \in DOMAIN admitted : admitted[k].id = turns'[n]
      BY <1>7 DEF Known
    <2>1. CASE n \in DOMAIN turns
      BY <1>1, <1>13, <2>1 DEF InputsArriveOnceInOrder, Known
    <2>2. ASSUME NEW p \in 1..count, n = l + p
          PROVE  \E k \in DOMAIN admitted : admitted[k].id = turns'[n]
      BY <1>8, <1>14, <2>2
    <2> QED BY <1>12, <2>1, <2>2
  <1>20. \A m, n \in DOMAIN turns', j, k \in DOMAIN admitted' :
           m < n /\ turns'[m] = admitted'[j].id /\ turns'[n] = admitted'[k].id => j < k
    <2> SUFFICES ASSUME NEW m \in DOMAIN turns', NEW n \in DOMAIN turns',
                        NEW j \in DOMAIN admitted, NEW k \in DOMAIN admitted,
                        m < n, turns'[m] = admitted[j].id, turns'[n] = admitted[k].id
                 PROVE  j < k
      BY <1>7
    <2>1. CASE m \in DOMAIN turns /\ n \in DOMAIN turns
      BY <1>1, <1>13, <2>1 DEF InputsArriveOnceInOrder
    <2>2. ASSUME m \in DOMAIN turns, NEW p \in 1..count, n = l + p PROVE j < k
      <3>1. admitted[j].promoted /\ k \in Taken
        BY <1>14, <1>15, <1>16, <2>2
      <3>2. ~admitted[k].promoted /\ j \in Nat /\ k \in Nat
        BY <1>1, <1>5, <3>1
      <3>3. ~(k < j) /\ j # k
        BY <1>1, <3>1, <3>2 DEF InputsArriveOnceInOrder
      <3> QED BY <3>2, <3>3
    <2>3. ASSUME NEW p \in 1..count, m = l + p PROVE n \notin DOMAIN turns
      BY <1>8, <2>3
    <2>4. ASSUME NEW p \in 1..count, m = l + p, NEW q \in 1..count, n = l + q PROVE j < k
      <3>1. p < q
        BY <1>8, <2>4
      <3>2. j = order[p] /\ k = order[q]
        BY <1>15, <2>4
      <3> QED BY <1>3, <3>1, <3>2
    <2> QED BY <1>12, <2>1, <2>2, <2>3, <2>4
  <1>21. LimitsAreKept'
    <2>1. LimitsAreKept
      BY DEF TurnsInv
    <2>2. \A n \in DOMAIN turns' : turns'[n] = Other => n <= MaxTurns
      BY <1>12, <1>13, <1>14, <2>1 DEF LimitsAreKept
    <2> QED BY <1>4, <2>1, <2>2 DEF LimitsAreKept
  <1> QED BY <1>1, <1>4, <1>7, <1>11, <1>17, <1>18, <1>19, <1>20, <1>21
       DEF TurnsInv, InputsArriveOnceInOrder

(* The first turns of a session of the bridge, which has no inputs. *)
LEMMA SubmittedTurns ==
  ASSUME MaxTurns \in Nat, RuntimeInv, TurnsInv,
         NEW c \in Clients, NEW success \in BOOLEAN, Submitted(c, success)
  PROVE  TurnsInv'
  <1>1. bridged /\ admitted = <<>>
    BY DEF Submitted, RuntimeInv, StartsUnanswered, TurnsInv
  <1>2. UNCHANGED <<bridged, admitted, calls>>
    BY DEF Submitted
  <1>3. PICK said \in {1, 2} : turns' = [n \in {k \in 1..said : k <= MaxTurns} |-> Other]
    BY DEF Submitted
  <1>4. PICK last \in Nat : {k \in 1..said : k <= MaxTurns} = 1..last /\ last <= MaxTurns
    <2>1. CASE said <= MaxTurns
      <3>1. {k \in 1..said : k <= MaxTurns} = 1..said
        BY <2>1
      <3> QED BY <2>1, <3>1
    <2>2. CASE MaxTurns < said
      <3>1. {k \in 1..said : k <= MaxTurns} = 1..MaxTurns
        BY <2>2
      <3> QED BY <3>1
    <2> QED BY <2>1, <2>2
  <1>5. turns' = [n \in 1..last |-> Other]
    BY <1>3, <1>4
  <1>6. turns' \in Seq(Inputs \cup {Other}) /\ DOMAIN turns' = 1..last
        /\ \A n \in DOMAIN turns' : turns'[n] = Other /\ n <= MaxTurns
    BY <1>4, <1>5
  <1>7. InputsArriveOnceInOrder' /\ LimitsAreKept'
    BY <1>1, <1>2, <1>6 DEF TurnsInv, InputsArriveOnceInOrder, LimitsAreKept
  <1> QED BY <1>1, <1>2, <1>6, <1>7 DEF TurnsInv

(* The calls of an owner. *)
LEMMA OwnerTurns ==
  ASSUME Other \notin Inputs, MaxTurns \in Nat, MaxCalls \in Nat, TurnsInv, OwnerNext
  PROVE  TurnsInv'
  <1>1. CASE Start \/ Register
    BY <1>1, SilentStep DEF Start, Register, session
  <1>2. CASE PromoteAdmittedInputs
    BY <1>2, PromoteStep
  <1>3. ASSUME NEW i \in Inputs, NEW d \in {"steer", "queue"}, AdmitInput(i, d) PROVE TurnsInv'
    BY <1>3, AdmitInputStep
  <1>4. ASSUME NEW requested \in Seq(Nat), Send(requested) PROVE TurnsInv'
    BY <1>4, SentStep DEF Send
  <1>5. ASSUME NEW how \in Ended, End(how) PROVE TurnsInv'
    BY <1>5, SilentStep DEF End
  <1>6. ASSUME NEW r \in 1..MaxRegistrations, CloseRegistration(r) PROVE TurnsInv'
    BY <1>6, SilentStep DEF CloseRegistration, session
  <1>7. \A first, second \in 0..MaxRegistrations :
          <<>> \in Seq(Nat) /\ <<first>> \in Seq(Nat) /\ <<first, second>> \in Seq(Nat)
    <2>1. \A first \in 0..MaxRegistrations : first \in Nat
      OBVIOUS
    <2> QED BY <2>1
  <1> QED BY <1>1, <1>2, <1>3, <1>4, <1>5, <1>6, <1>7 DEF OwnerNext

(* The steps of the bridge. *)
LEMMA BridgeTurns ==
  ASSUME Other \notin Inputs, MaxTurns \in Nat, MaxCalls \in Nat, RuntimeInv, TurnsInv, BridgeNext
  PROVE  TurnsInv'
  <1>1. ASSUME NEW c \in Clients, Submitted(c, TRUE) \/ Submitted(c, FALSE) PROVE TurnsInv'
    BY <1>1, SubmittedTurns
  <1>2. ASSUME NEW c \in Clients, Polled(c) PROVE TurnsInv'
    <2>1. CASE Sent(<<>>)
      <3>1. <<>> \in Seq(Nat) /\ UNCHANGED <<bridged, admitted>>
        BY <1>2 DEF Polled
      <3> QED BY <2>1, <3>1, SentStep
    <2>2. CASE UNCHANGED <<turns, calls>>
      BY <1>2, <2>2, SilentStep DEF Polled
    <2> QED BY <1>2, <2>1, <2>2 DEF Polled
  <1>3. ASSUME NEW c \in Clients, BridgeStart(c) \/ AdapterAnswers(c) \/ Interrupted(c) PROVE TurnsInv'
    BY <1>3, SilentStep DEF BridgeStart, AdapterAnswers, Interrupted, session
  <1>4. ASSUME NEW c \in Clients, NEW kind \in {"poll", "interrupt"}, Ask(c, kind) PROVE TurnsInv'
    BY <1>4, SilentStep DEF Ask, session
  <1>5. CASE PollWithoutJob \/ InterruptWithoutJob
    BY <1>5, SilentStep DEF PollWithoutJob, InterruptWithoutJob
  <1>6. ASSUME NEW how \in {"succeeded", "failed", "cancelled"}, JobEnds(how) PROVE TurnsInv'
    BY <1>6, SilentStep DEF JobEnds, session
  <1> QED BY <1>1, <1>2, <1>3, <1>4, <1>5, <1>6 DEF BridgeNext

(* That order gives every promoted input one turn and the queue its own.   *)
LEMMA OrderIsFifo ==
  ASSUME Other \notin Inputs, TurnsInv
  PROVE  InputsArriveOnce /\ QueueIsFifo
  <1>1. /\ turns \in Seq(Inputs \cup {Other}) /\ admitted \in Seq(Input)
        /\ InputsArriveOnceInOrder
    BY DEF TurnsInv
  <1>2. \A k \in DOMAIN admitted : k \in Nat
    BY <1>1
  <1>3. \A n \in DOMAIN turns : n \in Nat
    BY <1>1
  <1>4. ASSUME NEW m \in DOMAIN turns, turns[m] # Other
        PROVE  Known(turns[m]) /\ \A n \in DOMAIN turns : turns[m] = turns[n] => m = n
    <2>1. PICK k \in DOMAIN admitted : admitted[k].id = turns[m]
      BY <1>1, <1>4 DEF InputsArriveOnceInOrder, Known
    <2>2. ~(k < k)
      BY <1>2
    <2>3. \A n \in DOMAIN turns : turns[m] = turns[n] => ~(m < n) /\ ~(n < m)
      BY <1>1, <2>1, <2>2 DEF InputsArriveOnceInOrder
    <2> QED BY <1>3, <2>1, <2>3 DEF Known
  <1>5. QueueIsFifo
    <2> SUFFICES ASSUME NEW j \in DOMAIN admitted, NEW k \in DOMAIN admitted, j < k,
                        admitted[k].promoted
                 PROVE  /\ admitted[j].promoted
                        /\ \A m, n \in DOMAIN turns :
                             turns[m] = admitted[j].id /\ turns[n] = admitted[k].id => m < n
      BY DEF QueueIsFifo
    <2>1. admitted[j].promoted /\ admitted[j].id # admitted[k].id /\ ~(k < j)
      BY <1>1, <1>2 DEF InputsArriveOnceInOrder
    <2>2. \A m, n \in DOMAIN turns :
            turns[m] = admitted[j].id /\ turns[n] = admitted[k].id => m # n /\ ~(n < m)
      BY <1>1, <2>1 DEF InputsArriveOnceInOrder
    <2> QED BY <1>3, <2>1, <2>2
  <1> QED BY <1>1, <1>4, <1>5 DEF InputsArriveOnce, InputsArriveOnceInOrder

(* For any inputs, clients and limits: every promoted input is one turn,   *)
(* queued ones first in, first out, what is sent stays within the policy,  *)
(* and a completed job has succeeded (the session and its bridge).         *)
THEOREM SessionsOrderly ==
  ASSUME Other \notin Inputs, MaxTurns \in Nat, MaxCalls \in Nat
  PROVE  Spec => []SessionIsOrderly
  <1>1. TurnsInv /\ RuntimeInv /\ [Next]_vars => TurnsInv'
    BY OwnerTurns, BridgeTurns, SilentStep DEF Next, vars, session
  <1>2. TurnsInv /\ RuntimeInv => SessionIsOrderly
    BY OrderIsFifo DEF TurnsInv, RuntimeInv, SessionIsOrderly
  <1> QED BY <1>1, <1>2, InitTurns, RuntimeInvariant, PTL DEF Spec
=============================================================================
