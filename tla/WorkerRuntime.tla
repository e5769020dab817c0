---------------------------- MODULE WorkerRuntime ----------------------------
(***************************************************************************)
(* One session of the worker runtime: its inputs, turns and tool calls,    *)
(* the registrations of one tool, and the limits of its policy.  Either a  *)
(* caller owns the session and calls it, each call being synchronous, or   *)
(* the bridge to a worker adapter does, which awaits the adapter: polls    *)
(* and interruptions of its job then overlap and answer late.              *)
(***************************************************************************)
EXTENDS Naturals, Sequences

CONSTANTS
  Clients,           \* requests that wait for the adapter
  Inputs,
  MaxTurns, MaxCalls,   \* the policy
  MaxRegistrations   \* bound on the registrations of the tool

VARIABLES
  bridged,    \* the session belongs to the bridge
  state,      \* of the session; none before the bridge has stored it
  turns,      \* an input's id for a promoted input, other for the rest
  admitted,   \* admittedInputs, in the order of the map
  calls,      \* toolCallCount
  tools,      \* the open registrations of the tool, numbered as made
  issued,     \* how many registrations were made
  job,        \* the job at the adapter
  asks        \* per client: what it awaits, and the answer on its way

session == <<state, turns, admitted, calls>>
registry == <<tools, issued>>
vars == <<bridged, session, registry, job, asks>>

Other == "other"
Ended == {"interrupted", "completed", "failed", "closed"}
Known(i) == \E k \in DOMAIN admitted : admitted[k].id = i

-----------------------------------------------------------------------------
(* start, which looks at nothing.                                          *)
Start ==
  /\ ~bridged /\ state' = "running"
  /\ UNCHANGED <<bridged, turns, admitted, calls, registry, job, asks>>

(* Mutant: the same input is admitted again. *)
AdmitTwice(i, delivery) ==
  /\ ~bridged /\ state = "running" /\ Len(admitted) < 3
  /\ admitted' = Append(admitted, [id |-> i, delivery |-> delivery, promoted |-> FALSE])
  /\ UNCHANGED <<bridged, state, turns, calls, registry, job, asks>>

(* admitInput; a retry is answered, a reuse refused, neither is admitted.  *)
AdmitInput(i, delivery) ==
  /\ ~bridged /\ state = "running" /\ ~Known(i)
  /\ admitted' = Append(admitted, [id |-> i, delivery |-> delivery, promoted |-> FALSE])
  /\ UNCHANGED <<bridged, state, turns, calls, registry, job, asks>>

(* promoteAdmittedInputs: in the order of admission, up to the first that  *)
(* is queued; max_turns is not looked at.                                  *)
PromoteAdmittedInputs ==
  LET Waiting == {k \in DOMAIN admitted : ~admitted[k].promoted}
      Taken == {k \in Waiting : \A q \in Waiting : q < k => admitted[q].delivery # "queue"}
  IN
  /\ ~bridged /\ state = "running"
  /\ admitted' = [k \in DOMAIN admitted |-> [admitted[k] EXCEPT !.promoted = @ \/ k \in Taken]]
  /\ \E count \in 0..Len(admitted) : \E order \in [1..count -> Taken] :
       /\ Taken = {order[n] : n \in 1..count}
       /\ \A m, n \in 1..count : m < n => order[m] < order[n]
       /\ turns' = turns \o [n \in 1..count |-> admitted[order[n]].id]
  /\ UNCHANGED <<bridged, state, calls, registry, job, asks>>

-----------------------------------------------------------------------------
(* decideInvocation, for the registration a call was offered, or for none; *)
(* what else the policy refuses, a tool or a path, ends a session likewise. *)
Allowed(call) == tools # {} /\ (call = 0 \/ (call \in tools /\ \A r \in tools : r <= call))

(* send: the session fails where a limit or a call does not let it go on.  *)
Sent(requested) ==
  IF Len(turns) >= MaxTurns \/ calls + Len(requested) > MaxCalls
     \/ \E k \in DOMAIN requested : ~Allowed(requested[k])
    THEN state' = "failed" /\ UNCHANGED <<turns, calls>>
    ELSE /\ turns' = Append(turns, Other) /\ calls' = calls + Len(requested)
         /\ UNCHANGED state

Send(requested) ==
  /\ ~bridged /\ state = "running" /\ Sent(requested)
  /\ UNCHANGED <<bridged, admitted, registry, job, asks>>

(* interrupt, complete, fail and close, which look at nothing.             *)
End(how) ==
  /\ ~bridged /\ state' = how
  /\ UNCHANGED <<bridged, turns, admitted, calls, registry, job, asks>>

(* register and closeRegistration; an older one shows through again.       *)
Register ==
  /\ ~bridged /\ issued < MaxRegistrations
  /\ issued' = issued + 1 /\ tools' = tools \cup {issued'}
  /\ UNCHANGED <<bridged, session, job, asks>>

CloseRegistration(r) ==
  /\ ~bridged /\ tools' = tools \ {r}
  /\ UNCHANGED <<bridged, session, issued, job, asks>>

-----------------------------------------------------------------------------
Idle == [kind |-> "idle", answer |-> "none"]

(* start of the bridge, which looks at nothing: a session with its first   *)
(* turn, still unknown to others, then the adapter.                        *)
BridgeStart(c) ==
  /\ bridged /\ asks[c] = Idle
  /\ asks' = [asks EXCEPT ![c] = [kind |-> "start", answer |-> "none"]]
  /\ UNCHANGED <<bridged, session, registry, job>>

(* The rest of it: the adapter has taken the job, or not.  The session is  *)
(* stored only now, in the place of an earlier one of the job; who waits   *)
(* with that one has it in hand, and ends one that nobody sees any more.   *)
(* Where the adapter refuses, the earlier id at the adapter stays.         *)
Submitted(c, success) ==
  /\ asks[c].kind = "start"
  /\ asks' = [d \in Clients |-> IF d # c /\ asks[d].kind = "start" THEN asks[d] ELSE Idle]
  /\ job' = IF success THEN "running" ELSE IF job = "none" THEN "refused" ELSE job
  /\ LET said == IF success THEN 2 ELSE 1 IN
     /\ turns' = [n \in {k \in 1..said : k <= MaxTurns} |-> Other]
     /\ state' = IF success /\ said <= MaxTurns THEN "running" ELSE "failed"
  /\ UNCHANGED <<bridged, admitted, calls, registry>>

(* poll and interrupt, up to their await.                                  *)
Ask(c, kind) ==
  /\ bridged /\ state # "none" /\ job # "refused" /\ asks[c] = Idle
  /\ asks' = [asks EXCEPT ![c] = [kind |-> kind, answer |-> "none"]]
  /\ UNCHANGED <<bridged, session, registry, job>>

(* A job that was refused has no id at the adapter.                        *)
PollWithoutJob ==
  /\ bridged /\ job = "refused" /\ state' = "failed"
  /\ UNCHANGED <<bridged, turns, admitted, calls, registry, job, asks>>

InterruptWithoutJob ==
  /\ bridged /\ job = "refused" /\ state' = "interrupted"
  /\ UNCHANGED <<bridged, turns, admitted, calls, registry, job, asks>>

(* The adapter looks at the job, or tries to cancel it; its answer comes   *)
(* later.                                                                  *)
AdapterAnswers(c) ==
  /\ asks[c].kind \in {"poll", "interrupt"} /\ asks[c].answer = "none"
  /\ \/ UNCHANGED job
     \/ asks[c].kind = "interrupt" /\ job = "running" /\ job' = "cancelled"
  /\ asks' = [asks EXCEPT ![c].answer = job']
  /\ UNCHANGED <<bridged, session, registry>>

JobEnds(how) ==
  /\ job = "running" /\ job' = how
  /\ UNCHANGED <<bridged, session, registry, asks>>

Outcome == [succeeded |-> "completed", cancelled |-> "interrupted", failed |-> "failed"]

(* The rest of poll; a session that has ended takes no turn any more.      *)
Polled(c) ==
  /\ asks[c].kind = "poll" /\ asks[c].answer # "none"
  /\ IF asks[c].answer = "running"
       THEN IF state = "running" THEN Sent(<<>>) ELSE UNCHANGED <<state, turns, calls>>
       ELSE state' = Outcome[asks[c].answer] /\ UNCHANGED <<turns, calls>>
  /\ asks' = [asks EXCEPT ![c] = Idle]
  /\ UNCHANGED <<bridged, admitted, registry, job>>

(* The rest of interrupt.                                                  *)
Interrupted(c) ==
  /\ asks[c].kind = "interrupt" /\ asks[c].answer # "none"
  /\ state' = "interrupted" /\ asks' = [asks EXCEPT ![c] = Idle]
  /\ UNCHANGED <<bridged, turns, admitted, calls, registry, job>>

-----------------------------------------------------------------------------
Init ==
  /\ bridged \in BOOLEAN /\ state = IF bridged THEN "none" ELSE "created"
  /\ turns = <<>> /\ admitted = <<>> /\ calls = 0 /\ tools = {1} /\ issued = 1
  /\ job = "none" /\ asks = [c \in Clients |-> Idle]

OwnerNext ==
  \/ Start \/ PromoteAdmittedInputs \/ Register
  \/ \E i \in Inputs, d \in {"steer", "queue"} : AdmitInput(i, d)
  \/ \E first, second \in 0..MaxRegistrations :
       Send(<<>>) \/ Send(<<first>>) \/ Send(<<first, second>>)
  \/ \E how \in Ended : End(how)
  \/ \E r \in 1..MaxRegistrations : CloseRegistration(r)

BridgeNext ==
  \/ \E c \in Clients :
       \/ BridgeStart(c) \/ AdapterAnswers(c) \/ Polled(c) \/ Interrupted(c)
       \/ \E success \in BOOLEAN : Submitted(c, success)
       \/ \E kind \in {"poll", "interrupt"} : Ask(c, kind)
  \/ PollWithoutJob \/ InterruptWithoutJob
  \/ \E how \in {"succeeded", "failed", "cancelled"} : JobEnds(how)

Next == OwnerNext \/ BridgeNext

Spec == Init /\ [][Next]_vars

-----------------------------------------------------------------------------
(* Every input becomes a turn at most once, and just when it is promoted,  *)
(* however often it was sent (admitInput, promoteAdmittedInputs).          *)
InputsArriveOnce ==
  /\ \A j, k \in DOMAIN admitted : admitted[j].id = admitted[k].id => j = k
  /\ \A k \in DOMAIN admitted :
       admitted[k].promoted <=> \E n \in DOMAIN turns : turns[n] = admitted[k].id
  /\ \A m, n \in DOMAIN turns :
       turns[m] = Other \/ (Known(turns[m]) /\ (turns[m] = turns[n] => m = n))

(* Queued inputs take their turns first in, first out, whatever is steered *)
(* between them (WR-REQ-001A).  Nothing is said of a steered input, which  *)
(* promoteAdmittedInputs leaves behind a queued one.                       *)
QueueIsFifo ==
  \A j, k \in DOMAIN admitted :
    j < k /\ admitted[j].delivery = "queue" /\ admitted[k].delivery = "queue"
          /\ admitted[k].promoted
      => /\ admitted[j].promoted
         /\ \A m, n \in DOMAIN turns :
              turns[m] = admitted[j].id /\ turns[n] = admitted[k].id => m < n

(* What is sent keeps within the policy (send); promotion, which does not  *)
(* look at max_turns, is not what this speaks of.                          *)
LimitsAreKept ==
  /\ calls <= MaxCalls
  /\ \A n \in DOMAIN turns : turns[n] = Other => n <= MaxTurns

(* A job whose session is completed has succeeded, though interruptions    *)
(* and polls answer late and in any order, and the job is started again    *)
(* meanwhile (the bridge).                                                 *)
CompletedJobSucceeded == bridged /\ state = "completed" => job = "succeeded"

(* What the runtime promises of a session.                                 *)
SessionIsOrderly ==
  InputsArriveOnce /\ QueueIsFifo /\ LimitsAreKept /\ CompletedJobSucceeded
=============================================================================
