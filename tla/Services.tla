------------------------------ MODULE Services -------------------------------
(***************************************************************************)
(* Components around the store, for their safety: the locks and versions   *)
(* of tasks, the sessions of the OpenCode server, what a session says, the *)
(* records that agent-taskstate keeps of a task, the entities and          *)
(* documents a task refers to, the sessions of the worker runtime.         *)
(* They do not interact: a behaviour explores one, chosen at the start.    *)
(***************************************************************************)
EXTENDS ResourceLocks

CONSTANTS
  Sessions, Workers, Kind, MaxErrors,                      \* sessions
  Said, MaxSaid,                                           \* events
  Clients,                                                 \* records, links, runtime
  Attachments, Targets, MaxRecordOps,                      \* records
  Entities, MaxLinkOps, MaxDocVersion,                     \* links, documents
  Inputs, MaxTurns, MaxCalls, MaxRegistrations             \* runtime

VARIABLES
  part,
  sessions, born, run,                                   \* sessions
  log, session, at, stream, success, heard, result,      \* events
  task, listed, records, items, index, op, begun, past,   \* records
  bridged, state, turns, admitted, calls, tools, issued, job, asks,   \* runtime
  links, tables, refs, resolver, doc, asked, made, started, settled   \* links, documents

pooling == <<sessions, born, run>>
hearing == <<log, session, at, stream, success, heard, result>>
recording == <<task, listed, records, items, index, op, begun, past>>
referring == <<links, tables, refs, resolver, doc, asked, made, started, settled>>
running == <<bridged, state, turns, admitted, calls, tools, issued, job, asks>>

Pool == INSTANCE SessionPool
Events == INSTANCE EventStream WITH Items <- Said, MaxItems <- MaxSaid
Records == INSTANCE TaskRecords WITH Items <- Attachments, MaxOps <- MaxRecordOps
Links == INSTANCE TaskReferences WITH
  MaxOps <- MaxLinkOps, MaxVersion <- MaxDocVersion,
  index <- tables, op <- asked, born <- made, begun <- started
Runtime == INSTANCE WorkerRuntime

(* The list of a task and those of entities are under different keys. *)
ASSUME LinksAssumption == Links!Local \notin Entities /\ MaxDocVersion \in Nat

(* null is the id of no job. *)
ASSUME NoneIsNoWorker == None \notin Workers

(* The limits of a policy are numbers, a session may speak at all, and no  *)
(* input is called other.                                                  *)
ASSUME RuntimeAssumption ==
  Runtime!Other \notin Inputs /\ MaxTurns \in Nat \ {0} /\ MaxCalls \in Nat

(* Whatever a session says, it has a type. *)
ASSUME SaidAssumption == \A item \in Said : "type" \in DOMAIN item

AllInit ==
  /\ part \in {"locks", "sessions", "events", "records", "links", "documents", "runtime"}
  /\ Init /\ Pool!Init /\ Events!Init
  /\ Records!Init /\ Links!Init /\ Runtime!Init

AllNext ==
  /\ UNCHANGED part
  /\ \/ part = "locks" /\ Next
        /\ UNCHANGED <<pooling, hearing, recording, referring, running>>
     \/ part = "sessions" /\ Pool!Next
        /\ UNCHANGED <<vars, hearing, recording, referring, running>>
     \/ part = "events" /\ Events!Next
        /\ UNCHANGED <<vars, pooling, recording, referring, running>>
     \/ part = "records" /\ Records!Next
        /\ UNCHANGED <<vars, pooling, hearing, referring, running>>
     \/ part = "links" /\ Links!LinkNext
        /\ UNCHANGED <<vars, pooling, hearing, recording, running>>
     \/ part = "documents" /\ Links!ReadNext
        /\ UNCHANGED <<vars, pooling, hearing, recording, running>>
     \/ part = "runtime" /\ Runtime!Next
        /\ UNCHANGED <<vars, pooling, hearing, recording, referring>>

all == <<part, vars, pooling, hearing, recording, referring, running>>

AllSpec == AllInit /\ [][AllNext]_all

(* Jobs within their leases never share a session (SessionPool). *)
InTimeJobsAreAlone == Pool!InTimeJobsAreAlone

(* What waits in the warm pool is free and healthy (SessionPool). *)
PooledSessionsAreFree == Pool!PooledSessionsAreFree

(* Every permission a session asked for is in the result (EventStream). *)
NoRequestIsDropped == Events!NoRequestIsDropped

(* The history of a task keeps up with its status, and a deletion leaves   *)
(* nothing of it behind (TaskRecords).                                     *)
RecordsAreKept == Records!RecordsAreKept

(* Links are kept by what links and unlinks later (TaskReferences).        *)
LinksAreKept == Links!LinksAreKept

(* Acknowledgements are kept by the checks that follow (TaskReferences).   *)
AcknowledgedIsKnown == Links!AcknowledgedIsKnown

(* Inputs, limits and the end of a runtime session (WorkerRuntime).        *)
SessionIsOrderly == Runtime!SessionIsOrderly
=============================================================================
