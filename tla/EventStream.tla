----------------------------- MODULE EventStream -----------------------------
(***************************************************************************)
(* What a session of the OpenCode server says while a job runs in it, and  *)
(* what of it reaches the job's result: the run request, the poll for its  *)
(* completion, the event ingestor and the conversion of the serve adapter. *)
(* A permission a worker asked for must not be dropped on the way.         *)
(***************************************************************************)
EXTENDS Naturals, Sequences

CONSTANTS
  Items,       \* what a session may say: type, tool, destructive, secret, path
  MaxItems     \* bound on what it says

VARIABLES
  log,         \* what the session has said
  session,     \* its status at the server
  at,          \* runInSession: asking, polling, ended, reported
  stream,      \* the events of the job's container
  success,     \* the outcome of the run
  heard,       \* history: the output of the finished session was fetched
  result       \* requested_escalations of the worker's result

vars == <<log, session, at, stream, success, heard, result>>

-----------------------------------------------------------------------------
(* parseTranscriptItem: the types and their short names. *)
Aliases == [permission |-> "permission_request", tool |-> "tool_use", message |-> "transcript",
            lifecycle |-> "session_lifecycle", completion |-> "execution_completion",
            out |-> "stdout", err |-> "stderr"]
Types == {Aliases[a] : a \in DOMAIN Aliases}

(* Mutant: permissions go by their long name only. *)
ParsedLong(item) ==
  [item EXCEPT !.type = IF @ \in DOMAIN Aliases \ {"permission"} THEN Aliases[@]
                        ELSE IF @ \in Types THEN @ ELSE "stdout"]

Parsed(item) ==
  [item EXCEPT !.type = IF @ \in DOMAIN Aliases THEN Aliases[@]
                        ELSE IF @ \in Types THEN @ ELSE "stdout"]

(* parseTranscriptJson; text that is no JSON is one stdout event. *)
Events(transcript) == [i \in DOMAIN transcript |-> Parsed(transcript[i])]

Writes == {"write", "edit", "create"}

(* What the names tell: of a path that it leads out of the workspace (one  *)
(* that climbs by .. counts as inside), is protected or holds a secret.    *)
InWorkspace(path)   == path \in {"relative", "parent", "home", "keyfile", "envfile"}
ProtectedPath(path) == path \in {"system", "keyfile", "envfile"}
SecretAccess(e)     == e.secret \/ e.path = "envfile"

(* normalizePermissionRequest: the first rule that fits.                   *)
EscalationKind(e) ==
  CASE e.tool = "webfetch"                                -> "network_access"
    [] e.tool = "bash" /\ e.destructive                   -> "destructive_tool"
    [] SecretAccess(e)                                    -> "secret_access"
    [] e.tool \in Writes /\ ~InWorkspace(e.path)          -> "workspace_outside_write"
    [] e.tool \in Writes /\ ProtectedPath(e.path)         -> "protected_path_write"
    [] OTHER                                              -> "human_verdict"

(* ingestSingleEvent and extractEscalations; their order does not matter.  *)
Requests(events) == {e \in {events[i] : i \in DOMAIN events} : e.type = "permission_request"}
Escalations(events) == {[kind |-> EscalationKind(e), raw |-> e] : e \in Requests(events)}

-----------------------------------------------------------------------------
Say(item) ==
  /\ session = "running" /\ Len(log) < MaxItems /\ log' = Append(log, item)
  /\ UNCHANGED <<session, at, stream, success, heard, result>>

SessionEnds ==
  /\ session = "running" /\ session' \in {"completed", "failed"}
  /\ UNCHANGED <<log, at, stream, success, heard, result>>

(* runInSession: a refusal or a time-out; or an answer with a transcript,  *)
(* which may be empty while the session runs.                              *)
RunFails ==
  /\ at = "asking" /\ at' = "ended" /\ success' = FALSE
  /\ UNCHANGED <<log, session, stream, heard, result>>

RunAnswers ==
  /\ at = "asking"
  /\ \E transcript \in {log} \union (IF session = "running" THEN {<<>>} ELSE {}) :
       stream' = stream \o Events(transcript)
  /\ at' = (IF session = "running" THEN "polling" ELSE "ended")
  /\ success' = (session = "completed") /\ heard' = (session # "running")
  /\ UNCHANGED <<log, session, result>>

(* pollForCompletion: the session is gone, has failed or takes too long.   *)
PollFails ==
  /\ at = "polling" /\ at' = "ended" /\ success' = FALSE
  /\ UNCHANGED <<log, session, stream, heard, result>>

(* It has completed: its whole transcript is added to what was heard       *)
(* before.  The output may be out of reach: that is a success all the same.*)
PollCompletes ==
  /\ at = "polling" /\ session = "completed"
  /\ at' = "ended" /\ success' = TRUE
  /\ \/ heard' = TRUE /\ stream' = stream \o Events(log)
     \/ UNCHANGED <<heard, stream>>
  /\ UNCHANGED <<log, session, result>>

(* convertToWorkerResult, of a success only. *)
Report ==
  /\ at = "ended" /\ success
  /\ at' = "reported" /\ result' = Escalations(stream)
  /\ UNCHANGED <<log, session, stream, success, heard>>

-----------------------------------------------------------------------------
Init ==
  /\ log = <<>> /\ session = "running" /\ at = "asking" /\ stream = <<>>
  /\ success = FALSE /\ heard = FALSE /\ result = {}

Next ==
  \/ SessionEnds \/ RunFails \/ RunAnswers \/ PollFails \/ PollCompletes \/ Report
  \/ \E item \in Items : Say(item)

Spec == Init /\ [][Next]_vars

-----------------------------------------------------------------------------
(* Whatever permission the session asked for, under either name, by the    *)
(* first answer or the last, is in the result of a job whose output was    *)
(* fetched.  If the output cannot be fetched the job succeeds without.     *)
NoRequestIsDropped ==
  at = "reported" /\ heard =>
    \A i \in DOMAIN log : log[i].type \in {"permission", "permission_request"} =>
      \E escalation \in result : escalation.raw = [log[i] EXCEPT !.type = "permission_request"]
=============================================================================
