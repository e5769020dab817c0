----------------------------- MODULE TaskRecords -----------------------------
(***************************************************************************)
(* The package agent-taskstate-js over Redis: one task with its history of *)
(* transitions and its items (decisions, questions and runs, which are     *)
(* kept alike).  Every request to Redis is a step; clients interleave and  *)
(* may fail between two steps.  The revision, which nothing compares, and  *)
(* context bundles are left out.                                           *)
(***************************************************************************)
EXTENDS Naturals

CONSTANTS
  Clients,
  Items,       \* ids of decisions, questions, runs
  Targets,     \* the states that are asked for
  MaxOps       \* bound on the operations that begin

VARIABLES
  task,        \* its status; unborn before it is created, none when deleted
  listed,      \* it is a member of the list of tasks
  records,     \* its transitions
  items,       \* unborn, open, settled, dropped; none when deleted
  index,       \* the items in the index of the task
  op,          \* what each client is doing, how far it is, what it has
               \* read, and the items it has left to delete
  begun,       \* how many operations have begun
  past         \* history: whether an operation failed, or met a deletion

vars == <<task, listed, records, items, index, op, begun, past>>

-----------------------------------------------------------------------------
ValidTransitions ==
  [proposed    |-> {"proposed", "ready", "in_progress", "blocked", "review", "cancelled"},
   ready       |-> {"ready", "proposed", "in_progress", "blocked", "review", "cancelled"},
   in_progress |-> {"in_progress", "proposed", "ready", "blocked", "review", "done", "cancelled"},
   blocked     |-> {"blocked", "proposed", "ready", "in_progress", "review", "cancelled"},
   review      |-> {"review", "proposed", "ready", "in_progress", "blocked", "done", "cancelled"},
   done        |-> {"done", "review", "in_progress"},
   cancelled   |-> {"cancelled", "proposed", "ready"}]

Statuses == DOMAIN ValidTransitions
IsValidTransition(from, to) == to \in ValidTransitions[from]

Exists(i) == items[i] \in {"open", "settled", "dropped"}
Idle == [kind |-> "idle", at |-> "start", seen |-> "none", of |-> "none", left |-> {}]

Doing(c, kind, at) == op[c].kind = kind /\ op[c].at = at
At(c, at)   == op' = [op EXCEPT ![c].at = at]
Finish(c)   == op' = [op EXCEPT ![c] = Idle]

(* An operation begins: it shares its time with a deletion, or it is one.  *)
Begin(c, kind, at, seen, of) ==
  /\ op[c] = Idle /\ begun < MaxOps /\ begun' = begun + 1
  /\ op' = [op EXCEPT ![c] = [kind |-> kind, at |-> at, seen |-> seen, of |-> of, left |-> {}]]
  /\ past' = past \union
       {"overlap" : d \in {x \in Clients \ {c} : op[x] # Idle /\ "delete" \in {kind, op[x].kind}}}

Fail(c) ==
  /\ op[c] # Idle /\ Finish(c) /\ past' = past \union {"failure"}
  /\ UNCHANGED <<task, listed, records, items, index, begun>>

-----------------------------------------------------------------------------
(* propose: the task, its place in the list, its first transition.         *)
Propose(c) ==
  /\ task = "unborn" /\ \A d \in Clients : op[d].kind # "propose"
  /\ Begin(c, "propose", "set", "none", "none")
  /\ UNCHANGED <<task, listed, records, items, index>>

Proposed(c) ==
  \/ /\ Doing(c, "propose", "set") /\ task' = "proposed" /\ At(c, "list")
     /\ UNCHANGED <<listed, records, items, index, begun, past>>
  \/ /\ Doing(c, "propose", "list") /\ listed' = TRUE /\ At(c, "record")
     /\ UNCHANGED <<task, records, items, index, begun, past>>
  \/ /\ Doing(c, "propose", "record") /\ Finish(c)
     /\ records' = records \union {[from |-> "none", to |-> "proposed"]}
     /\ UNCHANGED <<task, listed, items, index, begun, past>>

(* Mutant: the transition of a task that stays open is not recorded.       *)
TransitionUnrecorded(c, to) ==
  /\ task \in Statuses /\ IsValidTransition(task, to)
  /\ Begin(c, "transition", IF to \in {"done", "cancelled"} THEN "record" ELSE "write", task, to)
  /\ UNCHANGED <<task, listed, records, items, index>>

(* transition: the task is read and the request checked, then the          *)
(* transition is stored, then the task.                                    *)
Transition(c, to) ==
  /\ task \in Statuses /\ IsValidTransition(task, to)
  /\ Begin(c, "transition", "record", task, to)
  /\ UNCHANGED <<task, listed, records, items, index>>

AddTransition(c) ==
  /\ Doing(c, "transition", "record") /\ At(c, "write")
  /\ records' = records \union {[from |-> op[c].seen, to |-> op[c].of]}
  /\ UNCHANGED <<task, listed, items, index, begun, past>>

(* updateTask of the service keeps the status it has read.                 *)
UpdateTask(c) ==
  /\ task \in Statuses
  /\ Begin(c, "update", "write", task, task)
  /\ UNCHANGED <<task, listed, records, items, index>>

(* updateTask of the backend, after either: whatever is stored now.        *)
WriteTask(c) ==
  /\ Doing(c, "transition", "write") \/ Doing(c, "update", "write")
  /\ task' = op[c].of /\ Finish(c)
  /\ UNCHANGED <<listed, records, items, index, begun, past>>

-----------------------------------------------------------------------------
(* createDecision, createQuestion, startRun; the item and its index.       *)
CreateItem(c, i) ==
  /\ task \in Statuses /\ items[i] = "unborn" /\ \A d \in Clients : op[d].of # i
  /\ Begin(c, "create", "set", "none", i)
  /\ UNCHANGED <<task, listed, records, items, index>>

StoreItem(c) ==
  \/ /\ Doing(c, "create", "set") /\ At(c, "index")
     /\ items' = [items EXCEPT ![op[c].of] = "open"]
     /\ UNCHANGED <<task, listed, records, index, begun, past>>
  \/ /\ Doing(c, "create", "index") /\ Finish(c)
     /\ index' = index \union {op[c].of}
     /\ UNCHANGED <<task, listed, records, items, begun, past>>

(* resolveDecision, answerQuestion, finishRun settle an item; reject,      *)
(* defer, fail drop it.  Neither looks at its status.                      *)
ResolveItem(c, i, outcome) ==
  /\ Exists(i)
  /\ Begin(c, "resolve", "write", outcome, i)
  /\ UNCHANGED <<task, listed, records, items, index>>

WriteItem(c) ==
  /\ Doing(c, "resolve", "write") /\ Finish(c)
  /\ items' = [items EXCEPT ![op[c].of] = op[c].seen]
  /\ UNCHANGED <<task, listed, records, index, begun, past>>

-----------------------------------------------------------------------------
(* deleteTask: the task, its place in the list, its transitions; then the  *)
(* members of the index, one by one, and the index.                        *)
DeleteTask(c) ==
  /\ task # "unborn"
  /\ Begin(c, "delete", "task", "none", "none")
  /\ UNCHANGED <<task, listed, records, items, index>>

Deleted(c) ==
  \/ /\ Doing(c, "delete", "task") /\ task' = "none" /\ At(c, "list")
     /\ UNCHANGED <<listed, records, items, index, begun, past>>
  \/ /\ Doing(c, "delete", "list") /\ listed' = FALSE /\ At(c, "records")
     /\ UNCHANGED <<task, records, items, index, begun, past>>
  \/ /\ Doing(c, "delete", "records") /\ records' = {} /\ At(c, "items")
     /\ UNCHANGED <<task, listed, items, index, begun, past>>

DeleteItems(c) ==
  \/ /\ Doing(c, "delete", "items")
     /\ op' = [op EXCEPT ![c].at = "item", ![c].left = index]
     /\ UNCHANGED <<task, listed, records, items, index, begun, past>>
  \/ /\ Doing(c, "delete", "item") /\ op[c].left # {}
     /\ \E i \in op[c].left :
          /\ items' = [items EXCEPT ![i] = "none"]
          /\ op' = [op EXCEPT ![c].left = @ \ {i}]
     /\ UNCHANGED <<task, listed, records, index, begun, past>>
  \/ /\ Doing(c, "delete", "item") /\ op[c].left = {} /\ index' = {} /\ Finish(c)
     /\ UNCHANGED <<task, listed, records, items, begun, past>>

-----------------------------------------------------------------------------
Init ==
  /\ task = "unborn" /\ listed = FALSE /\ records = {} /\ index = {} /\ begun = 0 /\ past = {}
  /\ items = [i \in Items |-> "unborn"] /\ op = [c \in Clients |-> Idle]

Next ==
  \E c \in Clients :
    \/ Propose(c) \/ Proposed(c) \/ AddTransition(c) \/ UpdateTask(c) \/ WriteTask(c)
    \/ StoreItem(c) \/ WriteItem(c) \/ DeleteTask(c) \/ Deleted(c) \/ DeleteItems(c) \/ Fail(c)
    \/ \E to \in Targets : Transition(c, to)
    \/ \E i \in Items : CreateItem(c, i) \/ \E o \in {"settled", "dropped"} : ResolveItem(c, i, o)

Spec == Init /\ [][Next]_vars

-----------------------------------------------------------------------------
(* The history knows every status a task takes, whoever writes it back and *)
(* wherever an operation fails, unless it met a deletion.                  *)
StatusIsRecorded ==
  task \in Statuses \ {"proposed"} /\ "overlap" \notin past
    => \E r \in records : r.to = task

(* A deletion that met nobody leaves nothing, if nothing failed before.    *)
DeletedLeavesNothing ==
  task = "none" /\ past = {} /\ (\A c \in Clients : op[c] = Idle)
    => ~listed /\ records = {} /\ index = {} /\ \A i \in Items : ~Exists(i)

(* What the package promises of a task and what belongs to it.             *)
RecordsAreKept == StatusIsRecorded /\ DeletedLeavesNothing
=============================================================================
