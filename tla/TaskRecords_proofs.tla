-------------------------- MODULE TaskRecords_proofs --------------------------
(***************************************************************************)
(* RecordsAreKept holds of TaskRecords for any clients and items.  The     *)
(* invariant has two parts.  While no operation has met a deletion, the    *)
(* history knows the status of the task and whatever is about to be        *)
(* written over it (Recorded), because a deletion that wipes the history   *)
(* is alone and has taken the task away before (Alone, Wiped).  While      *)
(* nothing has failed either, every item can be reached through the index  *)
(* or by the client that is creating it (Reached), a deletion has emptied  *)
(* all it has passed (Passed) and a deleted task is empty (Emptied).       *)
(***************************************************************************)
EXTENDS TaskRecords, TLAPS

Kinds == {"idle", "propose", "transition", "update", "create", "resolve", "delete"}

Places == {"start", "set", "list", "record", "write", "index", "task", "records", "items", "item"}

Operation ==
  [kind : Kinds,
   at   : Places,
   seen : Statuses \union {"none", "settled", "dropped"},
   of   : Statuses \union {"none"} \union Items,
   left : SUBSET Items]

Fitting ==
  \A c \in Clients :
    /\ op[c].kind \in {"transition", "update"} => op[c].of \in Statuses
    /\ op[c].kind \in {"create", "resolve"} => op[c].of \in Items
    /\ op[c].kind = "resolve" => op[c].seen \in {"settled", "dropped"}

TypeOK ==
  /\ task \in Statuses \union {"unborn", "none"}
  /\ listed \in BOOLEAN
  /\ items \in [Items -> {"unborn", "open", "settled", "dropped", "none"}]
  /\ index \subseteq Items
  /\ op \in [Clients -> Operation]
  /\ past \subseteq {"overlap", "failure"}
  /\ Fitting

Known(s) == s = "proposed" \/ \E r \in records : r.to = s

Writing(c) == op[c].kind = "update" \/ Doing(c, "transition", "write")

Alone ==
  \A c, d \in Clients : c # d /\ op[c].kind = "delete" => op[d].kind = "idle"

Wiped == \A c \in Clients : op[c].kind = "delete" /\ op[c].at # "task" => task = "none"

Recorded ==
  /\ task \in Statuses => Known(task)
  /\ \A c \in Clients : Writing(c) => Known(op[c].of)

Reached ==
  \A i \in Items : Exists(i) => i \in index \/ \E c \in Clients : Doing(c, "create", "index") /\ op[c].of = i

Resolved == \A c \in Clients : op[c].kind = "resolve" => Exists(op[c].of)

Empty == ~listed /\ records = {} /\ index = {} /\ \A i \in Items : ~Exists(i)

Passed ==
  \A c \in Clients : op[c].kind = "delete" =>
    /\ op[c].at \in {"records", "items", "item"} => ~listed
    /\ op[c].at \in {"items", "item"} => records = {}
    /\ op[c].at = "item" => \A i \in Items : Exists(i) => i \in op[c].left
    /\ op[c].at = "task" /\ task = "none" => Empty

Emptied ==
  /\ task = "none" /\ (\A c \in Clients : op[c].kind # "delete") => Empty
  /\ \A c \in Clients : op[c].kind \notin {"idle", "delete"} => task # "none"

Safe  == Alone /\ Wiped /\ Recorded
Clean == Reached /\ Resolved /\ Passed /\ Emptied

RecordsInv ==
  /\ TypeOK
  /\ "overlap" \notin past => Safe
  /\ past = {} => Clean

-----------------------------------------------------------------------------
(* The statuses, and that a valid transition leads to one of them          *)
(* (VALID_TRANSITIONS).                                                    *)
LEMMA StatusFacts ==
  /\ Statuses = {"proposed", "ready", "in_progress", "blocked", "review", "done", "cancelled"}
  /\ \A s \in Statuses : \A t : IsValidTransition(s, t) => t \in Statuses
  BY DEF Statuses, ValidTransitions, IsValidTransition

(* What Begin does to the type of the state: the operation is the only     *)
(* one that changes.                                                       *)
LEMMA BeginType ==
  ASSUME TypeOK, NEW c \in Clients, NEW kind \in Kinds, NEW at, NEW seen, NEW of,
         Begin(c, kind, at, seen, of),
         [kind |-> kind, at |-> at, seen |-> seen, of |-> of, left |-> {}] \in Operation,
         kind \in {"transition", "update"} => of \in Statuses,
         kind \in {"create", "resolve"} => of \in Items,
         kind = "resolve" => seen \in {"settled", "dropped"},
         UNCHANGED <<task, listed, records, items, index>>
  PROVE  TypeOK'
  <1>1. /\ op' \in [Clients -> Operation]
        /\ \A d \in Clients \ {c} : op'[d] = op[d]
        /\ op'[c] = [kind |-> kind, at |-> at, seen |-> seen, of |-> of, left |-> {}]
    BY DEF TypeOK, Begin
  <1>2. past' \subseteq {"overlap", "failure"}
    BY DEF TypeOK, Begin
  <1>3. Fitting'
    BY <1>1 DEF TypeOK, Fitting
  <1> QED BY <1>1, <1>2, <1>3 DEF TypeOK

(* What a request that advances an operation does to the operations.       *)
LEMMA AtMoves ==
  ASSUME TypeOK, NEW c \in Clients, NEW at \in Places, At(c, at)
  PROVE  /\ op' \in [Clients -> Operation] /\ Fitting'
         /\ \A d \in Clients \ {c} : op'[d] = op[d]
         /\ op'[c].kind = op[c].kind /\ op'[c].at = at /\ op'[c].left = op[c].left
         /\ op'[c].seen = op[c].seen /\ op'[c].of = op[c].of
  <1>1. op[c] \in Operation /\ op \in [Clients -> Operation]
    BY DEF TypeOK
  <1>2. [op[c] EXCEPT !.at = at] \in Operation
    BY <1>1 DEF Operation
  <1>3. op' = [op EXCEPT ![c] = [op[c] EXCEPT !.at = at]]
    BY DEF At
  <1>4. op' \in [Clients -> Operation] /\ op'[c] = [op[c] EXCEPT !.at = at]
    BY <1>1, <1>2, <1>3
  <1>5. \A d \in Clients \ {c} : op'[d] = op[d]
    BY <1>1, <1>3
  <1>6. /\ op'[c].kind = op[c].kind /\ op'[c].at = at /\ op'[c].left = op[c].left
        /\ op'[c].seen = op[c].seen /\ op'[c].of = op[c].of
    BY <1>1, <1>4 DEF Operation
  <1>7. Fitting'
    BY <1>5, <1>6 DEF TypeOK, Fitting
  <1> QED BY <1>4, <1>5, <1>6, <1>7

(* What the end of an operation does to the operations.                    *)
LEMMA FinishMoves ==
  ASSUME TypeOK, NEW c \in Clients, Finish(c)
  PROVE  /\ op' \in [Clients -> Operation] /\ Fitting'
         /\ \A d \in Clients \ {c} : op'[d] = op[d]
         /\ op'[c].kind = "idle"
  <1>1. /\ op' \in [Clients -> Operation]
        /\ \A d \in Clients \ {c} : op'[d] = op[d]
        /\ op'[c].kind = "idle"
    BY DEF TypeOK, Finish, Idle, Operation, Kinds, Places
  <1> QED BY <1>1 DEF TypeOK, Fitting

(* What the deletion of the items does to the operations.                  *)
LEMMA LeftMoves ==
  ASSUME TypeOK, NEW c \in Clients, NEW at \in Places, NEW left \in SUBSET Items,
         op' = [op EXCEPT ![c].at = at, ![c].left = left]
  PROVE  /\ op' \in [Clients -> Operation] /\ Fitting'
         /\ \A d \in Clients \ {c} : op'[d] = op[d]
         /\ op'[c].kind = op[c].kind /\ op'[c].at = at /\ op'[c].left = left
         /\ op'[c].seen = op[c].seen /\ op'[c].of = op[c].of
  <1>1. op[c] \in Operation /\ op \in [Clients -> Operation]
    BY DEF TypeOK
  <1>2. [op[c] EXCEPT !.at = at, !.left = left] \in Operation
    BY <1>1 DEF Operation
  <1>3. op' = [op EXCEPT ![c] = [op[c] EXCEPT !.at = at, !.left = left]]
    BY <1>1
  <1>4. op' \in [Clients -> Operation] /\ op'[c] = [op[c] EXCEPT !.at = at, !.left = left]
    BY <1>1, <1>2, <1>3
  <1>5. \A d \in Clients \ {c} : op'[d] = op[d]
    BY <1>1, <1>3
  <1>6. /\ op'[c].kind = op[c].kind /\ op'[c].at = at /\ op'[c].left = left
        /\ op'[c].seen = op[c].seen /\ op'[c].of = op[c].of
    BY <1>1, <1>4 DEF Operation
  <1>7. Fitting'
    BY <1>5, <1>6 DEF TypeOK, Fitting
  <1> QED BY <1>4, <1>5, <1>6, <1>7

(* An operation that begins without meeting a deletion: nothing of the     *)
(* kind has happened before, and who is not idle goes on with it alone.    *)
LEMMA BeginAlone ==
  ASSUME TypeOK, NEW c \in Clients, NEW kind, NEW at, NEW seen, NEW of,
         Begin(c, kind, at, seen, of), "overlap" \notin past'
  PROVE  /\ "overlap" \notin past
         /\ past' = past
         /\ op[c].kind = "idle"
         /\ op'[c] = [kind |-> kind, at |-> at, seen |-> seen, of |-> of, left |-> {}]
         /\ \A d \in Clients \ {c} : op'[d] = op[d]
         /\ \A d \in Clients \ {c} : "delete" \in {kind, op[d].kind} => op[d].kind = "idle"
  <1>1. past \subseteq past'
    BY DEF Begin
  <1>2. {d \in Clients \ {c} : op[d] # Idle /\ "delete" \in {kind, op[d].kind}} = {}
    BY DEF Begin
  <1>3. past' = past
    BY <1>2 DEF Begin
  <1>4. op[c].kind = "idle"
    BY DEF Begin, Idle
  <1>5. /\ op'[c] = [kind |-> kind, at |-> at, seen |-> seen, of |-> of, left |-> {}]
        /\ \A d \in Clients \ {c} : op'[d] = op[d]
    BY DEF TypeOK, Begin
  <1>6. \A d \in Clients \ {c} : "delete" \in {kind, op[d].kind} => op[d].kind = "idle"
    BY <1>2 DEF Idle
  <1> QED BY <1>1, <1>3, <1>4, <1>5, <1>6

-----------------------------------------------------------------------------
(* The type of the state holds when TaskRecords starts.                    *)
LEMMA InitType == Init => TypeOK
  <1> SUFFICES ASSUME Init PROVE TypeOK
    OBVIOUS
  <1>1. Idle \in Operation /\ Idle.kind = "idle"
    BY DEF Idle, Operation, Kinds, Places
  <1>2. op \in [Clients -> Operation] /\ \A c \in Clients : op[c].kind = "idle"
    BY <1>1 DEF Init
  <1>3. Fitting
    BY <1>2 DEF Fitting
  <1> QED BY <1>2, <1>3 DEF Init, TypeOK

(* Every operation of a client on the store keeps the type of the state.   *)
LEMMA TypeStep ==
  ASSUME TypeOK, [Next]_vars
  PROVE  TypeOK'
  <1> USE StatusFacts
  <1>1. ASSUME NEW c \in Clients, Propose(c) PROVE TypeOK'
    BY <1>1, BeginType DEF Propose, Operation, Kinds, Places
  <1>2. ASSUME NEW c \in Clients, Proposed(c) PROVE TypeOK'
    BY <1>2, AtMoves, FinishMoves DEF Proposed, Doing, TypeOK, Places
  <1>3. ASSUME NEW c \in Clients, NEW to \in Targets, Transition(c, to) PROVE TypeOK'
    <2>1. to \in Statuses /\ task \in Statuses
      BY <1>3 DEF Transition
    <2> QED BY <1>3, <2>1, BeginType DEF Transition, Operation, Kinds, Places
  <1>4. ASSUME NEW c \in Clients, AddTransition(c) PROVE TypeOK'
    BY <1>4, AtMoves, FinishMoves DEF AddTransition, Doing, TypeOK, Places
  <1>5. ASSUME NEW c \in Clients, UpdateTask(c) PROVE TypeOK'
    BY <1>5, BeginType DEF UpdateTask, Operation, Kinds, Places
  <1>6. ASSUME NEW c \in Clients, WriteTask(c) PROVE TypeOK'
    BY <1>6, AtMoves, FinishMoves DEF WriteTask, Doing, TypeOK, Fitting, Places
  <1>7. ASSUME NEW c \in Clients, NEW i \in Items, CreateItem(c, i) PROVE TypeOK'
    BY <1>7, BeginType DEF CreateItem, Operation, Kinds, Places
  <1>8. ASSUME NEW c \in Clients, StoreItem(c) PROVE TypeOK'
    BY <1>8, AtMoves, FinishMoves DEF StoreItem, Doing, TypeOK, Fitting, Places
  <1>9. ASSUME NEW c \in Clients, NEW i \in Items, NEW o \in {"settled", "dropped"},
               ResolveItem(c, i, o)
        PROVE  TypeOK'
    BY <1>9, BeginType DEF ResolveItem, Operation, Kinds, Places
  <1>10. ASSUME NEW c \in Clients, WriteItem(c) PROVE TypeOK'
    BY <1>10, AtMoves, FinishMoves DEF WriteItem, Doing, TypeOK, Fitting, Places
  <1>11. ASSUME NEW c \in Clients, DeleteTask(c) PROVE TypeOK'
    BY <1>11, BeginType DEF DeleteTask, Operation, Kinds, Places
  <1>12. ASSUME NEW c \in Clients, Deleted(c) PROVE TypeOK'
    BY <1>12, AtMoves, FinishMoves DEF Deleted, Doing, TypeOK, Places
  <1>13. ASSUME NEW c \in Clients, DeleteItems(c) PROVE TypeOK'
    <2>1. CASE Doing(c, "delete", "items") /\ op' = [op EXCEPT ![c].at = "item", ![c].left = index]
               /\ UNCHANGED <<task, listed, records, items, index, begun, past>>
      <3>1. "item" \in Places /\ index \in SUBSET Items
        BY DEF TypeOK, Places
      <3>2. op' \in [Clients -> Operation] /\ Fitting'
        BY <2>1, <3>1, LeftMoves
      <3> QED BY <2>1, <3>2 DEF TypeOK
    <2>2. CASE /\ Doing(c, "delete", "item") /\ op[c].left # {}
               /\ \E i \in op[c].left :
                    /\ items' = [items EXCEPT ![i] = "none"]
                    /\ op' = [op EXCEPT ![c].left = @ \ {i}]
               /\ UNCHANGED <<task, listed, records, index, begun, past>>
      <3>1. PICK i \in op[c].left : /\ items' = [items EXCEPT ![i] = "none"]
                                    /\ op' = [op EXCEPT ![c].left = @ \ {i}]
        BY <2>2
      <3>2. op[c].left \ {i} \in SUBSET Items /\ op[c].at \in Places
        BY DEF TypeOK, Operation
      <3>3. op' = [op EXCEPT ![c].at = op[c].at, ![c].left = op[c].left \ {i}]
        BY <3>1 DEF TypeOK, Operation
      <3>4. op' \in [Clients -> Operation] /\ Fitting'
        BY <3>2, <3>3, LeftMoves
      <3>5. items' \in [Items -> {"unborn", "open", "settled", "dropped", "none"}]
        BY <3>1 DEF TypeOK
      <3> QED BY <2>2, <3>4, <3>5 DEF TypeOK
    <2>3. CASE /\ Doing(c, "delete", "item") /\ op[c].left = {} /\ index' = {} /\ Finish(c)
               /\ UNCHANGED <<task, listed, records, items, begun, past>>
      BY <2>3, FinishMoves DEF TypeOK
    <2> QED BY <1>13, <2>1, <2>2, <2>3 DEF DeleteItems
  <1>14. ASSUME NEW c \in Clients, Fail(c) PROVE TypeOK'
    BY <1>14, AtMoves, FinishMoves DEF Fail, Doing, TypeOK, Places
  <1>15. CASE UNCHANGED vars
    BY <1>15 DEF vars, TypeOK, Fitting
  <1> QED BY <1>1, <1>2, <1>3, <1>4, <1>5, <1>6, <1>7, <1>8, <1>9, <1>10, <1>11, <1>12, <1>13, <1>14, <1>15
          DEF Next

-----------------------------------------------------------------------------
(* An operation other than a deletion begins and keeps Safe if the history *)
(* knows the status it is about to write (UpdateTask, and the others).     *)
LEMMA BeginSafe ==
  ASSUME TypeOK, "overlap" \notin past => Safe, "overlap" \notin past',
         NEW c \in Clients, NEW kind, NEW at, NEW seen, NEW of,
         Begin(c, kind, at, seen, of), kind # "delete",
         kind = "update" => of = task /\ task \in Statuses,
         kind = "transition" => at # "write",
         task' = task, records' = records
  PROVE  Safe'
  <1>1. Safe
    BY BeginAlone
  <1>2. /\ op'[c] = [kind |-> kind, at |-> at, seen |-> seen, of |-> of, left |-> {}]
        /\ op[c].kind = "idle"
        /\ \A d \in Clients \ {c} : op'[d] = op[d]
        /\ \A d \in Clients \ {c} : "delete" \in {kind, op[d].kind} => op[d].kind = "idle"
    BY BeginAlone
  <1>3. /\ op[c].kind = "idle"
        /\ op'[c].kind = kind /\ op'[c].at = at /\ op'[c].of = of
        /\ \A d \in Clients \ {c} : op'[d] = op[d] /\ op[d].kind # "delete"
    BY <1>2
  <1>4. Alone' /\ Wiped'
    BY <1>1, <1>3, BeginAlone DEF Safe, Alone, Wiped
  <1>5. Recorded'
    BY <1>1, <1>3 DEF Safe, Recorded, Known, Writing, Doing
  <1> QED BY <1>4, <1>5 DEF Safe

(* A client goes on with its operation, or ends it, and keeps Safe if      *)
(* neither the task nor the history is touched.                            *)
LEMMA MoveSafe ==
  ASSUME Safe, NEW c \in Clients,
         \A d \in Clients \ {c} : op'[d] = op[d],
         \/ op'[c].kind = "idle"
         \/ /\ op'[c].kind = op[c].kind /\ op'[c].of = op[c].of
            /\ op[c].kind = "transition" => op'[c].at = op[c].at
            /\ op[c].kind = "delete" /\ op[c].at = "task" => op'[c].at = "task",
         task' = task, records' = records
  PROVE  Safe'
  <1>1. Alone'
    BY DEF Safe, Alone
  <1>2. Wiped'
    BY DEF Safe, Wiped
  <1>3. Recorded'
    BY DEF Safe, Recorded, Known, Writing, Doing
  <1> QED BY <1>1, <1>2, <1>3 DEF Safe

(* While no operation has met a deletion, the history keeps the status of  *)
(* the task and what is about to be written over it, step by step.         *)
LEMMA SafeStep ==
  ASSUME TypeOK, "overlap" \notin past => Safe, [Next]_vars, "overlap" \notin past'
  PROVE  Safe'
  <1> USE StatusFacts
  <1>1. ASSUME NEW c \in Clients, Propose(c) PROVE Safe'
    BY <1>1, BeginSafe DEF Propose
  <1>2. ASSUME NEW c \in Clients, Proposed(c) PROVE Safe'
    <2>1. "overlap" \notin past /\ op[c].kind = "propose"
      BY <1>2 DEF Proposed, Doing
    <2> QED BY <1>2, <2>1, AtMoves, FinishMoves
            DEF Proposed, Safe, Alone, Wiped, Recorded, Known, Writing, Doing, Places
  <1>3. ASSUME NEW c \in Clients, NEW to \in Targets, Transition(c, to) PROVE Safe'
    BY <1>3, BeginSafe DEF Transition
  <1>4. ASSUME NEW c \in Clients, AddTransition(c) PROVE Safe'
    <2>1. /\ "overlap" \notin past /\ op[c].kind = "transition"
          /\ \A d \in Clients \ {c} : op'[d] = op[d]
          /\ op'[c].kind = "transition" /\ op'[c].of = op[c].of
      BY <1>4, AtMoves DEF AddTransition, Doing, Places
    <2>2. /\ [from |-> op[c].seen, to |-> op[c].of] \in records'
          /\ \A s : Known(s) => Known(s)'
      BY <1>4 DEF AddTransition, Known
    <2>3. \E r \in records' : r.to = op'[c].of
      BY <2>1, <2>2
    <2>4. Alone' /\ Wiped'
      BY <1>4, <2>1 DEF AddTransition, Safe, Alone, Wiped
    <2>5. Recorded'
      BY <1>4, <2>1, <2>2, <2>3 DEF AddTransition, Safe, Recorded, Known, Writing, Doing
    <2> QED BY <2>4, <2>5 DEF Safe
  <1>5. ASSUME NEW c \in Clients, UpdateTask(c) PROVE Safe'
    BY <1>5, BeginSafe DEF UpdateTask
  <1>6. ASSUME NEW c \in Clients, WriteTask(c) PROVE Safe'
    BY <1>6, FinishMoves DEF WriteTask, Safe, Alone, Wiped, Recorded, Known, Writing, Doing
  <1>7. ASSUME NEW c \in Clients, NEW i \in Items, CreateItem(c, i) PROVE Safe'
    BY <1>7, BeginSafe DEF CreateItem
  <1>8. ASSUME NEW c \in Clients, StoreItem(c) PROVE Safe'
    BY <1>8, AtMoves, FinishMoves, MoveSafe DEF StoreItem, Doing, Places
  <1>9. ASSUME NEW c \in Clients, NEW i \in Items, NEW o \in {"settled", "dropped"},
               ResolveItem(c, i, o)
        PROVE  Safe'
    BY <1>9, BeginSafe DEF ResolveItem
  <1>10. ASSUME NEW c \in Clients, WriteItem(c) PROVE Safe'
    BY <1>10, FinishMoves, MoveSafe DEF WriteItem
  <1>11. ASSUME NEW c \in Clients, DeleteTask(c) PROVE Safe'
    <2>1. Begin(c, "delete", "task", "none", "none")
      BY <1>11 DEF DeleteTask
    <2>2. /\ "overlap" \notin past
          /\ op'[c] = [kind |-> "delete", at |-> "task", seen |-> "none", of |-> "none", left |-> {}]
          /\ \A d \in Clients \ {c} : op'[d] = op[d]
          /\ \A d \in Clients \ {c} : "delete" \in {"delete", op[d].kind} => op[d].kind = "idle"
      BY <2>1, BeginAlone
    <2>3. /\ Safe /\ op'[c].kind = "delete" /\ op'[c].at = "task"
          /\ \A d \in Clients \ {c} : op'[d] = op[d] /\ op[d].kind = "idle"
      BY <2>2
    <2>4. Alone' /\ Wiped'
      BY <2>3 DEF Alone, Wiped
    <2>5. Recorded'
      BY <1>11, <2>3 DEF DeleteTask, Safe, Recorded, Known, Writing, Doing
    <2> QED BY <2>4, <2>5 DEF Safe
  <1>12. ASSUME NEW c \in Clients, Deleted(c) PROVE Safe'
    BY <1>12, AtMoves DEF Deleted, Safe, Alone, Wiped, Recorded, Known, Writing, Doing, Places
  <1>13. ASSUME NEW c \in Clients, DeleteItems(c) PROVE Safe'
    <2>1. CASE Doing(c, "delete", "items") /\ op' = [op EXCEPT ![c].at = "item", ![c].left = index]
               /\ UNCHANGED <<task, listed, records, items, index, begun, past>>
      <3>1. "item" \in Places /\ index \in SUBSET Items
        BY DEF TypeOK, Places
      <3>2. /\ \A d \in Clients \ {c} : op'[d] = op[d]
            /\ op'[c].kind = op[c].kind /\ op'[c].of = op[c].of
        BY <2>1, <3>1, LeftMoves
      <3> QED BY <2>1, <3>2, MoveSafe DEF Doing
    <2>2. CASE /\ Doing(c, "delete", "item") /\ op[c].left # {}
               /\ \E i \in op[c].left :
                    /\ items' = [items EXCEPT ![i] = "none"]
                    /\ op' = [op EXCEPT ![c].left = @ \ {i}]
               /\ UNCHANGED <<task, listed, records, index, begun, past>>
      <3>1. PICK i \in op[c].left : op' = [op EXCEPT ![c].left = @ \ {i}]
        BY <2>2
      <3>2. op[c].left \ {i} \in SUBSET Items /\ op[c].at \in Places
        BY DEF TypeOK, Operation
      <3>3. op' = [op EXCEPT ![c].at = op[c].at, ![c].left = op[c].left \ {i}]
        BY <3>1 DEF TypeOK, Operation
      <3>4. /\ \A d \in Clients \ {c} : op'[d] = op[d]
            /\ op'[c].kind = op[c].kind /\ op'[c].at = op[c].at /\ op'[c].of = op[c].of
        BY <3>2, <3>3, LeftMoves
      <3> QED BY <2>2, <3>4, MoveSafe DEF Doing
    <2>3. CASE /\ Doing(c, "delete", "item") /\ op[c].left = {} /\ index' = {} /\ Finish(c)
               /\ UNCHANGED <<task, listed, records, items, begun, past>>
      BY <2>3, FinishMoves, MoveSafe
    <2> QED BY <1>13, <2>1, <2>2, <2>3 DEF DeleteItems
  <1>14. ASSUME NEW c \in Clients, Fail(c) PROVE Safe'
    BY <1>14, FinishMoves, MoveSafe DEF Fail
  <1>15. CASE UNCHANGED vars
    BY <1>15 DEF vars, Safe, Alone, Wiped, Recorded, Known, Writing, Doing
  <1> QED BY <1>1, <1>2, <1>3, <1>4, <1>5, <1>6, <1>7, <1>8, <1>9, <1>10, <1>11, <1>12, <1>13, <1>14, <1>15
          DEF Next

-----------------------------------------------------------------------------
(* An operation other than a deletion that begins on a task that is there  *)
(* keeps Clean (Propose, Transition, UpdateTask, CreateItem, ResolveItem). *)
LEMMA BeginClean ==
  ASSUME TypeOK, past = {} => Safe /\ Clean, past' = {},
         NEW c \in Clients, NEW kind, NEW at, NEW seen, NEW of,
         Begin(c, kind, at, seen, of), kind # "delete", task # "none",
         kind = "resolve" => Exists(of),
         UNCHANGED <<task, listed, records, items, index>>
  PROVE  Clean'
  <1>1. /\ past = {} /\ op[c].kind = "idle"
        /\ op'[c] = [kind |-> kind, at |-> at, seen |-> seen, of |-> of, left |-> {}]
        /\ \A d \in Clients \ {c} : op'[d] = op[d]
        /\ \A d \in Clients \ {c} : "delete" \in {kind, op[d].kind} => op[d].kind = "idle"
    BY BeginAlone
  <1>2. /\ Clean /\ op'[c].kind = kind /\ op'[c].of = of
        /\ \A d \in Clients : op'[d].kind # "delete"
    BY <1>1
  <1>3. Reached'
    BY <1>1, <1>2 DEF Clean, Reached, Exists, Doing
  <1>4. Resolved'
    BY <1>1, <1>2 DEF Clean, Resolved, Exists
  <1>5. Passed' /\ Emptied'
    BY <1>1, <1>2 DEF Clean, Passed, Emptied
  <1> QED BY <1>3, <1>4, <1>5 DEF Clean

(* A client in the middle of an operation other than a deletion shares its *)
(* time with no deletion, so only the items can disturb Clean.             *)
LEMMA MoveClean ==
  ASSUME Safe, Clean, NEW c \in Clients,
         op[c].kind \notin {"idle", "delete"},
         \A d \in Clients \ {c} : op'[d] = op[d],
         op'[c].kind \in {op[c].kind, "idle"},
         task' = task \/ task' # "none", Reached', Resolved'
  PROVE  Clean'
  <1>1. task # "none" /\ \A d \in Clients : op[d].kind # "delete"
    BY DEF Safe, Alone, Clean, Emptied
  <1>2. \A d \in Clients : op'[d].kind # "delete"
    BY <1>1
  <1> QED BY <1>1, <1>2 DEF Clean, Passed, Emptied

(* Such a client leaves the items and the index alone: they are reached as *)
(* before (Proposed, AddTransition, WriteTask).                            *)
LEMMA ItemsUntouched ==
  ASSUME Clean, NEW c \in Clients, op[c].kind # "create",
         \A d \in Clients \ {c} : op'[d] = op[d],
         (op'[c].kind = op[c].kind /\ op'[c].of = op[c].of) \/ op'[c].kind = "idle",
         UNCHANGED <<items, index>>
  PROVE  Reached' /\ Resolved'
  <1>1. Reached'
    BY DEF Clean, Reached, Exists, Doing
  <1>2. Resolved'
    BY DEF Clean, Resolved, Exists
  <1> QED BY <1>1, <1>2

-----------------------------------------------------------------------------
(* The two requests of a client that creates an item, and the one that     *)
(* settles or drops it, leave every item within reach.                     *)
LEMMA ItemsStep ==
  ASSUME TypeOK, Safe, Clean, NEW c \in Clients, StoreItem(c) \/ WriteItem(c)
  PROVE  Clean'
  <1> USE StatusFacts
  <1>1. CASE /\ Doing(c, "create", "set") /\ At(c, "index")
             /\ items' = [items EXCEPT ![op[c].of] = "open"]
             /\ UNCHANGED <<task, listed, records, index, begun, past>>
    <2>1. /\ \A d \in Clients \ {c} : op'[d] = op[d]
          /\ op'[c].kind = "create" /\ op'[c].at = "index" /\ op'[c].of = op[c].of
      BY <1>1, AtMoves DEF Doing, Places
    <2>2. \A i \in Items \ {op[c].of} : items'[i] = items[i]
      BY <1>1 DEF TypeOK
    <2>3. items'[op[c].of] = "open"
      BY <1>1 DEF Doing, TypeOK, Fitting
    <2>4. Reached'
      BY <1>1, <2>1, <2>2 DEF Clean, Reached, Exists, Doing
    <2>5. Resolved'
      BY <2>1, <2>2, <2>3 DEF Clean, Resolved, Exists, TypeOK, Fitting
    <2> QED BY <1>1, <2>1, <2>4, <2>5, MoveClean DEF Doing
  <1>2. CASE /\ Doing(c, "create", "index") /\ Finish(c)
             /\ index' = index \union {op[c].of}
             /\ UNCHANGED <<task, listed, records, items, begun, past>>
    <2>1. /\ \A d \in Clients \ {c} : op'[d] = op[d]
          /\ op'[c].kind = "idle"
      BY <1>2, FinishMoves
    <2>2. Reached' /\ Resolved'
      BY <1>2, <2>1 DEF Clean, Reached, Resolved, Exists, Doing
    <2> QED BY <1>2, <2>1, <2>2, MoveClean DEF Doing
  <1>3. CASE WriteItem(c)
    <2>1. /\ \A d \in Clients \ {c} : op'[d] = op[d]
          /\ op'[c].kind = "idle" /\ op[c].kind = "resolve"
          /\ items' = [items EXCEPT ![op[c].of] = op[c].seen]
          /\ index' = index /\ task' = task
      BY <1>3, FinishMoves DEF WriteItem, Doing
    <2>2. /\ \A i \in Items \ {op[c].of} : items'[i] = items[i]
          /\ Exists(op[c].of) /\ op[c].seen \in {"settled", "dropped"}
          /\ op[c].of \in Items
      BY <2>1 DEF Clean, Resolved, TypeOK, Fitting
    <2>3. items'[op[c].of] \in {"settled", "dropped"}
      BY <2>1, <2>2 DEF TypeOK
    <2>4. \A i \in Items : Exists(i)' <=> Exists(i)
      BY <2>2, <2>3 DEF Exists
    <2>5. Reached'
      BY <2>1, <2>4 DEF Clean, Reached, Doing
    <2>6. Resolved'
      BY <2>1, <2>4 DEF Clean, Resolved, TypeOK, Fitting
    <2> QED BY <2>1, <2>5, <2>6, MoveClean
  <1> QED BY <1>1, <1>2, <1>3 DEF StoreItem

(* A deletion that is alone empties what it passes, and ends with nothing  *)
(* left of the task.                                                       *)
LEMMA DeletionStep ==
  ASSUME TypeOK, Safe, Clean, NEW c \in Clients, Deleted(c) \/ DeleteItems(c)
  PROVE  Clean'
  <1>1. /\ op[c].kind = "delete"
        /\ \A d \in Clients \ {c} : op[d].kind = "idle"
        /\ \A i \in Items : Exists(i) => i \in index
    BY DEF Deleted, DeleteItems, Doing, Safe, Alone, Clean, Reached
  <1>2. CASE Deleted(c)
    <2>1. /\ \A d \in Clients \ {c} : op'[d] = op[d]
          /\ op'[c].kind = "delete" /\ op'[c].at \in {"list", "records", "items"}
          /\ UNCHANGED <<items, index>>
      BY <1>2, AtMoves DEF Deleted, Doing, Places
    <2>2. Reached' /\ Resolved'
      BY <1>1, <2>1 DEF Reached, Resolved, Exists
    <2>3. Passed'
      BY <1>1, <1>2, <2>1, AtMoves DEF Deleted, Doing, Places, Clean, Passed
    <2>4. Emptied'
      BY <1>1, <2>1 DEF Emptied
    <2> QED BY <2>2, <2>3, <2>4 DEF Clean
  <1>3. CASE /\ Doing(c, "delete", "items") /\ op' = [op EXCEPT ![c].at = "item", ![c].left = index]
             /\ UNCHANGED <<task, listed, records, items, index, begun, past>>
    <2>1. "item" \in Places /\ index \in SUBSET Items
      BY DEF TypeOK, Places
    <2>2. /\ \A d \in Clients \ {c} : op'[d] = op[d]
          /\ op'[c].kind = "delete" /\ op'[c].at = "item" /\ op'[c].left = index
      BY <1>3, <2>1, LeftMoves DEF Doing
    <2>3. Reached' /\ Resolved'
      BY <1>1, <1>3, <2>2 DEF Reached, Resolved, Exists
    <2>4. ~listed /\ records = {}
      BY <1>3 DEF Doing, Clean, Passed
    <2>5. Passed'
      <3>1. \A i \in Items : Exists(i)' => i \in index
        BY <1>1, <1>3 DEF Exists
      <3> QED BY <1>1, <1>3, <2>2, <2>4, <3>1 DEF Passed
    <2>6. Emptied'
      BY <1>1, <2>2 DEF Emptied
    <2> QED BY <2>3, <2>5, <2>6 DEF Clean
  <1>4. CASE /\ Doing(c, "delete", "item") /\ op[c].left # {}
             /\ \E i \in op[c].left :
                  /\ items' = [items EXCEPT ![i] = "none"]
                  /\ op' = [op EXCEPT ![c].left = @ \ {i}]
             /\ UNCHANGED <<task, listed, records, index, begun, past>>
    <2>1. PICK i \in op[c].left : /\ items' = [items EXCEPT ![i] = "none"]
                                  /\ op' = [op EXCEPT ![c].left = @ \ {i}]
      BY <1>4
    <2>2. /\ op[c].left \ {i} \in SUBSET Items /\ "item" \in Places /\ i \in Items
          /\ op[c].kind = "delete" /\ op[c].at = "item"
      BY <1>4 DEF TypeOK, Operation, Doing, Places
    <2>3. op' = [op EXCEPT ![c].at = "item", ![c].left = op[c].left \ {i}]
      BY <2>1, <2>2 DEF TypeOK, Operation
    <2>4. /\ \A d \in Clients \ {c} : op'[d] = op[d]
          /\ op'[c].kind = "delete" /\ op'[c].at = "item" /\ op'[c].left = op[c].left \ {i}
      <3>1. /\ op' \in [Clients -> Operation] /\ Fitting'
            /\ \A d \in Clients \ {c} : op'[d] = op[d]
            /\ op'[c].kind = op[c].kind /\ op'[c].at = "item" /\ op'[c].left = op[c].left \ {i}
            /\ op'[c].seen = op[c].seen /\ op'[c].of = op[c].of
        BY <2>2, <2>3, LeftMoves, Zenon
      <3> QED BY <2>2, <3>1
    <2>5. items'[i] = "none" /\ \A j \in Items \ {i} : items'[j] = items[j]
      BY <2>1, <2>2 DEF TypeOK
    <2>6. ~Exists(i)' /\ \A j \in Items \ {i} : Exists(j)' <=> Exists(j)
      BY <2>5 DEF Exists
    <2>7. Reached' /\ Resolved'
      BY <1>1, <1>4, <2>4, <2>6 DEF Reached, Resolved
    <2>8. /\ ~listed /\ records = {}
          /\ \A j \in Items : Exists(j) => j \in op[c].left
      BY <1>4 DEF Doing, Clean, Passed
    <2>9. Passed'
      BY <1>1, <1>4, <2>4, <2>6, <2>8 DEF Passed
    <2>10. Emptied'
      BY <1>1, <2>4 DEF Emptied
    <2> QED BY <2>7, <2>9, <2>10 DEF Clean
  <1>5. CASE /\ Doing(c, "delete", "item") /\ op[c].left = {} /\ index' = {} /\ Finish(c)
             /\ UNCHANGED <<task, listed, records, items, begun, past>>
    <2>1. /\ \A d \in Clients \ {c} : op'[d] = op[d]
          /\ op'[c].kind = "idle"
      BY <1>5, FinishMoves
    <2>2. \A d \in Clients : op'[d].kind = "idle"
      BY <1>1, <2>1
    <2>3. ~listed /\ records = {} /\ \A i \in Items : ~Exists(i)
      BY <1>5 DEF Doing, Clean, Passed
    <2>4. Reached' /\ Resolved' /\ Empty'
      BY <1>5, <2>2, <2>3 DEF Reached, Resolved, Empty, Exists
    <2>5. Passed' /\ Emptied'
      BY <2>2, <2>4 DEF Passed, Emptied
    <2> QED BY <2>4, <2>5 DEF Clean
  <1> QED BY <1>2, <1>3, <1>4, <1>5 DEF DeleteItems

(* While nothing has failed and no operation has met a deletion, the items *)
(* stay within reach and a deletion leaves nothing, step by step.          *)
LEMMA CleanStep ==
  ASSUME TypeOK, past = {} => Safe /\ Clean, [Next]_vars, past' = {}
  PROVE  Clean'
  <1> USE StatusFacts
  <1>1. ASSUME NEW c \in Clients, Propose(c) PROVE Clean'
    BY <1>1, BeginClean DEF Propose
  <1>2. ASSUME NEW c \in Clients, Proposed(c) PROVE Clean'
    <2>1. /\ Safe /\ Clean /\ op[c].kind = "propose"
          /\ task' = task \/ task' # "none"
          /\ UNCHANGED <<items, index>>
      BY <1>2 DEF Proposed, Doing
    <2>2. /\ \A d \in Clients \ {c} : op'[d] = op[d]
          /\ (op'[c].kind = op[c].kind /\ op'[c].of = op[c].of) \/ op'[c].kind = "idle"
      BY <1>2, AtMoves, FinishMoves DEF Proposed, Places
    <2> QED BY <2>1, <2>2, ItemsUntouched, MoveClean
  <1>3. ASSUME NEW c \in Clients, NEW to \in Targets, Transition(c, to) PROVE Clean'
    BY <1>3, BeginClean DEF Transition
  <1>4. ASSUME NEW c \in Clients, AddTransition(c) PROVE Clean'
    <2>1. /\ Safe /\ Clean /\ op[c].kind = "transition" /\ task' = task
          /\ UNCHANGED <<items, index>>
      BY <1>4 DEF AddTransition, Doing
    <2>2. /\ \A d \in Clients \ {c} : op'[d] = op[d]
          /\ op'[c].kind = op[c].kind /\ op'[c].of = op[c].of
      BY <1>4, AtMoves DEF AddTransition, Places
    <2> QED BY <2>1, <2>2, ItemsUntouched, MoveClean
  <1>5. ASSUME NEW c \in Clients, UpdateTask(c) PROVE Clean'
    BY <1>5, BeginClean DEF UpdateTask
  <1>6. ASSUME NEW c \in Clients, WriteTask(c) PROVE Clean'
    <2>1. /\ Safe /\ Clean /\ op[c].kind \in {"transition", "update"} /\ task' \in Statuses
          /\ UNCHANGED <<items, index>>
      BY <1>6 DEF WriteTask, Doing, TypeOK, Fitting
    <2>2. /\ \A d \in Clients \ {c} : op'[d] = op[d]
          /\ op'[c].kind = "idle"
      BY <1>6, FinishMoves DEF WriteTask
    <2> QED BY <2>1, <2>2, ItemsUntouched, MoveClean
  <1>7. ASSUME NEW c \in Clients, NEW i \in Items, CreateItem(c, i) PROVE Clean'
    BY <1>7, BeginClean DEF CreateItem
  <1>8. ASSUME NEW c \in Clients, StoreItem(c) PROVE Clean'
    BY <1>8, ItemsStep DEF StoreItem
  <1>9. ASSUME NEW c \in Clients, NEW i \in Items, NEW o \in {"settled", "dropped"},
               ResolveItem(c, i, o)
        PROVE  Clean'
    <2>1. past = {}
      BY <1>9, BeginAlone DEF ResolveItem
    <2>2. task # "none"
      BY <1>9, <2>1 DEF ResolveItem, Begin, Idle, Clean, Emptied, Empty, Safe, Wiped, Passed
    <2> QED BY <1>9, <2>2, BeginClean DEF ResolveItem
  <1>10. ASSUME NEW c \in Clients, WriteItem(c) PROVE Clean'
    BY <1>10, ItemsStep DEF WriteItem
  <1>11. ASSUME NEW c \in Clients, DeleteTask(c) PROVE Clean'
    <2>1. Begin(c, "delete", "task", "none", "none")
      BY <1>11 DEF DeleteTask
    <2>2. /\ past = {} /\ op[c].kind = "idle"
          /\ op'[c] = [kind |-> "delete", at |-> "task", seen |-> "none", of |-> "none", left |-> {}]
          /\ \A d \in Clients \ {c} : op'[d] = op[d]
          /\ \A d \in Clients \ {c} : "delete" \in {"delete", op[d].kind} => op[d].kind = "idle"
      BY <2>1, BeginAlone
    <2>3. /\ Clean /\ op'[c].kind = "delete" /\ op'[c].at = "task"
          /\ \A d \in Clients : op[d].kind = "idle"
          /\ \A d \in Clients \ {c} : op'[d].kind = "idle"
          /\ UNCHANGED <<task, listed, records, items, index>>
      BY <1>11, <2>2 DEF DeleteTask
    <2>4. Reached' /\ Resolved'
      BY <2>3 DEF Clean, Reached, Resolved, Exists, Doing
    <2>5. task = "none" => Empty'
      BY <2>3 DEF Clean, Emptied, Empty, Exists
    <2>6. Passed' /\ Emptied'
      BY <2>3, <2>5 DEF Passed, Emptied
    <2> QED BY <2>4, <2>6 DEF Clean
  <1>12. ASSUME NEW c \in Clients, Deleted(c) PROVE Clean'
    BY <1>12, DeletionStep DEF Deleted
  <1>13. ASSUME NEW c \in Clients, DeleteItems(c) PROVE Clean'
    BY <1>13, DeletionStep DEF DeleteItems
  <1>14. ASSUME NEW c \in Clients, Fail(c) PROVE Clean'
    BY <1>14 DEF Fail
  <1>15. CASE UNCHANGED vars
    BY <1>15 DEF vars, Clean, Reached, Resolved, Passed, Emptied, Empty, Exists, Doing
  <1> QED BY <1>1, <1>2, <1>3, <1>4, <1>5, <1>6, <1>7, <1>8, <1>9, <1>10, <1>11, <1>12, <1>13, <1>14, <1>15
          DEF Next

-----------------------------------------------------------------------------
(* The state of the package is well typed whatever its clients do, and     *)
(* wherever they fail.                                                     *)
THEOREM TypeCorrect == Spec => []TypeOK
  <1>1. TypeOK /\ [Next]_vars => TypeOK'
    BY TypeStep
  <1> QED BY <1>1, InitType, PTL DEF Spec

(* The invariant behind RecordsAreKept: it holds at the start and every    *)
(* request and every failure keeps it.                                     *)
THEOREM RecordsInvariant == Spec => []RecordsInv
  <1>1. Init => RecordsInv
    <2> SUFFICES ASSUME Init PROVE RecordsInv
      OBVIOUS
    <2>1. TypeOK
      BY InitType
    <2>2. \A c \in Clients : op[c].kind = "idle"
      BY DEF Init, Idle
    <2>3. Safe
      BY <2>2, StatusFacts DEF Init, Safe, Alone, Wiped, Recorded, Writing, Doing
    <2>4. Clean
      BY <2>2 DEF Init, Clean, Reached, Resolved, Passed, Emptied, Exists
    <2> QED BY <2>1, <2>3, <2>4 DEF RecordsInv
  <1>2. RecordsInv /\ [Next]_vars => RecordsInv'
    <2> SUFFICES ASSUME RecordsInv, [Next]_vars PROVE RecordsInv'
      OBVIOUS
    <2>1. TypeOK'
      BY TypeStep DEF RecordsInv
    <2>2. "overlap" \notin past' => Safe'
      BY SafeStep DEF RecordsInv
    <2>3. past' = {} => Clean'
      BY CleanStep DEF RecordsInv
    <2> QED BY <2>1, <2>2, <2>3 DEF RecordsInv
  <1> QED BY <1>1, <1>2, PTL DEF Spec

(* For any clients and items: the history knows the status of a task whose *)
(* operations met no deletion, and a deletion that met nobody, with no     *)
(* failure before, leaves nothing behind (redis-backend deleteTask).       *)
THEOREM RecordsKept == Spec => []RecordsAreKept
  <1>1. RecordsInv => RecordsAreKept
    <2> SUFFICES ASSUME RecordsInv PROVE RecordsAreKept
      OBVIOUS
    <2>1. StatusIsRecorded
      BY DEF RecordsInv, Safe, Recorded, Known, StatusIsRecorded
    <2>2. DeletedLeavesNothing
      BY DEF RecordsInv, Clean, Emptied, Empty, DeletedLeavesNothing, Idle
    <2> QED BY <2>1, <2>2 DEF RecordsAreKept
  <1> QED BY <1>1, RecordsInvariant, PTL
=============================================================================
