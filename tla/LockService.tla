----------------------------- MODULE LockService -----------------------------
(***************************************************************************)
(* What a lock manager promises its clients: a resource is entrusted to    *)
(* nobody or to one job, and never passes from one job to another without  *)
(* having been free.                                                       *)
(***************************************************************************)
CONSTANTS Jobs, Resources

VARIABLE holders   \* per resource, the jobs that may rely on holding it

Init == holders = [r \in Resources |-> {}]

Take(j, r) == holders[r] = {} /\ holders' = [holders EXCEPT ![r] = {j}]

(* Locks are given back or expire, several at a time. *)
Leave(R) == holders' = [r \in Resources |-> IF r \in R THEN {} ELSE holders[r]]

Next == (\E j \in Jobs, r \in Resources : Take(j, r)) \/ \E R \in SUBSET Resources : Leave(R)

Spec == Init /\ [][Next]_holders
=============================================================================
