----------------------------- MODULE MCServices ------------------------------
(***************************************************************************)
(* A small instance of Services.                                           *)
(***************************************************************************)
EXTENDS Services

(* Jobs of different kinds do not meet in a session. *)
CommonKind == [w \in Workers |-> "common"]

(* Two requests, under the short and the long name, and two other items. *)
Item(type, tool, path) ==
  [type |-> type, tool |-> tool, destructive |-> FALSE, secret |-> FALSE, path |-> path]

TwoRequests ==
  {Item("permission", "webfetch", "none"), Item("permission_request", "write", "parent"),
   Item("completion", "none", "none"), Item("noise", "none", "none")}

(* A part that is not explored has one initial state. *)
MCInit == AllInit /\ (part # "runtime" => ~bridged)

MCSpec == MCInit /\ [][AllNext]_all
=============================================================================
