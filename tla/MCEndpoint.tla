------------------------------ MODULE MCEndpoint -----------------------------
(* A small instance of Endpoint for TLC.                                   *)
EXTENDS Endpoint

M(key, value) == [kind |-> "models", key |-> key, value |-> value]
X(kind) == [kind |-> kind, key |-> "x"]

(* Two bundlers, in the order of the code. *)
TwoKinds == <<"models", "events">>

(* The same model over and over, and items that no tracker holds back.     *)
Repeated == {<<M("a", 1)>>, <<X("events")>>}
=============================================================================
