--------------------------- MODULE MCEndpointClaims --------------------------
(* A small instance of EndpointClaims for TLC.                             *)
EXTENDS EndpointClaims

M(key, value) == [kind |-> "models", key |-> key, value |-> value]

(* The order of Flush in the code. *)
AllKinds == <<"models", "metrics", "compactMetrics", "taggedMetrics", "events">>

(* Two values of one model, in one call and in two.                        *)
Changing == {<<M("a", 1)>>, <<M("a", 2), M("a", 1)>>}
=============================================================================
