-------------------------- MODULE MCHealthHeartbeat --------------------------
(* Small instances of HealthHeartbeat for TLC. *)
EXTENDS HealthHeartbeat

OneComponent == [g \in Beats |-> "c1"]

(* u2 takes back what u1 sets; a program of no discipline makes one of the two calls. *)
ThereAndBack == [u \in Updates |-> IF u = "u1" THEN 2 ELSE 1]
TwoIfSpaced == [d \in Allowed |-> IF d = "spaced" THEN Updates ELSE {"u1"}]
=============================================================================
