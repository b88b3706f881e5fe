-------------------------- MODULE MCHealthFramework --------------------------
(* Small instances of HealthFramework for TLC. *)
EXTENDS HealthFramework

OfFirst == [c \in Callers |-> "c1"]
AddsSecond == [a \in Adders |-> "c2"]
=============================================================================
