------------------------- MODULE MCMetricRegistration -------------------------
(* A small instance of MetricRegistration for TLC.                          *)
EXTENDS MetricRegistration

CONSTANTS k1, k2

M(k, unit, host) == [key |-> k, meta |-> [t \in Tags |-> IF t = "unit" THEN unit ELSE host]]

(* A batch of two metrics, the second of them twice with its metadata       *)
(* changed; and the first by itself, with an excluded tag changed.          *)
Mixed ==
    {<<M(k1, 0, 0), M(k2, 0, 0), M(k2, 1, 0)>>, <<M(k1, 0, 1)>>}
=============================================================================
