--------------------------- MODULE MCHealthManager ---------------------------
(* Small instances of HealthManager for TLC. *)
EXTENDS HealthManagerReports

Comp(i, t, hb) ==
    [id |-> i, type |-> DefaultType, target |-> t, enableHeartbeat |-> hb,
     metrics |-> [m \in MeasureIds |-> NoMetric], nilMetrics |-> FALSE,
     counterIDs |-> {}, totalCounterIDs |-> {}]

NoMessage == [summary |-> "s1", affectHealth |-> FALSE, status |-> "Healthy"]

Blank(i, type) ==
    [id |-> i, measureType |-> type, measureID |-> "m1", value |-> 0, status |-> "Healthy",
     message |-> NoMessage]

Beat(i)      == Blank(i, "Heartbeat")
Status(i, s) == [Blank(i, "HealthStatus") EXCEPT !.status = s]

(* The custom function of the tests: unhealthy when anything of high priority is not healthy. *)
HighPriorityDecides(fn, counts) ==
    IF counts[<<"Degrade", "High">>] + counts[<<"Unhealthy", "High">>] > 0
    THEN "Unhealthy" ELSE "Healthy"

BothFunctions == {[registrationOnCollect |-> FALSE, targetHealthFn |-> f] : f \in {"default", "high"}}

(* Two components that impact t, which impacts u, a target nobody registers; u, registered     *)
(* anew, impacts t: a cycle with a and b hanging on it; t is deleted under what impacts it.    *)
GraphAdds ==
    {<<Comp("a", "t", TRUE), Comp("b", "t", FALSE), Comp("t", "u", FALSE)>>,
     <<Comp("u", "t", FALSE)>>}
GraphDeletes      == {{"t"}}
GraphMeasurements == {Beat("a"), Status("b", "Degrade")}
GraphPriorities   == {<<DefaultType, "High">>}
=============================================================================
