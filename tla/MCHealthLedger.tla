---------------------------- MODULE MCHealthLedger ---------------------------
(* Small instances of HealthManagerLedger for TLC. *)
EXTENDS HealthManagerLedger

Measured(aggregator) ==
    [id |-> "a", type |-> DefaultType, target |-> NoTarget, enableHeartbeat |-> TRUE,
     metrics |-> [m \in MeasureIds |-> IF m = "gauge" THEN aggregator ELSE NoMetric],
     nilMetrics |-> FALSE,
     counterIDs |-> {"hits"} \cap MeasureIds, totalCounterIDs |-> {"total"} \cap MeasureIds]

(* A component whose target nobody registers, so that the call makes it and counts it; and one *)
(* that has as many measures as it may.                                                        *)
OnCollectAdds ==
    {<<[Measured("Mean") EXCEPT !.totalCounterIDs = {}, !.target = "b"]>>, <<Measured("Max")>>}

(* Of all components but the target: one with impacting components, deleted by name, would be  *)
(* made anew uncounted (the assumption of the theorem on the limit).                           *)
MeasuredDeletes == {{"a", "c"}}

Loud == [summary |-> "s1", affectHealth |-> TRUE, status |-> "Unhealthy"]

Blank(i, type) ==
    [id |-> i, measureType |-> type, measureID |-> "gauge", value |-> 0, status |-> "Healthy",
     message |-> Loud]

CounterChange(i, m, v) == [Blank(i, "CounterChange") EXCEPT !.measureID = m, !.value = v]
MetricValue(i, m, v)   == [Blank(i, "Metric") EXCEPT !.measureID = m, !.value = v]

(* Of a counter that is never cleaned, a metric, messages and statuses; and registration on    *)
(* collect: of a measure, of either kind and of one there is of the other kind, up to the      *)
(* limit, of one of a target, and of a component.  A change by 2 makes an int32 of four values *)
(* wrap, and two bring it back.                                                                *)
NewMeasurements ==
    {CounterChange("a", "total", 2), MetricValue("a", "gauge", 2), Blank("a", "Message"),
     Blank("a", "HealthStatus"),
     CounterChange("a", "new", 2), MetricValue("a", "hits", 1),
     MetricValue("b", "new", 1), Blank("c", "Heartbeat")}

BothConfigs ==
    {[registrationOnCollect |-> reg, targetHealthFn |-> "default"] : reg \in BOOLEAN}

NoCustom(fn, counts) == "Healthy"
=============================================================================
