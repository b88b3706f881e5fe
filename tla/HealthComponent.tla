--------------------------- MODULE HealthComponent ---------------------------
(***************************************************************************)
(* The data the health manager works on, as pure operators: what the       *)
(* packages health/component and health/registry.go call Component, Health *)
(* and rawHealth, how one measurement changes a raw health, how a raw      *)
(* health becomes a report and how the statuses of impacting components    *)
(* become the status of a target.  HealthManager is the state machine that *)
(* applies them.                                                           *)
(*                                                                         *)
(* A Go map is a function: the registry's own on the keys it has, those of *)
(* measures on all of MeasureIds with a mark for the keys that are absent. *)
(* A metric value is an integer, and a reported metric a fraction          *)
(* [num, den].                                                             *)
(***************************************************************************)
EXTENDS Integers, Sequences, FiniteSets, Functions, SequencesExt

CONSTANTS
    Ids,            \* component IDs a program uses
    Types,          \* component types, DefaultType among them
    MeasureIds,     \* IDs of metrics and counters
    Summaries,      \* texts of messages
    MeasuresLimit,  \* utils.ComponentMeasuresLimit
    Int32Half       \* 2^31 for the int32 of the code; small for TLC

DefaultType == "default"
GeneralType == "general"
NoTarget    == ""
DefaultPriority   == "Normal"
DefaultAggregator == "Mean"

ASSUME HealthComponentAssumption ==
    /\ NoTarget \notin Ids
    /\ {DefaultType, GeneralType} \subseteq Types
    /\ MeasuresLimit \in Nat
    /\ Int32Half \in Nat \ {0}

Statuses    == {"Healthy", "Degrade", "Unhealthy"}
Priorities  == {"Low", "Normal", "High"}
Aggregators == {"Mean", "Min", "Max", "Sum", "Count"}
NoMetric    == "none"
MeasureTypes == {"HealthStatus", "Heartbeat", "CounterChange", "Metric", "Message"}

(* m is a Go map from some of K to V; and m[k] = v. *)
IsMap(m, K, V) == DOMAIN m \subseteq K /\ m \in [DOMAIN m -> V]
Put(m, k, v) == [x \in DOMAIN m \cup {k} |-> IF x = k THEN v ELSE m[x]]

Message == [summary : Summaries, affectHealth : BOOLEAN, status : Statuses]

(* metrics[m] is NoMetric when m is not a key.  nilMetrics: the Metrics map is nil, as in a *)
(* struct literal, and cannot be written.                                                 *)
Component ==
    [id : Ids, type : Types, target : Ids \cup {NoTarget}, enableHeartbeat : BOOLEAN,
     metrics : [MeasureIds -> Aggregators \cup {NoMetric}], nilMetrics : BOOLEAN,
     counterIDs : SUBSET MeasureIds, totalCounterIDs : SUBSET MeasureIds]

(* aggregatedMetric *)
Accumulator == [values : Seq(Int), aggregator : Aggregators \cup {NoMetric}]

(* counted: the keys the maps counters and totalCounters have got so far. *)
RawHealth ==
    [component : Component, status : Statuses, heartBeat : BOOLEAN,
     counters : [MeasureIds -> Int], totalCounters : [MeasureIds -> Int],
     counted : SUBSET MeasureIds,
     metrics : [MeasureIds -> Accumulator],
     messages : Seq(Message)]

(* ComponentMeasurement; fields its measureType does not use hold any value. *)
Measurement ==
    [id : Ids, measureType : MeasureTypes, measureID : MeasureIds, value : Int,
     status : Statuses, message : Message]

-----------------------------------------------------------------------------
(* component.go *)

MetricIDs(c) == {m \in MeasureIds : c.metrics[m] # NoMetric}
Measures(c)  == MetricIDs(c) \cup c.counterIDs \cup c.totalCounterIDs

IsMeasureIDUnique(c, m) == m \notin Measures(c)

MeasureCount(c) ==
    Cardinality(MetricIDs(c)) + Cardinality(c.counterIDs) + Cardinality(c.totalCounterIDs)

IsMeasuresLimitExceeded(c, new) == MeasureCount(c) + new > MeasuresLimit

(* New returns no error: no measure ID is used twice and the limit is respected. *)
NewSucceeds(c) ==
    /\ Cardinality(Measures(c)) >= MeasureCount(c)
    /\ Cardinality(Measures(c)) <= MeasuresLimit

(* Bug: the struct literal has no Type. *)
TargetComponentUntyped(t, hbEnabled) ==
    [id |-> t, type |-> "", target |-> NoTarget, enableHeartbeat |-> hbEnabled,
     metrics |-> [m \in MeasureIds |-> NoMetric], nilMetrics |-> TRUE,
     counterIDs |-> {}, totalCounterIDs |-> {}]

(* The component AddComponents makes for a target nobody registered. *)
TargetComponent(t, hbEnabled) ==
    [id |-> t, type |-> GeneralType, target |-> NoTarget, enableHeartbeat |-> hbEnabled,
     metrics |-> [m \in MeasureIds |-> NoMetric], nilMetrics |-> TRUE,
     counterIDs |-> {}, totalCounterIDs |-> {}]

-----------------------------------------------------------------------------
(* registry.go and the collecting half of manager.go *)

NewRawHealth(c) ==
    [component |-> c, status |-> "Healthy", heartBeat |-> FALSE,
     counters |-> [m \in MeasureIds |-> 0], totalCounters |-> [m \in MeasureIds |-> 0],
     counted |-> {},
     metrics |-> [m \in MeasureIds |-> [values |-> << >>, aggregator |-> c.metrics[m]]],
     messages |-> << >>]

BuildComponentFromMeasure(ms) ==
    [id |-> ms.id, type |-> DefaultType, target |-> NoTarget,
     enableHeartbeat |-> ms.measureType = "Heartbeat",
     metrics |-> [m \in MeasureIds |->
                    IF ms.measureType = "Metric" /\ m = ms.measureID THEN DefaultAggregator
                    ELSE NoMetric],
     nilMetrics |-> FALSE,
     counterIDs |-> IF ms.measureType = "CounterChange" THEN {ms.measureID} ELSE {},
     totalCounterIDs |-> {}]

(* int32 arithmetic. *)
Wrap32(n) == ((n + Int32Half) % (2 * Int32Half)) - Int32Half

(* Bug: the ID is not compared with those of the other kinds of measures. *)
MayRegisterTaken(c, m, regOnCollect) == regOnCollect /\ ~IsMeasuresLimitExceeded(c, 1)

(* A measure ID the component does not have yet may be registered on collect. *)
MayRegister(c, m, regOnCollect) ==
    regOnCollect /\ ~IsMeasuresLimitExceeded(c, 1) /\ IsMeasureIDUnique(c, m)

UpdatedMetric(r, ms, regOnCollect) ==
    LET m == ms.measureID
    IN  IF m \in MetricIDs(r.component)
        THEN [r EXCEPT !.metrics[m].values = Append(@, ms.value)]
        ELSE IF MayRegister(r.component, m, regOnCollect)
        THEN [r EXCEPT !.component.metrics[m] = DefaultAggregator,
                       !.metrics[m] = [values |-> <<ms.value>>, aggregator |-> DefaultAggregator]]
        ELSE r

UpdatedCounter(r, ms, regOnCollect) ==
    LET m == ms.measureID
    IN  IF m \in r.component.totalCounterIDs
        THEN [r EXCEPT !.totalCounters[m] = Wrap32(@ + ms.value), !.counted = @ \cup {m}]
        ELSE IF m \in r.component.counterIDs \/ MayRegister(r.component, m, regOnCollect)
        THEN [r EXCEPT !.component.counterIDs = @ \cup {m},
                       !.counters[m] = Wrap32(@ + ms.value), !.counted = @ \cup {m}]
        ELSE r

UpdatedMessages(r, ms) ==
    [r EXCEPT !.status = IF ms.message.affectHealth THEN ms.message.status ELSE @,
              !.messages = Append(@, ms.message)]

(* The switch of updateComponentHealthData: r itself when the measurement is refused. *)
Updated(r, ms, regOnCollect) ==
    CASE ms.measureType = "Heartbeat"     -> [r EXCEPT !.heartBeat = TRUE]
      [] ms.measureType = "Metric"        -> UpdatedMetric(r, ms, regOnCollect)
      [] ms.measureType = "CounterChange" -> UpdatedCounter(r, ms, regOnCollect)
      [] ms.measureType = "Message"       -> UpdatedMessages(r, ms)
      [] ms.measureType = "HealthStatus"  -> [r EXCEPT !.status = ms.status]

(* Collecting ms into r dereferences a nil map: a metric is registered on collect on a *)
(* component whose Metrics map is nil.                                                  *)
UpdatePanics(r, ms, regOnCollect) ==
    /\ ms.measureType = "Metric"
    /\ ms.measureID \notin MetricIDs(r.component)
    /\ MayRegister(r.component, ms.measureID, regOnCollect)
    /\ r.component.nilMetrics

-----------------------------------------------------------------------------
(* The reporting half of manager.go *)

SumOf(s) == FoldLeft(+, 0, s)

LeastOf(s)    == CHOOSE v \in Range(s) : \A w \in Range(s) : v <= w
GreatestOf(s) == CHOOSE v \in Range(s) : \A w \in Range(s) : v >= w

Aggregate(m) ==
    CASE m.aggregator = "Mean"  -> [num |-> SumOf(m.values), den |-> Len(m.values)]
      [] m.aggregator = "Min"   -> [num |-> LeastOf(m.values), den |-> 1]
      [] m.aggregator = "Max"   -> [num |-> GreatestOf(m.values), den |-> 1]
      [] m.aggregator = "Sum"   -> [num |-> SumOf(m.values), den |-> 1]
      [] m.aggregator = "Count" -> [num |-> Len(m.values), den |-> 1]

(* impacts: the messages a target receives about impacting components, as pairs *)
(* <<component ID, status>>.                                                    *)
CalculateComponentHealth(r) ==
    [id |-> r.component.id, type |-> r.component.type, target |-> r.component.target,
     status |-> r.status,
     enabled |-> r.component.enableHeartbeat, beats |-> r.heartBeat,
     counters |-> [m \in r.counted |->
                     IF m \in r.component.totalCounterIDs THEN r.totalCounters[m]
                     ELSE r.counters[m]],
     metrics |-> [m \in {k \in MeasureIds : r.metrics[k].values # << >>} |->
                    Aggregate(r.metrics[m])],
     messages |-> r.messages, impacts |-> {}]

(* Bug: counters are not reset. *)
CleanHealthValuesKeepsCounters(r) ==
    [r EXCEPT !.heartBeat = FALSE, !.messages = << >>,
              !.metrics = [m \in MeasureIds |->
                             [values |-> << >>, aggregator |-> r.metrics[m].aggregator]]]

CleanHealthValues(r) ==
    [r EXCEPT !.heartBeat = FALSE, !.messages = << >>,
              !.counters = [m \in MeasureIds |-> 0],
              !.metrics = [m \in MeasureIds |->
                             [values |-> << >>, aggregator |-> r.metrics[m].aggregator]]]

(* impactCounts of a target: how many impacting components have a status and a priority. *)
ImpactCounts == [Statuses \X Priorities -> Nat]
NoImpacts    == [sp \in Statuses \X Priorities |-> 0]

CountOf(counts, status) == SumFunctionOnSet(counts, {status} \X Priorities)

(* With no impacting component the code divides 0 by 0: NaN fails both comparisons. *)
DefaultTargetHealth(counts) ==
    LET total == CountOf(counts, "Healthy") + CountOf(counts, "Degrade")
                   + CountOf(counts, "Unhealthy")
        bad   == total - CountOf(counts, "Healthy")
    IN  IF CountOf(counts, "Unhealthy") >= 1 \/ (total > 2 /\ 2 * bad >= total)
        THEN "Unhealthy"
        ELSE IF bad > 0 THEN "Degrade" ELSE "Healthy"
=============================================================================
