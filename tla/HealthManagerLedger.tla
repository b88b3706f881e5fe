------------------------- MODULE HealthManagerLedger -------------------------
(***************************************************************************)
(* What a report says of the measurements collected for it.  The manager   *)
(* folds each measurement into an accumulator as it comes; the history     *)
(* variable "ledger" keeps the measurements themselves since the component *)
(* was registered or last reported, and "carried" what a report leaves to  *)
(* the next one: the status and the total counters.                        *)
(***************************************************************************)
EXTENDS HealthManager

VARIABLES ledger, carried

ledgerVars == <<vars, ledger, carried>>

Fresh == [status |-> "Healthy", totals |-> [m \in MeasureIds |-> 0]]

(* The measurement counts unless its measure is of another kind, or could not be registered. *)
Accepted(ms, c) ==
    /\ ms.measureType = "Metric" => ms.measureID \in MetricIDs(c)
    /\ ms.measureType = "CounterChange" => ms.measureID \in c.counterIDs \cup c.totalCounterIDs

(* The measurements of a ledger that are in S; those of a type and a measure, those that are   *)
(* messages, and those that set the status.                                                    *)
Chosen(l, S) == FlattenSeq([k \in DOMAIN l |-> IF l[k] \in S THEN <<l[k]>> ELSE << >>])

Of(type, m) == {ms \in Measurements : ms.measureType = type /\ ms.measureID = m}
Messages    == {ms \in Measurements : ms.measureType = "Message"}
SetsStatus  == {ms \in Measurements : \/ ms.measureType = "HealthStatus"
                                      \/ ms.measureType = "Message" /\ ms.message.affectHealth}

ValuesOf(entries)   == [k \in DOMAIN entries |-> entries[k].value]
MessagesOf(entries) == [k \in DOMAIN entries |-> entries[k].message]

Change(l, m) == SumOf(ValuesOf(Chosen(l, Of("CounterChange", m))))

(* The status and the total counters after the measurements of a ledger. *)
StatusAfter(l, from) ==
    LET entries == Chosen(l, SetsStatus)
        last    == Last(entries)
    IN  IF entries = << >> THEN from.status
        ELSE IF last.measureType = "Message" THEN last.message.status ELSE last.status

TotalsAfter(l, from) == [m \in MeasureIds |-> Wrap32(from.totals[m] + Change(l, m))]

Record(ms) ==
    LET known == ms.id \in DOMAIN ledger
    IN  /\ ledger' = Put(ledger, ms.id,
                         (IF known THEN ledger[ms.id] ELSE << >>) \o
                         (IF Accepted(ms, rawHealth'[ms.id].component) THEN <<ms>> ELSE << >>))
        /\ carried' = IF known THEN carried ELSE Put(carried, ms.id, Fresh)

(* After a step that collects nothing: a component whose health was calculated starts a new   *)
(* ledger, one that was registered or removed starts from, or comes to, nothing.               *)
Settle ==
    LET reported == visit \ visit'
        present  == DOMAIN rawHealth'
        kept     == {i \in present \cap Registered :
                       owner = "add" => rawHealth'[i] = rawHealth[i]}
    IN  /\ ledger' = [i \in present |-> IF i \in kept \ reported THEN ledger[i] ELSE << >>]
        /\ carried' = [i \in present |->
                         IF i \in reported
                         THEN [status |-> StatusAfter(ledger[i], carried[i]),
                               totals |-> TotalsAfter(ledger[i], carried[i])]
                         ELSE IF i \in kept THEN carried[i] ELSE Fresh]

LedgerInit == Init /\ ledger = << >> /\ carried = << >>

LedgerNext ==
    \/ \E ms \in Measurements : Collect(ms) /\ Record(ms)
    \/ Next /\ collected' # collected + 1 /\ Settle

LedgerSpec == LedgerInit /\ [][LedgerNext]_ledgerVars

-----------------------------------------------------------------------------
(* v is what aggregator makes of the values. *)
Aggregates(v, aggregator, values) ==
    CASE aggregator = "Mean"  -> v = [num |-> SumOf(values), den |-> Len(values)]
      [] aggregator = "Sum"   -> v = [num |-> SumOf(values), den |-> 1]
      [] aggregator = "Count" -> v = [num |-> Len(values), den |-> 1]
      [] aggregator = "Min"   -> v.den = 1 /\ v.num \in Range(values)
                                 /\ \A k \in DOMAIN values : values[k] >= v.num
      [] aggregator = "Max"   -> v.den = 1 /\ v.num \in Range(values)
                                 /\ \A k \in DOMAIN values : values[k] <= v.num

Settles(i, h) ==
    LET c == rawHealth[i].component
        l == ledger[i]
    IN  /\ h.status = StatusAfter(l, carried[i])
        /\ h.beats = \E k \in DOMAIN l : l[k].measureType = "Heartbeat"
        /\ h.messages = MessagesOf(Chosen(l, Messages))
        /\ \A m \in MeasureIds :
             LET values == ValuesOf(Chosen(l, Of("Metric", m)))
             IN  /\ m \in DOMAIN h.metrics <=> values # << >>
                 /\ values # << >> => Aggregates(h.metrics[m], c.metrics[m], values)
                 /\ Change(l, m) # 0 => m \in DOMAIN h.counters
                 /\ m \in DOMAIN h.counters =>
                      h.counters[m] = IF m \in c.totalCounterIDs THEN TotalsAfter(l, carried[i])[m]
                                      ELSE Wrap32(Change(l, m))

(* A component's health is worked out from exactly the measurements collected since the one    *)
(* before: none is lost, none is reported twice, metrics are aggregated, counters restart,     *)
(* total counters and the status are kept, int32 wraps around.                                 *)
EveryMeasurementReportedOnce ==
    [][\A i \in visit \ visit' :
          Settles(i, IF IsTarget(i) THEN own'[i] ELSE report'[i])]_ledgerVars
=============================================================================
