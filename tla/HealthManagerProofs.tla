------------------------- MODULE HealthManagerProofs -------------------------
(***************************************************************************)
(* Proofs about HealthManager, for every set of components, measures,      *)
(* arguments and configurations.                                           *)
(*                                                                         *)
(* Three parts: the invariants of the registry and of a cycle under way;   *)
(* that HealthManager implements HealthReport; and that what it reports is *)
(* what HealthManagerLedger keeps.                                         *)
(***************************************************************************)
EXTENDS HealthManagerReports, HealthManagerLedger, TotalsProofs, TLAPS, SequenceTheorems, FiniteSetTheorems

(* Storing under a key of the map's type a value of its type keeps the type. *)
LEMMA PutIsMap ==
    ASSUME NEW K, NEW V, NEW m, IsMap(m, K, V), NEW k \in K, NEW v \in V
    PROVE  /\ IsMap(Put(m, k, v), K, V)
           /\ DOMAIN Put(m, k, v) = DOMAIN m \cup {k}
           /\ Put(m, k, v)[k] = v
           /\ \A x \in DOMAIN m \ {k} : Put(m, k, v)[x] = m[x]
  BY DEF IsMap, Put

(* Dropping keys keeps the type of a map. *)
LEMMA RestrictIsMap ==
    ASSUME NEW K, NEW V, NEW m, IsMap(m, K, V), NEW S, S \subseteq DOMAIN m
    PROVE  /\ IsMap(Restrict(m, S), K, V)
           /\ DOMAIN Restrict(m, S) = S
           /\ \A x \in S : Restrict(m, S)[x] = m[x]
  BY DEF IsMap, Restrict

LEMMA WrapIsInt == ASSUME NEW n \in Int PROVE Wrap32(n) \in Int
  BY HealthComponentAssumption DEF Wrap32

(* A component AddComponents registers starts with a well-formed raw health. *)
LEMMA NewRawHealthType ==
    ASSUME NEW c \in Component
    PROVE  /\ NewRawHealth(c) \in RawHealth
           /\ NewRawHealth(c).component = c
  BY DEF NewRawHealth, RawHealth, Accumulator, Component, Statuses, Aggregators

LEMMA TargetComponentType ==
    ASSUME NEW t \in Ids, NEW hb \in BOOLEAN
    PROVE  TargetComponent(t, hb) \in Component
  BY HealthComponentAssumption DEF TargetComponent, Component

LEMMA BuildComponentType ==
    ASSUME NEW ms \in Measurement
    PROVE  BuildComponentFromMeasure(ms) \in Component
  BY HealthComponentAssumption
     DEF BuildComponentFromMeasure, Component, Measurement, Aggregators, DefaultAggregator

(* What the registry relies on: measurements leave a component's ID, target and heartbeat alone. *)
SameIdentity(c, d) ==
    c.id = d.id /\ c.target = d.target /\ c.enableHeartbeat = d.enableHeartbeat

LEMMA UpdatedMetricType ==
    ASSUME NEW r \in RawHealth, NEW ms \in Measurement, NEW reg \in BOOLEAN
    PROVE  /\ UpdatedMetric(r, ms, reg) \in RawHealth
           /\ SameIdentity(UpdatedMetric(r, ms, reg).component, r.component)
<1> DEFINE m == ms.measureID
<1>1. m \in MeasureIds /\ ms.value \in Int
  BY DEF Measurement
<1>2. CASE m \in MetricIDs(r.component)
  <2>1. Append(r.metrics[m].values, ms.value) \in Seq(Int)
    BY <1>1 DEF RawHealth, Accumulator
  <2>. QED
    BY <1>1, <1>2, <2>1 DEF UpdatedMetric, RawHealth, Accumulator, SameIdentity
<1>3. CASE m \notin MetricIDs(r.component) /\ MayRegister(r.component, m, reg)
  <2>1. <<ms.value>> \in Seq(Int)
    BY <1>1
  <2>2. [r.component EXCEPT !.metrics[m] = DefaultAggregator] \in Component
    BY <1>1 DEF RawHealth, Component, Aggregators, DefaultAggregator
  <2>. QED
    BY <1>1, <1>3, <2>1, <2>2
    DEF UpdatedMetric, RawHealth, Accumulator, SameIdentity, Component, Aggregators,
        DefaultAggregator
<1>4. CASE m \notin MetricIDs(r.component) /\ ~MayRegister(r.component, m, reg)
  BY <1>4 DEF UpdatedMetric, SameIdentity
<1>. QED
  BY <1>2, <1>3, <1>4

LEMMA UpdatedCounterType ==
    ASSUME NEW r \in RawHealth, NEW ms \in Measurement, NEW reg \in BOOLEAN
    PROVE  /\ UpdatedCounter(r, ms, reg) \in RawHealth
           /\ SameIdentity(UpdatedCounter(r, ms, reg).component, r.component)
<1> DEFINE m == ms.measureID
<1>1. m \in MeasureIds /\ ms.value \in Int
  BY DEF Measurement
<1>2. /\ Wrap32(r.totalCounters[m] + ms.value) \in Int
      /\ Wrap32(r.counters[m] + ms.value) \in Int
  <2>1. r.totalCounters[m] + ms.value \in Int /\ r.counters[m] + ms.value \in Int
    BY <1>1 DEF RawHealth
  <2>. HIDE DEF m
  <2>. QED
    BY ONLY <2>1, WrapIsInt
<1>3. CASE m \in r.component.totalCounterIDs
  BY <1>1, <1>2, <1>3 DEF UpdatedCounter, RawHealth, SameIdentity
<1>4. CASE /\ m \notin r.component.totalCounterIDs
           /\ m \in r.component.counterIDs \/ MayRegister(r.component, m, reg)
  <2>1. [r.component EXCEPT !.counterIDs = @ \cup {m}] \in Component
    BY <1>1 DEF RawHealth, Component
  <2>. QED
    BY <1>1, <1>2, <1>4, <2>1 DEF UpdatedCounter, RawHealth, SameIdentity, Component
<1>5. CASE /\ m \notin r.component.totalCounterIDs
           /\ ~(m \in r.component.counterIDs \/ MayRegister(r.component, m, reg))
  BY <1>5 DEF UpdatedCounter, SameIdentity
<1>. QED
  BY <1>3, <1>4, <1>5

(* Collecting a measurement yields a well-formed raw health of the same component. *)
LEMMA UpdatedType ==
    ASSUME NEW r \in RawHealth, NEW ms \in Measurement, NEW reg \in BOOLEAN
    PROVE  /\ Updated(r, ms, reg) \in RawHealth
           /\ SameIdentity(Updated(r, ms, reg).component, r.component)
<1>1. CASE ms.measureType = "Heartbeat"
  BY <1>1 DEF Updated, RawHealth, SameIdentity
<1>2. CASE ms.measureType = "Metric"
  BY <1>2, UpdatedMetricType DEF Updated
<1>3. CASE ms.measureType = "CounterChange"
  BY <1>3, UpdatedCounterType DEF Updated
<1>4. CASE ms.measureType = "Message"
  <2>1. Append(r.messages, ms.message) \in Seq(Message) /\ ms.message.status \in Statuses
    BY DEF RawHealth, Measurement, Message
  <2>2. UpdatedMessages(r, ms) \in RawHealth /\ UpdatedMessages(r, ms).component = r.component
    BY <2>1 DEF UpdatedMessages, RawHealth
  <2>. QED
    BY <1>4, <2>2 DEF Updated, SameIdentity
<1>5. CASE ms.measureType = "HealthStatus"
  BY <1>5 DEF Updated, RawHealth, SameIdentity, Measurement
<1>. QED
  BY <1>1, <1>2, <1>3, <1>4, <1>5 DEF Measurement, MeasureTypes

LEMMA CleanType ==
    ASSUME NEW r \in RawHealth
    PROVE  /\ CleanHealthValues(r) \in RawHealth
           /\ CleanHealthValues(r).component = r.component
<1> DEFINE cleaned == [m \in MeasureIds |->
                         [values |-> << >>, aggregator |-> r.metrics[m].aggregator]]
<1>1. cleaned \in [MeasureIds -> Accumulator]
  <2>1. SUFFICES ASSUME NEW m \in MeasureIds PROVE cleaned[m] \in Accumulator
    OBVIOUS
  <2>2. r.metrics[m] \in Accumulator
    BY DEF RawHealth
  <2>. QED
    BY <2>2 DEF Accumulator
<1> DEFINE zeros == [m \in MeasureIds |-> 0]
<1>2. zeros \in [MeasureIds -> Int] /\ << >> \in Seq(Message)
  OBVIOUS
<1>3. CleanHealthValues(r) =
        [r EXCEPT !.heartBeat = FALSE, !.messages = << >>, !.counters = zeros, !.metrics = cleaned]
  BY Zenon DEF CleanHealthValues
<1>. HIDE DEF cleaned, zeros
<1>. QED
  BY <1>1, <1>2, <1>3 DEF RawHealth

(* The health of a component carries its ID and target. *)
LEMMA CalculateType ==
    ASSUME NEW r \in RawHealth
    PROVE  /\ IsHealth(CalculateComponentHealth(r))
           /\ CalculateComponentHealth(r).id = r.component.id
           /\ CalculateComponentHealth(r).target = r.component.target
  BY DEF CalculateComponentHealth, IsHealth, RawHealth, Component

LEMMA DefaultTargetHealthType == ASSUME NEW counts PROVE DefaultTargetHealth(counts) \in Statuses
  BY DEF DefaultTargetHealth, Statuses

LEMMA TargetHealthType ==
    ASSUME CustomsReturnStatuses, config \in Configs, NEW counts \in ImpactCounts
    PROVE  TargetHealth(counts) \in Statuses
  BY DefaultTargetHealthType, HealthManagerAssumption
     DEF TargetHealth, CustomsReturnStatuses, Config

(* The last element and the rest of a stack. *)
LEMMA LastAndFront ==
    ASSUME NEW S, NEW s \in Seq(S), s # << >>
    PROVE  /\ Len(s) \in DOMAIN s /\ Len(s) >= 1 /\ Last(s) = s[Len(s)] /\ Last(s) \in S
           /\ Front(s) \in Seq(S) /\ Len(Front(s)) = Len(s) - 1
           /\ \A k \in 1 .. Len(s) - 1 : Front(s)[k] = s[k]
<1>1. Len(s) \in Nat /\ Len(s) >= 1 /\ DOMAIN s = 1 .. Len(s)
  BY EmptySeq, LenProperties
<1>2. Last(s) = s[Len(s)] /\ s[Len(s)] \in S
  BY <1>1, ElementOfSeq DEF Last
<1>3. \A k \in 1 .. Len(s) - 1 : s[k] \in S
  BY <1>1, ElementOfSeq
<1>4. /\ Front(s) \in Seq(S)
      /\ Len(Front(s)) = Len(s) - 1
      /\ \A k \in 1 .. Len(s) - 1 : Front(s)[k] = s[k]
  BY <1>1, <1>3 DEF Front
<1>. QED
  BY <1>1, <1>2, <1>4

(* Telling a target about a component that impacts it keeps its bookkeeping well formed. *)
LEMMA ImpactedType ==
    ASSUME IsMap(typePriorities, Types, Priorities),
           NEW info \in Impact, NEW h, IsHealth(h)
    PROVE  Impacted(info, h) \in Impact
<1>1. PriorityForType(h.type) \in Priorities
  BY DEF PriorityForType, IsMap, Priorities, DefaultPriority
<1> DEFINE sp == <<h.status, PriorityForType(h.type)>>
<1>2. sp \in Statuses \X Priorities
  BY <1>1 DEF IsHealth
<1>. HIDE DEF sp
<1>3. [info.counts EXCEPT ![sp] = @ + 1] \in ImpactCounts
  BY <1>2 DEF Impact, ImpactCounts
<1>4. <<h.id, h.status>> \in Ids \X Statuses /\ h.beats \in BOOLEAN
  BY DEF IsHealth
<1> DEFINE counts2   == [info.counts EXCEPT ![sp] = @ + 1]
           messages2 == IF h.status = "Healthy" THEN info.messages
                        ELSE info.messages \cup {<<h.id, h.status>>}
<1>5. messages2 \in SUBSET (Ids \X Statuses)
  BY <1>4 DEF Impact
<1>6. Impacted(info, h) = [info EXCEPT !.counts = counts2, !.beats = @ \/ h.beats,
                                       !.messages = messages2]
  BY Zenon DEF Impacted, sp
<1>. HIDE DEF counts2, messages2
<1>7. (info.beats \/ h.beats) \in BOOLEAN
  BY <1>4 DEF Impact
<1>. QED
  BY <1>3, <1>5, <1>6, <1>7 DEF Impact, counts2

LEMMA WithTargetType ==
    ASSUME IsMap(impact, Ids, Impact), IsMap(targets, Ids, BOOLEAN), NEW t \in Ids
    PROVE  /\ IsMap(WithTarget(t), Ids, Impact)
           /\ DOMAIN WithTarget(t) = DOMAIN impact \cup {t}
<1>1. NewTarget(t) \in Impact
  <2>1. NoImpacts \in ImpactCounts
    BY DEF NoImpacts, ImpactCounts
  <2>2. HbEnabled(t) \in BOOLEAN
    BY DEF HbEnabled, IsTarget, IsMap
  <2>. QED
    BY <2>1, <2>2 DEF NewTarget, Impact
<1>2. CASE t \in DOMAIN impact
  BY <1>2 DEF WithTarget
<1>3. CASE t \notin DOMAIN impact
  BY <1>1, <1>3, PutIsMap DEF WithTarget
<1>. QED
  BY <1>2, <1>3

-----------------------------------------------------------------------------
(* The inductive invariant: the cycle's bookkeeping is typed only because every component met *)
(* is registered under its ID and every call on the stack is for a target met before.         *)
IInv == TypeOK /\ RegistryInv /\ CycleInv /\ StackInv

LEMMA InitIInv == Init => IInv
<1>. SUFFICES ASSUME Init PROVE IInv
  OBVIOUS
<1>1. TypeOK
  <2>1. /\ IsMap(rawHealth, Ids, RawHealth) /\ IsMap(targets, Ids, BOOLEAN)
        /\ IsMap(typePriorities, Types, Priorities) /\ IsMap(impact, Ids, Impact)
    BY DEF Init, IsMap
  <2>2. pushes \in [Ids -> Nat] /\ DOMAIN own = {} /\ DOMAIN report = {}
    BY DEF Init
  <2>3. /\ todo \in Seq(Component)
        /\ stack \in Seq([id : Ids \cup {NoTarget}, rest : SUBSET Ids])
    BY EmptySeq DEF Init
  <2>. QED
    BY <2>1, <2>2, <2>3 DEF Init, TypeOK, StartSteps
<1>2. RegistryInv /\ CycleInv /\ StackInv
  BY DEF Init, RegistryInv, CycleInv, StackInv, Registered
<1>. QED
  BY <1>1, <1>2 DEF IInv

(* Steps that leave the registry and the cycle alone, and stuttering. *)
LEMMA QuietSteps ==
    ASSUME IInv,
           UNCHANGED <<rawHealth, targets, cycle, output>>,
           \/ UNCHANGED <<owner, todo>>
           \/ owner = "free" /\ owner' \in {"add"} /\ todo' \in Seq(Component)
           \/ owner = "add" /\ owner' = "free" /\ UNCHANGED todo,
           IsMap(typePriorities, Types, Priorities)',
           config' \in Configs, start' \in StartSteps, announced' \subseteq Ids,
           UNCHANGED collected, panicked' \in BOOLEAN
    PROVE  IInv'
<1>1. TypeOK'
  BY DEF IInv, TypeOK, cycle, output
<1>2. RegistryInv'
  BY DEF IInv, RegistryInv, Registered
<1>3. CycleInv'
  BY DEF IInv, CycleInv, Registered, IsTarget, cycle, output
<1>4. StackInv'
  BY DEF IInv, StackInv, cycle, output
<1>. QED
  BY <1>1, <1>2, <1>3, <1>4 DEF IInv

LEMMA BeginAddStep ==
    ASSUME IInv, NEW components \in AddArgs, BeginAdd(components)
    PROVE  IInv'
<1>1. components \in Seq(Component)
  BY HealthManagerAssumption
<1>. QED
  BY <1>1, QuietSteps DEF BeginAdd, Lock, IInv, TypeOK, registry

LEMMA EndAddStep == ASSUME IInv, EndAdd PROVE IInv'
  BY QuietSteps DEF EndAdd, IInv, TypeOK, registry

LEMMA SetPriorityStep ==
    ASSUME IInv, NEW tp \in PriorityArgs, SetPriority(tp[1], tp[2])
    PROVE  IInv'
<1>1. tp[1] \in Types /\ tp[2] \in Priorities
  BY HealthManagerAssumption
<1>2. IsMap(typePriorities, Types, Priorities)
  BY DEF IInv, TypeOK
<1>3. IsMap(typePriorities, Types, Priorities)'
  BY <1>1, <1>2, PutIsMap DEF SetPriority
<1>. QED
  BY <1>3, QuietSteps DEF SetPriority, IInv, TypeOK, registry, adding

LEMMA UpdateConfigStep ==
    ASSUME IInv, NEW newConfig \in Configs, UpdateConfig(newConfig)
    PROVE  IInv'
  BY QuietSteps DEF UpdateConfig, IInv, TypeOK, registry, adding

LEMMA StartSteppingStep ==
    ASSUME IInv, LaunchGoroutines \/ StoreStarted \/ SendComponentsInfo
    PROVE  IInv'
<1>1. Registered \subseteq Ids
  BY DEF IInv, TypeOK, IsMap, Registered
<1>. QED
  BY <1>1, QuietSteps
     DEF LaunchGoroutines, StoreStarted, SendComponentsInfo, StartSteps, IInv, TypeOK, registry,
         adding

LEMMA PanicStep ==
    ASSUME IInv, RangePanics \/ \E ms \in Measurements : CollectPanics(ms)
    PROVE  IInv'
  BY QuietSteps DEF RangePanics, CollectPanics, IInv, TypeOK, registry, adding

-----------------------------------------------------------------------------
(* Steps that change the registry between two cycles. *)
LEMMA RegistrySteps ==
    ASSUME IInv, owner # "cycle",
           UNCHANGED <<typePriorities, config, start, owner, cycle, output, panicked>>,
           IsMap(rawHealth, Ids, RawHealth)', IsMap(targets, Ids, BOOLEAN)', RegistryInv',
           todo' \in Seq(Component), announced' \subseteq Ids, collected' \in Nat
    PROVE  IInv'
<1>1. visit = {} /\ stack = << >> /\ DOMAIN stack = {}
  BY DEF IInv, CycleInv
<1>2. TypeOK'
  BY DEF IInv, TypeOK, cycle, output
<1>3. CycleInv' /\ StackInv'
  BY <1>1 DEF CycleInv, StackInv, cycle
<1>. QED
  BY <1>2, <1>3 DEF IInv

(* The registry after c is registered. *)
LEMMA RegisterType ==
    ASSUME IInv, NEW c \in Component, Register(c)
    PROVE  /\ IsMap(rawHealth, Ids, RawHealth)' /\ announced' \subseteq Ids
           /\ Registered' = Registered \cup {c.id}
           /\ rawHealth'[c.id].component = c
           /\ \A i \in Registered \ {c.id} : rawHealth'[i] = rawHealth[i]
<1>1. c.id \in Ids
  BY DEF Component
<1>2. IsMap(rawHealth, Ids, RawHealth) /\ announced \subseteq Ids
  BY DEF IInv, TypeOK
<1>3. NewRawHealth(c) \in RawHealth /\ NewRawHealth(c).component = c
  BY NewRawHealthType
<1> DEFINE after == Put(rawHealth, c.id, NewRawHealth(c))
<1>4. /\ IsMap(after, Ids, RawHealth) /\ DOMAIN after = DOMAIN rawHealth \cup {c.id}
      /\ after[c.id] = NewRawHealth(c)
      /\ \A i \in DOMAIN rawHealth \ {c.id} : after[i] = rawHealth[i]
  BY <1>1, <1>2, <1>3 DEF IsMap, Put
<1>5. rawHealth' = after /\ announced' \subseteq announced \cup {c.id}
  BY DEF Register
<1>. HIDE DEF after
<1>. QED
  BY <1>1, <1>2, <1>3, <1>4, <1>5 DEF Registered

(* updateTargetsRegistry adds the target of c, forgets none and turns no heartbeat off. *)
LEMMA TargetsWithType ==
    ASSUME IsMap(targets, Ids, BOOLEAN), NEW c \in Component
    PROVE  /\ IsMap(TargetsWith(c), Ids, BOOLEAN)
           /\ DOMAIN targets \subseteq DOMAIN TargetsWith(c)
           /\ \A t \in DOMAIN targets : targets[t] => TargetsWith(c)[t]
           /\ c.target # NoTarget => /\ c.target \in DOMAIN TargetsWith(c)
                                     /\ c.enableHeartbeat => TargetsWith(c)[c.target]
<1>1. c.target \in Ids \cup {NoTarget} /\ c.enableHeartbeat \in BOOLEAN
  BY DEF Component
<1>2. CASE c.target = NoTarget \/ (c.target \in DOMAIN targets /\ targets[c.target])
  BY <1>2 DEF TargetsWith
<1>3. CASE ~(c.target = NoTarget \/ (c.target \in DOMAIN targets /\ targets[c.target]))
  <2>1. TargetsWith(c) = Put(targets, c.target, c.enableHeartbeat) /\ c.target \in Ids
    BY <1>1, <1>3 DEF TargetsWith
  <2>2. /\ DOMAIN TargetsWith(c) = DOMAIN targets \cup {c.target}
        /\ TargetsWith(c)[c.target] = c.enableHeartbeat
        /\ \A t \in DOMAIN targets \ {c.target} : TargetsWith(c)[t] = targets[t]
    BY <2>1 DEF Put
  <2>3. IsMap(TargetsWith(c), Ids, BOOLEAN)
    BY <1>1, <2>1 DEF IsMap, Put
  <2>. QED
    BY <1>1, <1>3, <2>2, <2>3
<1>. QED
  BY <1>2, <1>3

LEMMA AddNextStep == ASSUME IInv, AddNext PROVE IInv'
<1> DEFINE c == Head(todo)
<1>1. /\ c \in Component /\ Tail(todo) \in Seq(Component)
      /\ IsMap(targets, Ids, BOOLEAN) /\ collected \in Nat
  BY DEF IInv, TypeOK, AddNext
<1>2. Register(c) /\ targets' = TargetsWith(c) /\ owner = "add"
  BY DEF AddNext
<1>. HIDE DEF c
<1>3. RegistryInv'
  <2>1. SUFFICES ASSUME NEW i \in Registered'
                 PROVE  LET d == rawHealth'[i].component
                        IN  /\ d.id = i
                            /\ d.target # NoTarget => d.target \in DOMAIN targets'
                            /\ d.target # NoTarget /\ d.enableHeartbeat => targets'[d.target]
    BY DEF RegistryInv
  <2>2. CASE i = c.id
    BY <1>1, <1>2, <2>2, RegisterType, TargetsWithType
  <2>3. CASE i # c.id
    <3>1. i \in Registered /\ rawHealth'[i] = rawHealth[i]
      BY <1>1, <1>2, <2>3, RegisterType
    <3>. QED
      BY <1>1, <1>2, <3>1, TargetsWithType DEF IInv, RegistryInv
  <2>. QED
    BY <2>2, <2>3
<1>4. IsMap(targets, Ids, BOOLEAN)'
  BY <1>1, <1>2, TargetsWithType
<1>. QED
  BY <1>1, <1>2, <1>3, <1>4, RegisterType, RegistrySteps DEF AddNext, c

LEMMA AddMissingTargetStep == ASSUME IInv, AddMissingTarget PROVE IInv'
<1>1. PICK t \in MissingTargets : Register(TargetComponent(t, targets[t]))
  BY DEF AddMissingTarget
<1> DEFINE c == TargetComponent(t, targets[t])
<1>2. c \in Component /\ c.target = NoTarget
  <2>1. t \in Ids /\ targets[t] \in BOOLEAN
    BY <1>1 DEF MissingTargets, IInv, TypeOK, IsMap
  <2>. QED
    BY <2>1, TargetComponentType DEF TargetComponent
<1>. HIDE DEF c
<1>3. Register(c) /\ owner = "add" /\ targets' = targets
  BY <1>1 DEF AddMissingTarget, c
<1>4. RegistryInv'
  BY <1>2, <1>3, RegisterType DEF IInv, RegistryInv
<1>. QED
  BY <1>2, <1>3, <1>4, RegisterType, RegistrySteps DEF AddMissingTarget, IInv, TypeOK

LEMMA DeleteComponentsStep ==
    ASSUME IInv, NEW ids \in DeleteArgs, DeleteComponents(ids)
    PROVE  IInv'
<1> DEFINE named == ids \cap Registered
           left  == Registered \ named
           impacted(S) == {rawHealth[i].component.target : i \in S} \ {NoTarget}
           targetsToRemove == impacted(named) \ impacted(left)
<1>1. /\ rawHealth' = Restrict(rawHealth, left \ targetsToRemove)
      /\ targets' = Restrict(targets, DOMAIN targets \ targetsToRemove)
      /\ announced' = announced \cap (left \ targetsToRemove)
  BY DEF DeleteComponents
<1>2. /\ IsMap(rawHealth, Ids, RawHealth)' /\ Registered' = left \ targetsToRemove
      /\ \A i \in Registered' : rawHealth'[i] = rawHealth[i]
  BY <1>1, RestrictIsMap DEF IInv, TypeOK, Registered
<1>3. /\ IsMap(targets, Ids, BOOLEAN)' /\ DOMAIN targets' = DOMAIN targets \ targetsToRemove
      /\ \A t \in DOMAIN targets' : targets'[t] = targets[t]
  BY <1>1, RestrictIsMap DEF IInv, TypeOK
<1>4. \A i \in left : rawHealth[i].component.target # NoTarget =>
                         rawHealth[i].component.target \notin targetsToRemove
  OBVIOUS
<1>. HIDE DEF targetsToRemove
<1>5. RegistryInv'
  BY <1>2, <1>3, <1>4 DEF IInv, RegistryInv
<1>. QED
  BY <1>1, <1>2, <1>3, <1>5, RegistrySteps
     DEF DeleteComponents, Lock, IInv, TypeOK, adding

LEMMA CollectStep ==
    ASSUME IInv, NEW ms \in Measurements, Collect(ms)
    PROVE  IInv'
<1> DEFINE r == Collecting(ms)
           u == Updated(r, ms, config.registrationOnCollect)
<1>1. /\ ms \in Measurement /\ ms.id \in Ids /\ config.registrationOnCollect \in BOOLEAN
  BY HealthManagerAssumption DEF Measurement, Config, IInv, TypeOK
<1>2. /\ r \in RawHealth /\ r.component.id = ms.id
      /\ IF ms.id \in Registered THEN r = rawHealth[ms.id] ELSE r.component.target = NoTarget
  <2>1. CASE ms.id \in Registered
    BY <2>1 DEF Collecting, IInv, TypeOK, IsMap, RegistryInv, Registered
  <2>2. CASE ms.id \notin Registered
    BY <1>1, <2>2, BuildComponentType, NewRawHealthType
       DEF Collecting, BuildComponentFromMeasure
  <2>. QED
    BY <2>1, <2>2
<1>3. u \in RawHealth /\ SameIdentity(u.component, r.component)
  BY <1>1, <1>2, UpdatedType
<1>4. rawHealth' = Put(rawHealth, ms.id, u) /\ targets' = targets
  BY DEF Collect
<1>. HIDE DEF u, r
<1>5. /\ IsMap(rawHealth, Ids, RawHealth)' /\ Registered' = Registered \cup {ms.id}
      /\ rawHealth'[ms.id] = u
      /\ \A i \in Registered \ {ms.id} : rawHealth'[i] = rawHealth[i]
  <2>1. IsMap(rawHealth, Ids, RawHealth)
    BY DEF IInv, TypeOK
  <2> DEFINE after == Put(rawHealth, ms.id, u)
  <2>2. /\ IsMap(after, Ids, RawHealth) /\ DOMAIN after = DOMAIN rawHealth \cup {ms.id}
        /\ after[ms.id] = u
        /\ \A i \in DOMAIN rawHealth \ {ms.id} : after[i] = rawHealth[i]
    BY <1>1, <1>3, <2>1, PutIsMap
  <2>. HIDE DEF after
  <2>. QED
    BY <1>4, <2>2 DEF Registered, after
<1>6. RegistryInv'
  BY <1>2, <1>3, <1>4, <1>5 DEF IInv, RegistryInv, SameIdentity
<1>. QED
  BY <1>4, <1>5, <1>6, RegistrySteps DEF Collect, Lock, IInv, TypeOK, adding

-----------------------------------------------------------------------------
(* The steps of a reporting cycle. *)
LEMMA BeginCycleStep == ASSUME IInv, BeginCycle PROVE IInv'
<1>1. /\ visit' = Registered /\ owner' = "cycle" /\ visit = {} /\ stack = << >>
      /\ DOMAIN stack = {}
  BY DEF BeginCycle, Lock, IInv, CycleInv
<1>2. pushes' \in [Ids -> Nat] /\ DOMAIN report' = {}
  BY DEF BeginCycle
<1>3. TypeOK'
  BY <1>1, <1>2 DEF BeginCycle, IInv, TypeOK, registry, adding, Registered, IsMap
<1>4. RegistryInv'
  BY DEF BeginCycle, IInv, RegistryInv, registry, Registered
<1>5. CycleInv' /\ StackInv'
  BY <1>1 DEF BeginCycle, CycleInv, StackInv, registry, Registered
<1>. QED
  BY <1>3, <1>4, <1>5 DEF IInv

LEMMA PushType ==
    ASSUME IInv, NEW h, IsHealth(h), Push(h)
    PROVE  /\ pushes' \in [Ids -> Nat] /\ pushes'[h.id] >= 1
           /\ \A i \in Ids : pushes'[i] >= pushes[i]
           /\ \A i \in Ids \ {h.id} : pushes'[i] = pushes[i]
           /\ DOMAIN report' \subseteq Ids /\ \A i \in DOMAIN report' : IsHealth(report'[i])
<1>1. h.id \in Ids /\ pushes \in [Ids -> Nat]
  BY DEF IsHealth, IInv, TypeOK
<1>2. pushes' = [pushes EXCEPT ![h.id] = @ + 1] /\ report' = Put(report, h.id, h)
  BY DEF Push
<1>3. DOMAIN report \subseteq Ids /\ \A i \in DOMAIN report : IsHealth(report[i])
  BY DEF IInv, TypeOK
<1>4. DOMAIN report' \subseteq Ids /\ \A i \in DOMAIN report' : IsHealth(report'[i])
  BY <1>1, <1>2, <1>3 DEF Put
<1>. QED
  BY <1>1, <1>2, <1>4

(* The raw healths after component i is cleaned. *)
LEMMA CleanedType ==
    ASSUME IInv, NEW i \in Registered,
           rawHealth' = [rawHealth EXCEPT ![i] = CleanHealthValues(@)]
    PROVE  /\ IsMap(rawHealth, Ids, RawHealth)' /\ Registered' = Registered
           /\ \A j \in Registered : rawHealth'[j].component = rawHealth[j].component
<1>1. IsMap(rawHealth, Ids, RawHealth) /\ rawHealth[i] \in RawHealth
  BY DEF IInv, TypeOK, IsMap, Registered
<1>2. /\ CleanHealthValues(rawHealth[i]) \in RawHealth
      /\ CleanHealthValues(rawHealth[i]).component = rawHealth[i].component
  BY <1>1, CleanType
<1>. QED
  BY <1>1, <1>2 DEF IsMap, Registered

LEMMA CalculateStep ==
    ASSUME IInv, NEW i \in visit, Calculate(i)
    PROVE  IInv'
<1> DEFINE h == CalculateComponentHealth(rawHealth[i])
<1>1. /\ i \in Registered /\ i \in Ids /\ rawHealth[i] \in RawHealth
      /\ rawHealth[i].component.id = i /\ owner = "cycle" /\ stack = << >>
      /\ DOMAIN stack = {}
  BY DEF IInv, TypeOK, IsMap, CycleInv, RegistryInv, Registered
<1>2. IsHealth(h) /\ h.id = i /\ h.target = rawHealth[i].component.target
  BY <1>1, CalculateType
<1>3. /\ IsMap(rawHealth, Ids, RawHealth)' /\ Registered' = Registered
      /\ \A j \in Registered : rawHealth'[j].component = rawHealth[j].component
  BY <1>1, CleanedType DEF Calculate
<1>4. /\ targets' = targets /\ owner' = owner /\ visit' = visit \ {i} /\ stack' = stack
      /\ UNCHANGED <<typePriorities, config, start, todo, announced, collected, panicked>>
  BY DEF Calculate, adding
<1>5. RegistryInv'
  BY <1>3, <1>4 DEF IInv, RegistryInv
<1>6. IsMap(impact, Ids, Impact) /\ IsMap(targets, Ids, BOOLEAN)
  BY DEF IInv, TypeOK
<1>7. /\ DOMAIN own \subseteq Ids /\ \A t \in DOMAIN own : IsHealth(own[t]) /\ own[t].id = t
      /\ pushes \in [Ids -> Nat]
      /\ DOMAIN report \subseteq Ids /\ \A j \in DOMAIN report : IsHealth(report[j])
  BY DEF IInv, TypeOK
<1>. HIDE DEF h
(* What the step leaves in the cycle's maps, for a target and for another component. *)
<1>8. /\ IsMap(impact, Ids, Impact)' /\ DOMAIN impact \subseteq DOMAIN impact'
      /\ DOMAIN own' \subseteq Ids /\ \A t \in DOMAIN own' : IsHealth(own'[t]) /\ own'[t].id = t
      /\ DOMAIN own \subseteq DOMAIN own' /\ \A t \in DOMAIN own \ {i} : own'[t] = own[t]
      /\ pushes' \in [Ids -> Nat] /\ \A j \in Ids : pushes'[j] >= pushes[j]
      /\ DOMAIN report' \subseteq Ids /\ \A j \in DOMAIN report' : IsHealth(report'[j])
      /\ IF IsTarget(i)
         THEN i \in DOMAIN own' \cap DOMAIN impact' /\ own'[i].target = h.target
         ELSE pushes'[i] >= 1
  <2>1. CASE IsTarget(i)
    <3>1. impact' = WithTarget(i) /\ own' = Put(own, i, h) /\ UNCHANGED output
      BY <2>1 DEF Calculate, h
    <3>2. IsMap(WithTarget(i), Ids, Impact) /\ DOMAIN WithTarget(i) = DOMAIN impact \cup {i}
      BY <1>1, <1>6, WithTargetType
    <3>3. /\ DOMAIN own' = DOMAIN own \cup {i} /\ own'[i] = h
          /\ \A t \in DOMAIN own \ {i} : own'[t] = own[t]
      BY <3>1 DEF Put
    <3>. QED
      BY <1>1, <1>2, <1>7, <2>1, <3>1, <3>2, <3>3 DEF output
  <2>2. CASE ~IsTarget(i)
    <3>1. Push(h) /\ own' = own
      BY <2>2 DEF Calculate, h
    <3>2. IsMap(impact, Ids, Impact)' /\ DOMAIN impact \subseteq DOMAIN impact'
      <4>1. CASE h.target = NoTarget
        BY <1>6, <2>2, <4>1 DEF Calculate, h
      <4>2. CASE h.target # NoTarget
        <5>1. impact' = [WithTarget(h.target) EXCEPT ![h.target] = Impacted(@, h)]
          BY <2>2, <4>2 DEF Calculate, h
        <5>2. h.target \in Ids
          BY <1>2, <4>2 DEF IsHealth
        <5>3. /\ IsMap(WithTarget(h.target), Ids, Impact)
              /\ DOMAIN WithTarget(h.target) = DOMAIN impact \cup {h.target}
          BY <1>6, <5>2, WithTargetType
        <5>4. WithTarget(h.target)[h.target] \in Impact
          BY <5>3 DEF IsMap
        <5>5. Impacted(WithTarget(h.target)[h.target], h) \in Impact
          BY <1>2, <5>4, ImpactedType DEF IInv, TypeOK
        <5>. QED
          BY <5>1, <5>3, <5>5 DEF IsMap
      <4>. QED
        BY <4>1, <4>2
    <3>. QED
      BY <1>1, <1>2, <1>7, <2>2, <3>1, <3>2, PushType
  <2>. QED
    BY <2>1, <2>2
<1>9. TypeOK'
  BY <1>3, <1>4, <1>8 DEF IInv, TypeOK
<1>10. CycleInv'
  <2>1. visit' \subseteq Registered' /\ owner' = "cycle" /\ stack' = << >>
    BY <1>1, <1>3, <1>4 DEF IInv, CycleInv
  <2>2. SUFFICES ASSUME NEW j \in Registered' \ visit'
                 PROVE  IF IsTarget(j)'
                        THEN /\ j \in DOMAIN own' \cap DOMAIN impact'
                             /\ own'[j].target = rawHealth'[j].component.target
                        ELSE pushes'[j] >= 1
    BY <2>1 DEF CycleInv
  <2>3. CASE j = i
    BY <1>1, <1>2, <1>3, <1>4, <1>8, <2>3 DEF IsTarget
  <2>4. CASE j # i
    <3>1. j \in Registered \ visit /\ j \in Ids
      BY <1>3, <1>4, <2>4 DEF IInv, TypeOK, IsMap, Registered
    <3>. QED
      BY <1>1, <1>3, <1>4, <1>7, <1>8, <2>4, <3>1 DEF IInv, CycleInv, IsTarget
  <2>. QED
    BY <2>3, <2>4
<1>11. StackInv'
  BY <1>1, <1>4 DEF StackInv
<1>. QED
  BY <1>5, <1>9, <1>10, <1>11 DEF IInv

(* Steps of the calls of buildAndPushHealthForTarget that only move the stack. *)
LEMMA StackSteps ==
    ASSUME IInv, owner = "cycle", visit = {},
           UNCHANGED <<registry, config, start, owner, adding, visit, impact, own, output,
                       announced, collected, panicked>>,
           stack' \in Seq([id : Ids \cup {NoTarget}, rest : SUBSET Ids]),
           StackInv'
    PROVE  IInv'
<1>1. TypeOK'
  BY DEF IInv, TypeOK, registry, adding, output
<1>2. RegistryInv'
  BY DEF IInv, RegistryInv, Registered, registry
<1>3. CycleInv'
  BY DEF IInv, CycleInv, Registered, registry, output, IsTarget
<1>. QED
  BY <1>1, <1>2, <1>3 DEF IInv

LEMMA FrameType ==
    ASSUME IInv, NEW id \in Ids \cup {NoTarget}
    PROVE  Frame(id) \in [id : Ids \cup {NoTarget}, rest : SUBSET Ids]
  BY DEF IInv, TypeOK, IsMap, Frame

LEMMA BeginTargetsStep == ASSUME IInv, BeginTargets PROVE IInv'
<1> DEFINE root == Frame(NoTarget)
<1>1. root \in [id : Ids \cup {NoTarget}, rest : SUBSET Ids]
  BY FrameType
<1>2. root.id = NoTarget /\ root.rest = DOMAIN impact
  BY DEF Frame
<1>3. stack' = <<root>> /\ impact' = impact /\ own' = own
  BY DEF BeginTargets
<1>. HIDE DEF root
<1>4. StackInv'
  BY <1>2, <1>3 DEF StackInv
<1>5. stack' \in Seq([id : Ids \cup {NoTarget}, rest : SUBSET Ids])
  BY <1>1, <1>3
<1>. QED
  BY <1>4, <1>5, StackSteps DEF BeginTargets

(* While there is a call on the stack the cycle is past the range over the registry. *)
LEMMA OnStack ==
    ASSUME IInv, stack # << >>
    PROVE  /\ owner = "cycle" /\ visit = {}
           /\ stack \in Seq([id : Ids \cup {NoTarget}, rest : SUBSET Ids])
           /\ Len(stack) \in Nat /\ Len(stack) >= 1 /\ DOMAIN stack = 1 .. Len(stack)
           /\ Top = stack[Len(stack)]
           /\ Top.id \in Ids \cup {NoTarget} /\ Top.rest \subseteq DOMAIN impact
           /\ DOMAIN impact \subseteq Ids
<1>1. owner = "cycle" /\ visit = {} /\ DOMAIN impact \subseteq Ids
  BY DEF IInv, CycleInv, TypeOK, IsMap
<1>2. stack \in Seq([id : Ids \cup {NoTarget}, rest : SUBSET Ids])
  BY DEF IInv, TypeOK
<1>3. Len(stack) \in Nat /\ Len(stack) >= 1 /\ DOMAIN stack = 1 .. Len(stack)
  BY <1>2, EmptySeq, LenProperties
<1>4. Top = stack[Len(stack)]
  BY DEF Top, Last
<1>. QED
  BY <1>1, <1>2, <1>3, <1>4 DEF IInv, StackInv

(* The stack after a call of buildAndPushHealthForTarget for the target t. *)
LEMMA Descended ==
    ASSUME IInv, NEW t \in Ids, Descend(t)
    PROVE  /\ stack' \in Seq([id : Ids \cup {NoTarget}, rest : SUBSET Ids])
           /\ Len(stack') = Len(stack) + 1 /\ DOMAIN stack' = 1 .. Len(stack) + 1
           /\ stack'[Len(stack) + 1].id = t /\ stack'[Len(stack) + 1].rest = DOMAIN impact
           /\ \A k \in 1 .. Len(stack) : stack'[k].id = stack[k].id
           /\ \A k \in 1 .. Len(stack) - 1 : stack'[k] = stack[k]
           /\ stack'[Len(stack)].rest = stack[Len(stack)].rest \ {t}
<1> DEFINE F == [id : Ids \cup {NoTarget}, rest : SUBSET Ids]
           n == Len(stack)
           base == [stack EXCEPT ![n].rest = @ \ {t}]
           new == Frame(t)
<1>1. stack # << >> /\ stack' = Append(base, new)
  BY DEF Descend
<1>2. stack \in Seq(F) /\ n \in Nat /\ n >= 1 /\ DOMAIN stack = 1 .. n
  BY <1>1, OnStack
<1>3. new \in F /\ new.id = t /\ new.rest = DOMAIN impact
  BY FrameType DEF Frame
<1>4. /\ base \in Seq(F) /\ Len(base) = n
      /\ \A k \in 1 .. n : base[k].id = stack[k].id
      /\ \A k \in 1 .. n - 1 : base[k] = stack[k]
      /\ base[n].rest = stack[n].rest \ {t}
  <2> DEFINE changed == [stack[n] EXCEPT !.rest = @ \ {t}]
  <2>. HIDE DEF F
  <2>1. stack[n] \in F
    BY <1>2, ElementOfSeq
  <2>2. changed \in F /\ changed.id = stack[n].id /\ changed.rest = stack[n].rest \ {t}
    BY <2>1 DEF F
  <2>3. base = [stack EXCEPT ![n] = changed]
    OBVIOUS
  <2>. HIDE DEF base, changed
  <2>4. /\ base \in Seq(F) /\ Len(base) = n
        /\ \A k \in 1 .. n : base[k] = IF k = n THEN changed ELSE stack[k]
    BY <1>2, <2>2, <2>3, ExceptSeq
  <2>5. base[n] = changed /\ \A k \in 1 .. n - 1 : base[k] = stack[k]
    <3>1. n \in 1 .. n /\ \A k \in 1 .. n - 1 : k \in 1 .. n /\ k # n
      <4>1. n \in Nat /\ n >= 1
        BY <1>2
      <4>. HIDE DEF n
      <4>. QED
        BY ONLY <4>1
    <3>. QED
      BY <2>4, <3>1
  <2>6. \A k \in 1 .. n : base[k].id = stack[k].id
    BY <1>2, <2>2, <2>4
  <2>. QED
    BY <2>2, <2>4, <2>5, <2>6
<1>. HIDE DEF base, new, F
<1>. HIDE DEF base, new, F
<1>5. /\ stack' \in Seq(F) /\ Len(stack') = n + 1 /\ stack'[n + 1] = new
      /\ DOMAIN stack' = 1 .. n + 1 /\ \A k \in 1 .. n : stack'[k] = base[k]
  BY <1>1, <1>2, <1>3, <1>4
<1>6. n \in 1 .. n /\ \A k \in 1 .. n - 1 : k \in 1 .. n
  BY <1>2
<1>. QED
  BY <1>3, <1>4, <1>5, <1>6 DEF F

LEMMA DescendStep ==
    ASSUME IInv, NEW t \in Ids, Descend(t)
    PROVE  IInv'
<1> DEFINE F == [id : Ids \cup {NoTarget}, rest : SUBSET Ids]
           n == Len(stack)
<1>1. stack # << >> /\ t \in Found /\ impact' = impact /\ own' = own /\ pushes' = pushes
  BY DEF Descend, output
<1>2. /\ owner = "cycle" /\ visit = {} /\ stack \in Seq(F)
      /\ n \in Nat /\ n >= 1 /\ DOMAIN stack = 1 .. n /\ Top = stack[n]
  BY <1>1, OnStack
<1>3. t \in Top.rest /\ t \in DOMAIN own /\ t \in DOMAIN impact /\ t # NoTarget
  BY <1>1, OnStack, HealthComponentAssumption DEF Found
<1>4. /\ stack' \in Seq(F) /\ Len(stack') = n + 1 /\ DOMAIN stack' = 1 .. n + 1
      /\ stack'[n + 1].id = t /\ stack'[n + 1].rest = DOMAIN impact
      /\ \A k \in 1 .. n : stack'[k].id = stack[k].id
      /\ \A k \in 1 .. n - 1 : stack'[k] = stack[k]
      /\ stack'[n].rest = stack[n].rest \ {t}
  BY Descended
<1>. HIDE DEF F
<1>5. StackInv'
  <2>1. SUFFICES ASSUME NEW k \in 1 .. n + 1
                 PROVE  /\ stack'[k].rest \subseteq DOMAIN impact
                        /\ k # 1 => stack'[k].id # NoTarget
                        /\ stack'[k].id # NoTarget =>
                              stack'[k].id \in DOMAIN own \cap DOMAIN impact
                        /\ \A x \in DOMAIN impact \ stack'[k].rest :
                              pushes[x] >= 1 \/ (k < n + 1 /\ stack'[k + 1].id = x)
    BY <1>1, <1>4 DEF StackInv
  <2>2. CASE k = n + 1
    BY <1>2, <1>3, <1>4, <2>2
  <2>3. CASE k = n
    <3>1. /\ stack[n].rest \subseteq DOMAIN impact
          /\ n # 1 => stack[n].id # NoTarget
          /\ stack[n].id # NoTarget => stack[n].id \in DOMAIN own \cap DOMAIN impact
          /\ \A x \in DOMAIN impact \ stack[n].rest : pushes[x] >= 1
      BY <1>2 DEF IInv, StackInv
    <3>2. stack'[n].id = stack[n].id /\ stack'[n].rest = stack[n].rest \ {t}
      BY <1>2, <1>4
    <3>. QED
      BY <1>2, <1>4, <2>3, <3>1, <3>2
  <2>4. CASE k \in 1 .. n - 1
    <3>1. /\ stack[k].rest \subseteq DOMAIN impact
          /\ k # 1 => stack[k].id # NoTarget
          /\ stack[k].id # NoTarget => stack[k].id \in DOMAIN own \cap DOMAIN impact
          /\ \A x \in DOMAIN impact \ stack[k].rest : pushes[x] >= 1 \/ stack[k + 1].id = x
      BY <1>2, <2>4 DEF IInv, StackInv
    <3>2. stack'[k] = stack[k] /\ stack'[k + 1].id = stack[k + 1].id
      BY <1>2, <1>4, <2>4
    <3>. QED
      BY <1>2, <2>4, <3>1, <3>2
  <2>5. k = n + 1 \/ k = n \/ k \in 1 .. n - 1
    <3>1. n \in Nat /\ n >= 1
      BY <1>2
    <3>. HIDE DEF n
    <3>. QED
      BY ONLY <3>1
  <2>. QED
    BY <2>2, <2>3, <2>4, <2>5
<1>. QED
  BY <1>2, <1>4, <1>5, StackSteps DEF Descend, F

(* The report of the target on top of the stack. *)
LEMMA TargetReportType ==
    ASSUME CustomsReturnStatuses, IInv, stack # << >>, Top.id # NoTarget
    PROVE  /\ Top.id \in Ids /\ Top.id \in DOMAIN own /\ Top.id \in DOMAIN impact
           /\ IsHealth(TargetReport) /\ TargetReport.id = Top.id
           /\ TargetReport.target = own[Top.id].target
<1> DEFINE t == Top.id
           info == impact[t]
<1>1. t \in Ids /\ t \in DOMAIN own /\ t \in DOMAIN impact
  BY OnStack DEF IInv, StackInv
<1>2. IsHealth(own[t]) /\ own[t].id = t /\ info \in Impact
  BY <1>1 DEF IInv, TypeOK, IsMap
<1>3. TargetHealth(info.counts) \in Statuses
  BY <1>2, TargetHealthType DEF Impact, IInv, TypeOK
<1> DEFINE status2 == TargetHealth(info.counts)
<1>4. TargetReport = [own[t] EXCEPT !.status = status2, !.enabled = @ \/ info.enabled,
                                    !.beats = @ \/ info.beats, !.impacts = info.messages]
  BY Zenon DEF TargetReport
<1>. HIDE DEF t, info, status2
<1>. QED
  BY <1>1, <1>2, <1>3, <1>4 DEF IsHealth, Impact, t, status2

(* The call for the target on top of the stack pushes its health, which it also keeps as the  *)
(* target's own, tells the target the caller is building, if any, and returns.                *)
LEMMA Returned ==
    ASSUME CustomsReturnStatuses, IInv, PushTarget
    PROVE  /\ stack # << >> /\ Len(stack) \in Nat /\ Len(stack) > 1
           /\ DOMAIN stack = 1 .. Len(stack) /\ Top = stack[Len(stack)]
           /\ Top.id # NoTarget /\ Top.id \in Ids \cap DOMAIN own \cap DOMAIN impact
           /\ IsHealth(TargetReport) /\ TargetReport.id = Top.id
           /\ TargetReport.target = own[Top.id].target
           /\ Push(TargetReport) /\ own' = [own EXCEPT ![Top.id] = TargetReport]
           /\ stack' \in Seq([id : Ids \cup {NoTarget}, rest : SUBSET Ids])
           /\ Len(stack') = Len(stack) - 1 /\ DOMAIN stack' = 1 .. Len(stack) - 1
           /\ \A k \in 1 .. Len(stack) - 1 : stack'[k] = stack[k]
           /\ impact' = IF stack[Len(stack) - 1].id = NoTarget THEN impact
                        ELSE [impact EXCEPT ![stack[Len(stack) - 1].id] = Impacted(@, TargetReport)]
<1> DEFINE F == [id : Ids \cup {NoTarget}, rest : SUBSET Ids]
           n == Len(stack)
           t == Top.id
           h == TargetReport
<1>1. /\ stack # << >> /\ n > 1 /\ Push(h) /\ own' = [own EXCEPT ![t] = h] /\ stack' = Front(stack)
  BY DEF PushTarget, RangeDone
<1>2. /\ stack \in Seq(F) /\ n \in Nat
      /\ DOMAIN stack = 1 .. n /\ Top = stack[n]
  BY <1>1, OnStack
<1>3. t # NoTarget
  BY <1>1, <1>2 DEF IInv, StackInv
<1>4. /\ t \in Ids /\ t \in DOMAIN own /\ t \in DOMAIN impact /\ IsHealth(h) /\ h.id = t
      /\ h.target = own[t].target
  BY <1>1, <1>3, TargetReportType
<1>5. /\ stack' \in Seq(F) /\ Len(stack') = n - 1 /\ DOMAIN stack' = 1 .. n - 1
      /\ \A k \in 1 .. n - 1 : stack'[k] = stack[k]
  <2>. HIDE DEF F
  <2>. QED
    BY <1>1, <1>2, LastAndFront, LenProperties
<1>6. Last(Front(stack)) = stack[n - 1]
  BY <1>1, <1>2, <1>5 DEF Last
<1>7. impact' = IF stack[n - 1].id = NoTarget THEN impact
                ELSE [impact EXCEPT ![stack[n - 1].id] = Impacted(@, h)]
  BY <1>6 DEF PushTarget
<1>. QED
  BY <1>1, <1>2, <1>3, <1>4, <1>5, <1>7

LEMMA PushTargetStep == ASSUME CustomsReturnStatuses, IInv, PushTarget PROVE IInv'
<1> DEFINE F == [id : Ids \cup {NoTarget}, rest : SUBSET Ids]
           n == Len(stack)
           t == Top.id
           h == TargetReport
           caller == stack[n - 1].id
<1>1. /\ stack # << >> /\ n > 1 /\ Push(h) /\ own' = [own EXCEPT ![t] = h]
      /\ UNCHANGED <<registry, config, start, owner, adding, visit, announced, collected, panicked>>
  BY DEF PushTarget, RangeDone
<1>2. /\ owner = "cycle" /\ visit = {} /\ stack \in Seq(F) /\ n \in Nat
      /\ DOMAIN stack = 1 .. n /\ Top = stack[n] /\ DOMAIN impact \subseteq Ids
  BY <1>1, OnStack
<1>3. t \in Ids /\ t \in DOMAIN own /\ IsHealth(h) /\ h.id = t /\ h.target = own[t].target
  BY Returned
<1>4. /\ stack' \in Seq(F) /\ DOMAIN stack' = 1 .. n - 1
      /\ \A k \in 1 .. n - 1 : stack'[k] = stack[k]
  BY Returned
<1>5. impact' = IF caller = NoTarget THEN impact ELSE [impact EXCEPT ![caller] = Impacted(@, h)]
  BY Returned
<1>6. /\ pushes' \in [Ids -> Nat] /\ pushes'[t] >= 1 /\ \A i \in Ids : pushes'[i] >= pushes[i]
      /\ pushes \in [Ids -> Nat]
      /\ DOMAIN report' \subseteq Ids /\ \A i \in DOMAIN report' : IsHealth(report'[i])
  <2>1. pushes \in [Ids -> Nat]
    BY DEF IInv, TypeOK
  <2>. HIDE DEF t, h
  <2>. QED
    BY <1>1, <1>3, <2>1, PushType
<1>. HIDE DEF h, t, F
<1>7. caller # NoTarget => caller \in DOMAIN impact
  BY <1>1, <1>2 DEF IInv, StackInv
<1>8. IsMap(impact, Ids, Impact)' /\ DOMAIN impact' = DOMAIN impact
  <2>1. IsMap(impact, Ids, Impact) /\ IsMap(typePriorities, Types, Priorities)
    BY DEF IInv, TypeOK
  <2>2. CASE caller = NoTarget
    BY <1>5, <2>1, <2>2
  <2>3. CASE caller # NoTarget
    <3>. HIDE DEF caller
    <3>1. impact[caller] \in Impact
      BY <1>7, <2>1, <2>3 DEF IsMap
    <3>2. Impacted(impact[caller], h) \in Impact
      BY <1>3, <2>1, <3>1, ImpactedType
    <3>. QED
      BY <1>5, <2>1, <2>3, <3>2 DEF IsMap
  <2>. QED
    BY <2>2, <2>3
<1>9. /\ DOMAIN own' = DOMAIN own
      /\ \A x \in DOMAIN own : own'[x].target = own[x].target
      /\ \A x \in DOMAIN own' : IsHealth(own'[x]) /\ own'[x].id = x
  BY <1>1, <1>3 DEF IInv, TypeOK
<1>10. DOMAIN own' \subseteq Ids
  BY <1>9 DEF IInv, TypeOK
<1>11. TypeOK'
  BY <1>1, <1>4, <1>6, <1>8, <1>9, <1>10 DEF IInv, TypeOK, registry, adding, F
<1>12. RegistryInv'
  BY <1>1 DEF IInv, RegistryInv, Registered, registry
<1>13. CycleInv'
  <2>1. \A i \in Registered : i \in Ids
    BY DEF IInv, TypeOK, IsMap, Registered
  <2>2. \A i \in Registered :
           IF IsTarget(i)
           THEN /\ i \in DOMAIN own' \cap DOMAIN impact'
                /\ own'[i].target = rawHealth[i].component.target
           ELSE pushes'[i] >= 1
    BY <1>2, <1>6, <1>8, <1>9, <2>1 DEF IInv, CycleInv
  <2>. QED
    BY <1>1, <1>2, <2>2 DEF CycleInv, Registered, registry, IsTarget
<1>14. StackInv'
  <2>1. SUFFICES ASSUME NEW k \in 1 .. n - 1
                 PROVE  /\ stack[k].rest \subseteq DOMAIN impact
                        /\ k # 1 => stack[k].id # NoTarget
                        /\ stack[k].id # NoTarget =>
                              stack[k].id \in DOMAIN own \cap DOMAIN impact
                        /\ \A x \in DOMAIN impact \ stack[k].rest :
                              pushes'[x] >= 1 \/ (k < n - 1 /\ stack[k + 1].id = x)
    BY <1>2, <1>4, <1>8, <1>9 DEF StackInv
  <2>2. /\ stack[k].rest \subseteq DOMAIN impact
        /\ k # 1 => stack[k].id # NoTarget
        /\ stack[k].id # NoTarget => stack[k].id \in DOMAIN own \cap DOMAIN impact
        /\ \A x \in DOMAIN impact \ stack[k].rest : pushes[x] >= 1 \/ stack[k + 1].id = x
    BY <1>2 DEF IInv, StackInv
  <2>3. ASSUME NEW x \in DOMAIN impact \ stack[k].rest
        PROVE  pushes'[x] >= 1 \/ (k < n - 1 /\ stack[k + 1].id = x)
    <3>1. CASE pushes[x] >= 1
      BY <1>2, <1>6, <3>1
    <3>2. CASE stack[k + 1].id = x /\ k = n - 1
      <4>1. k + 1 = n
        BY <1>2, <3>2
      <4>2. x = t
        BY <1>2, <3>2, <4>1 DEF t
      <4>. QED
        BY <1>6, <4>2
    <3>3. CASE stack[k + 1].id = x /\ k # n - 1
      <4>1. n \in Nat /\ n > 1 /\ k \in 1 .. n - 1
        BY <1>1, <1>2
      <4>2. k < n - 1
        <5>. HIDE DEF n
        <5>. QED
          BY ONLY <3>3, <4>1
      <4>. QED
        BY <3>3, <4>2
    <3>. QED
      BY <2>2, <3>1, <3>2, <3>3
  <2>. QED
    BY <2>2, <2>3
<1>. QED
  BY <1>11, <1>12, <1>13, <1>14 DEF IInv

LEMMA EndCycleStep == ASSUME IInv, EndCycle PROVE IInv'
<1>1. /\ visit' = visit /\ stack' = << >> /\ DOMAIN stack' = {} /\ owner' = "free"
      /\ DOMAIN impact' = {} /\ DOMAIN own' = {}
      /\ UNCHANGED <<registry, config, start, adding, output, announced, collected, panicked>>
  BY DEF EndCycle
<1>2. visit = {}
  BY OnStack DEF EndCycle, RangeDone
<1>3. IsMap(impact, Ids, Impact)' /\ stack' \in Seq([id : Ids \cup {NoTarget}, rest : SUBSET Ids])
  BY <1>1, EmptySeq DEF EndCycle, IsMap
<1>4. TypeOK'
  BY <1>1, <1>3 DEF IInv, TypeOK, registry, adding, output
<1>5. RegistryInv'
  BY <1>1 DEF IInv, RegistryInv, Registered, registry
<1>6. CycleInv' /\ StackInv'
  BY <1>1, <1>2 DEF CycleInv, StackInv
<1>. QED
  BY <1>4, <1>5, <1>6 DEF IInv

LEMMA IInvStep == ASSUME CustomsReturnStatuses, IInv, [Next]_vars PROVE IInv'
<1>1. CASE UNCHANGED vars
  BY <1>1, QuietSteps DEF vars, registry, adding, IInv, TypeOK
<1>2. CASE Next
  BY <1>2, BeginAddStep, AddNextStep, AddMissingTargetStep, EndAddStep, DeleteComponentsStep,
     SetPriorityStep, UpdateConfigStep, StartSteppingStep, CollectStep, PanicStep,
     BeginCycleStep, CalculateStep, BeginTargetsStep, DescendStep, PushTargetStep, EndCycleStep
     DEF Next, AddSteps, CycleSteps
<1>. QED
  BY <1>1, <1>2

LEMMA Invariance == ASSUME CustomsReturnStatuses PROVE Spec => []IInv
<1>1. Init => IInv
  BY InitIInv
<1>2. IInv /\ [Next]_vars => IInv'
  BY IInvStep
<1>. QED
  BY <1>1, <1>2, PTL DEF Spec

-----------------------------------------------------------------------------
(* The registry and the state of a reporting cycle keep their types, whatever is registered, *)
(* collected or deleted in the middle of it, provided the custom functions do.               *)
THEOREM TypeCorrect == ASSUME CustomsReturnStatuses PROVE Spec => []TypeOK
  BY Invariance, PTL DEF IInv

(* Every registered component is stored under its ID, and its target is known as a target. *)
THEOREM RegistryCorrect == ASSUME CustomsReturnStatuses PROVE Spec => []RegistryInv
  BY Invariance, PTL DEF IInv

(* In the middle of a reporting cycle nothing that has left the ranges of writeHealthResult and *)
(* of the calls of buildAndPushHealthForTarget has been forgotten: it has been pushed or is     *)
(* held by a call under way.                                                                    *)
THEOREM CycleCorrect == ASSUME CustomsReturnStatuses PROVE Spec => [](CycleInv /\ StackInv)
  BY Invariance, PTL DEF IInv

-----------------------------------------------------------------------------
(* When a target is pushed, the range of its call has been through everything it is impacted *)
(* by: what is not a target was pushed when it was calculated, and each target was taken out  *)
(* of the range and pushed before the call above this one returned.                           *)
LEMMA PushAfterImpact ==
    ASSUME CustomsReturnStatuses, IInv, PushTarget,
           NEW i \in Registered, rawHealth[i].component.target = Top.id
    PROVE  pushes[i] >= 1
<1> DEFINE n == Len(stack)
<1>1. stack # << >> /\ Found = {}
  BY DEF PushTarget, RangeDone
<1>2. owner = "cycle" /\ visit = {} /\ n \in DOMAIN stack /\ Top = stack[n] /\ ~(n < n)
  BY <1>1, OnStack
<1>3. CASE ~IsTarget(i)
  BY <1>2, <1>3 DEF IInv, CycleInv
<1>4. CASE IsTarget(i)
  <2>1. i \in DOMAIN own /\ i \in DOMAIN impact /\ own[i].target = Top.id
    BY <1>2, <1>4 DEF IInv, CycleInv
  <2>2. i \notin stack[n].rest
    BY <1>1, <1>2, <2>1 DEF Found
  <2>. HIDE DEF n
  <2>. QED
    BY <1>2, <2>1, <2>2 DEF IInv, StackInv, n
<1>. QED
  BY <1>3, <1>4

LEMMA ImpactStep ==
    ASSUME CustomsReturnStatuses, IInv, [Next]_vars, owner = "cycle",
           NEW t \in Ids, pushes'[t] > pushes[t],
           NEW i \in Registered, rawHealth[i].component.target = t
    PROVE  pushes[i] >= 1
<1>1. pushes \in [Ids -> Nat] /\ pushes' # pushes /\ t # NoTarget /\ IsTarget(t)
  <2>1. pushes \in [Ids -> Nat]
    BY DEF IInv, TypeOK
  <2>2. t # NoTarget
    BY HealthComponentAssumption
  <2>. QED
    BY <2>1, <2>2 DEF IInv, RegistryInv, IsTarget
<1>2. CASE \E j \in visit : Calculate(j)
  <2>1. PICK j \in visit : Calculate(j)
    BY <1>2
  <2> DEFINE h == CalculateComponentHealth(rawHealth[j])
  <2>2. IsHealth(h) /\ h.id = j
    BY CalculateType DEF IInv, TypeOK, IsMap, CycleInv, RegistryInv, Registered
  <2>3. ~IsTarget(j) /\ Push(h)
    BY <1>1, <2>1 DEF Calculate, output
  <2>. HIDE DEF h
  <2>4. \A k \in Ids \ {j} : pushes'[k] = pushes[k]
    BY <2>2, <2>3, PushType
  <2>. QED
    BY <1>1, <2>3, <2>4
<1>3. CASE PushTarget
  <2> DEFINE h == TargetReport
  <2>1. stack # << >> /\ Top.id # NoTarget /\ Push(h)
    BY <1>3, OnStack DEF PushTarget, RangeDone, IInv, StackInv
  <2>2. IsHealth(h) /\ h.id = Top.id
    BY <2>1, TargetReportType
  <2>. HIDE DEF h
  <2>3. \A k \in Ids \ {Top.id} : pushes'[k] = pushes[k]
    BY <2>1, <2>2, PushType
  <2>. QED
    BY <1>1, <1>3, <2>3, PushAfterImpact
<1>4. CASE \/ UNCHANGED pushes
           \/ BeginCycle
  BY <1>1, <1>4 DEF BeginCycle, Lock
<1>5. \/ UNCHANGED pushes \/ BeginCycle \/ PushTarget
      \/ \E j \in visit : Calculate(j)
  BY DEF Next, vars, output, AddSteps, CycleSteps, BeginAdd, AddNext, AddMissingTarget, EndAdd,
         DeleteComponents, SetPriority, UpdateConfig, LaunchGoroutines, StoreStarted,
         SendComponentsInfo, Collect, CollectPanics, BeginTargets, Descend, RangePanics, EndCycle
<1>. QED
  BY <1>2, <1>3, <1>4, <1>5

(* No target is ever published before all that impacts it, for every graph of targets and *)
(* every order in which the ranges over the maps go.                                      *)
THEOREM ImpactFirst == ASSUME CustomsReturnStatuses PROVE Spec => ImpactBeforeTarget
<1> DEFINE A == \A t \in Ids : owner = "cycle" /\ pushes'[t] > pushes[t] =>
                   \A i \in Registered : rawHealth[i].component.target = t => pushes[i] >= 1
<1>1. IInv /\ [Next]_vars => [A]_vars
  BY ImpactStep
<1>2. ImpactBeforeTarget <=> [][A]_vars
  BY PTL DEF ImpactBeforeTarget
<1>. HIDE DEF A
<1>. QED
  BY <1>1, <1>2, Invariance, PTL DEF Spec

-----------------------------------------------------------------------------
(* Components are only registered by AddComponents. *)
NeverOnCollect == \A c \in Configs : ~c.registrationOnCollect

LEMMA AnnouncedStep ==
    ASSUME NeverOnCollect, IInv, NoRegistrationLost, [Next]_vars
    PROVE  NoRegistrationLost'
<1>1. CASE \E components \in AddArgs : BeginAdd(components)
  BY <1>1 DEF BeginAdd, NoRegistrationLost, Registered, registry
<1>2. CASE AddSteps
  <2>1. ASSUME NEW c \in Component, Register(c), start' = start
        PROVE  NoRegistrationLost'
    <3>1. Registered' = Registered \cup {c.id}
      BY <2>1, RegisterType
    <3>. QED
      BY <2>1, <3>1 DEF Register, NoRegistrationLost, IsStarted
  <2>2. CASE AddNext
    <3>1. Head(todo) \in Component
      BY <2>2 DEF IInv, TypeOK, AddNext
    <3>. QED
      BY <2>1, <2>2, <3>1 DEF AddNext
  <2>3. CASE AddMissingTarget
    <3>1. \A t \in MissingTargets : TargetComponent(t, targets[t]) \in Component
      BY TargetComponentType DEF MissingTargets, IInv, TypeOK, IsMap
    <3>. QED
      BY <2>1, <2>3, <3>1 DEF AddMissingTarget
  <2>4. CASE EndAdd
    BY <2>4 DEF EndAdd, NoRegistrationLost, Registered, registry
  <2>. QED
    BY <1>2, <2>2, <2>3, <2>4 DEF AddSteps
<1>3. CASE \E ids \in DeleteArgs : DeleteComponents(ids)
  BY <1>3, RestrictIsMap DEF DeleteComponents, NoRegistrationLost, Registered, Restrict
<1>4. CASE SendComponentsInfo
  BY <1>4 DEF SendComponentsInfo, NoRegistrationLost, Registered, registry
<1>5. CASE \E ms \in Measurements : Collect(ms)
  <2>1. PICK ms \in Measurements : Collect(ms)
    BY <1>5
  <2>2. ~config.registrationOnCollect
    BY DEF NeverOnCollect, IInv, TypeOK
  <2>3. ms.id \in Registered
    BY <2>1, <2>2 DEF Collect, Refused
  <2>4. Registered' = Registered
    BY <2>1, <2>3 DEF Collect, Put, Registered
  <2>. QED
    BY <2>1, <2>4 DEF Collect, NoRegistrationLost
<1>6. CASE \E i \in visit : Calculate(i)
  BY <1>6 DEF Calculate, NoRegistrationLost, Registered
<1>7. CASE LaunchGoroutines \/ StoreStarted
  BY <1>7 DEF LaunchGoroutines, StoreStarted, NoRegistrationLost
<1>8. CASE UNCHANGED <<rawHealth, start, announced>>
  BY <1>8 DEF NoRegistrationLost, Registered
<1>9. \/ \E tp \in PriorityArgs : SetPriority(tp[1], tp[2])
      \/ \E newConfig \in Configs : UpdateConfig(newConfig)
      \/ \E ms \in Measurements : CollectPanics(ms)
      \/ BeginCycle \/ BeginTargets \/ \E t \in Ids : Descend(t)
      \/ RangePanics \/ PushTarget \/ EndCycle \/ UNCHANGED vars
      => UNCHANGED <<rawHealth, start, announced>>
  BY DEF SetPriority, UpdateConfig, CollectPanics, BeginCycle, BeginTargets, Descend, RangePanics,
         PushTarget, EndCycle, vars, registry
<1>. QED
  BY <1>1, <1>2, <1>3, <1>4, <1>5, <1>6, <1>7, <1>8, <1>9 DEF Next, CycleSteps

(* Once Start has returned, the writer knows every registered component, however AddComponents *)
(* and DeleteComponents interleave with Start, unless components are registered on collect.    *)
THEOREM AllAnnounced ==
    ASSUME CustomsReturnStatuses, NeverOnCollect PROVE Spec => []NoRegistrationLost
<1>1. Init => NoRegistrationLost
  BY DEF Init, NoRegistrationLost
<1>2. IInv /\ NoRegistrationLost /\ [Next]_vars => NoRegistrationLost'
  BY AnnouncedStep
<1>. QED
  BY <1>1, <1>2, Invariance, PTL DEF Spec

-----------------------------------------------------------------------------
(* The two limits, however components and measures got there: registered by a call, made for a  *)
(* target or registered on collect.                                                             *)

(* No component is deleted by name that another may have as its target. *)
TargetsStay ==
    \A ids \in DeleteArgs : \A components \in AddArgs : \A k \in DOMAIN components :
        components[k].target \notin ids

(* What is registered once the call of AddComponents under way has ended. *)
Expected == Registered \cup DOMAIN targets \cup Named(todo)

Kept(t) == \A ids \in DeleteArgs : t \notin ids

(* Outside a registration targets are registered; the room for what a registration adds was *)
(* checked when it began.                                                                   *)
ExpectedInv ==
    /\ \A t \in DOMAIN targets : Kept(t)
    /\ \A k \in DOMAIN todo : Kept(todo[k].target)
    /\ owner # "add" => DOMAIN targets \subseteq Registered /\ todo = << >>
    /\ IsFiniteSet(Expected) /\ Cardinality(Expected) <= ComponentsLimit

-----------------------------------------------------------------------------
(* A call names finitely many components. *)
LEMMA NamedIsFinite ==
    ASSUME NEW components \in Seq(Component)
    PROVE  IsFiniteSet(Named(components))
<1> DEFINE n   == Len(components)
           id  == [k \in 1 .. n |-> components[k].id]
           tgt == [k \in 1 .. n |-> components[k].target]
           idSet  == {components[k].id : k \in DOMAIN components}
           tgtSet == {components[k].target : k \in DOMAIN components}
<1>1. n \in Nat /\ DOMAIN components = 1 .. n
  OBVIOUS
<1>2. IsFiniteSet(1 .. n)
  BY <1>1, FS_Interval
<1>3. id \in Surjection(1 .. n, idSet) /\ tgt \in Surjection(1 .. n, tgtSet)
  BY <1>1 DEF Surjection
<1>4. IsFiniteSet(idSet) /\ IsFiniteSet(tgtSet)
  <2>. HIDE DEF id, tgt, idSet, tgtSet, n
  <2>. QED
    BY <1>2, <1>3, FS_Surjection
<1>5. IsFiniteSet(tgtSet \ {NoTarget})
  <2>. HIDE DEF tgtSet
  <2>. QED
    BY <1>4, FS_RemoveElement
<1>6. IsFiniteSet(idSet \cup (tgtSet \ {NoTarget}))
  <2>. HIDE DEF tgtSet, idSet
  <2>. QED
    BY <1>4, <1>5, FS_Union
<1>. QED
  BY <1>6 DEF Named

LEMMA CardinalityOfUnion ==
    ASSUME NEW S, NEW T, IsFiniteSet(S), IsFiniteSet(T)
    PROVE  /\ IsFiniteSet(S \cup T)
           /\ Cardinality(S \cup T) <= Cardinality(S) + Cardinality(T)
<1>1. IsFiniteSet(S \cup T)
  BY FS_Union
<1>2. IsFiniteSet(S \cap T)
  BY FS_Subset, S \cap T \in SUBSET S
<1>3. Cardinality(S) \in Nat /\ Cardinality(T) \in Nat /\ Cardinality(S \cap T) \in Nat
  BY <1>2, FS_CardinalityType
<1>. QED
  BY <1>1, <1>3, FS_Union

(* A step after which no more is expected than before keeps the limit. *)
LEMMA Fewer ==
    ASSUME ExpectedInv, Expected' \subseteq Expected
    PROVE  IsFiniteSet(Expected') /\ Cardinality(Expected') <= ComponentsLimit
<1>1. IsFiniteSet(Expected) /\ Cardinality(Expected) <= ComponentsLimit
  BY DEF ExpectedInv
<1>2. IsFiniteSet(Expected') /\ Cardinality(Expected') <= Cardinality(Expected)
  BY <1>1, FS_Subset, Expected' \in SUBSET Expected
<1>3. Cardinality(Expected) \in Nat /\ Cardinality(Expected') \in Nat
  BY <1>1, <1>2, FS_CardinalityType
<1>. QED
  BY <1>1, <1>2, <1>3, HealthManagerAssumption

LEMMA BeginAddExpects ==
    ASSUME TargetsStay, IInv, ExpectedInv, NEW components \in AddArgs, BeginAdd(components)
    PROVE  ExpectedInv'
<1>1. components \in Seq(Component) /\ DOMAIN targets \subseteq Registered
  BY HealthManagerAssumption DEF BeginAdd, Lock, ExpectedInv
<1>2. /\ todo' = components /\ rawHealth' = rawHealth /\ targets' = targets /\ owner' = "add"
      /\ Cardinality(Named(components)) + Cardinality(Registered) <= ComponentsLimit
  BY DEF BeginAdd, registry
<1>3. Expected' = Registered \cup Named(components)
  BY <1>1, <1>2 DEF Expected, Registered, Named
<1>4. IsFiniteSet(Registered)
  <2>1. Registered \in SUBSET Expected
    BY DEF Expected
  <2>. QED
    BY <2>1, FS_Subset DEF ExpectedInv
<1>5. /\ IsFiniteSet(Registered \cup Named(components))
      /\ Cardinality(Registered \cup Named(components)) <=
             Cardinality(Registered) + Cardinality(Named(components))
  BY <1>1, <1>4, NamedIsFinite, CardinalityOfUnion
<1>6. /\ Cardinality(Registered) \in Nat /\ Cardinality(Named(components)) \in Nat
      /\ Cardinality(Registered \cup Named(components)) \in Nat
  BY <1>1, <1>4, <1>5, NamedIsFinite, FS_CardinalityType
<1>7. Cardinality(Expected') <= ComponentsLimit /\ IsFiniteSet(Expected')
  BY <1>2, <1>3, <1>5, <1>6, HealthManagerAssumption
<1>8. \A k \in DOMAIN todo' : Kept(todo'[k].target)
  BY <1>2 DEF TargetsStay, Kept
<1>. QED
  BY <1>2, <1>7, <1>8 DEF ExpectedInv

LEMMA AddNextExpects ==
    ASSUME IInv, ExpectedInv, AddNext
    PROVE  ExpectedInv'
<1> DEFINE c == Head(todo)
<1>1. /\ c \in Component /\ todo \in Seq(Component) /\ todo # << >> /\ owner = "add"
      /\ Register(c) /\ targets' = TargetsWith(c) /\ todo' = Tail(todo) /\ owner' = owner
  BY DEF IInv, TypeOK, AddNext
<1>2. Registered' = Registered \cup {c.id}
  BY <1>1, RegisterType
<1>3. DOMAIN targets' \subseteq DOMAIN targets \cup ({c.target} \ {NoTarget})
  BY <1>1 DEF TargetsWith, Put
<1>4. /\ c = todo[1] /\ 1 \in DOMAIN todo
      /\ \A k \in DOMAIN Tail(todo) : k + 1 \in DOMAIN todo /\ Tail(todo)[k] = todo[k + 1]
  BY <1>1
<1>. HIDE DEF c
<1>5. {c.id} \cup ({c.target} \ {NoTarget}) \cup Named(Tail(todo)) \subseteq Named(todo)
  <2>1. c.id \in Named(todo) /\ {c.target} \ {NoTarget} \subseteq Named(todo)
    BY <1>4 DEF Named
  <2>2. Named(Tail(todo)) \subseteq Named(todo)
    <3>. SUFFICES ASSUME NEW i \in Named(Tail(todo))
                  PROVE  i \in Named(todo)
      OBVIOUS
    <3>1. PICK k \in DOMAIN Tail(todo) :
              i \in {Tail(todo)[k].id} \cup ({Tail(todo)[k].target} \ {NoTarget})
      BY DEF Named
    <3>2. /\ k + 1 \in DOMAIN todo
          /\ i \in {todo[k + 1].id} \cup ({todo[k + 1].target} \ {NoTarget})
      BY <1>4, <3>1
    <3>. QED
      BY <3>2 DEF Named
  <2>. QED
    BY <2>1, <2>2
<1>6. Expected' \subseteq Expected
  <2>1. Named(todo)' = Named(Tail(todo))
    BY <1>1 DEF Named
  <2>2. Expected' = Registered' \cup (DOMAIN targets)' \cup Named(todo)'
    BY DEF Expected
  <2>. QED
    BY <1>2, <1>3, <1>5, <2>1, <2>2 DEF Expected
<1>7. /\ \A t \in DOMAIN targets' : Kept(t)
      /\ \A k \in DOMAIN todo' : Kept(todo'[k].target)
  BY <1>1, <1>3, <1>4 DEF ExpectedInv, Kept
<1>. QED
  BY <1>1, <1>6, <1>7, Fewer DEF ExpectedInv

LEMMA AddMissingTargetExpects ==
    ASSUME IInv, ExpectedInv, AddMissingTarget
    PROVE  ExpectedInv'
<1>1. PICK t \in MissingTargets : Register(TargetComponent(t, targets[t]))
  BY DEF AddMissingTarget
<1>2. TargetComponent(t, targets[t]) \in Component /\ TargetComponent(t, targets[t]).id = t
  <2>1. t \in Ids /\ targets[t] \in BOOLEAN
    BY <1>1 DEF MissingTargets, IInv, TypeOK, IsMap
  <2>. QED
    BY <2>1, TargetComponentType DEF TargetComponent
<1>3. Registered' = Registered \cup {t} /\ t \in DOMAIN targets
  BY <1>1, <1>2, RegisterType DEF MissingTargets
<1>4. targets' = targets /\ todo' = todo /\ owner' = owner /\ owner = "add"
  BY DEF AddMissingTarget
<1>5. Expected' \subseteq Expected
  BY <1>3, <1>4 DEF Expected, Named
<1>. QED
  BY <1>4, <1>5, Fewer DEF ExpectedInv, Kept

LEMMA DeleteExpects ==
    ASSUME IInv, ExpectedInv, NEW ids \in DeleteArgs, DeleteComponents(ids)
    PROVE  ExpectedInv'
<1> DEFINE named == ids \cap Registered
           left  == Registered \ named
           impacted(S) == {rawHealth[i].component.target : i \in S} \ {NoTarget}
           targetsToRemove == impacted(named) \ impacted(left)
<1>1. /\ rawHealth' = Restrict(rawHealth, left \ targetsToRemove)
      /\ targets' = Restrict(targets, DOMAIN targets \ targetsToRemove)
      /\ owner = "free" /\ owner' = owner /\ todo' = todo
  BY DEF DeleteComponents, Lock, adding
<1>. HIDE DEF targetsToRemove
<1>2. /\ Registered' = left \ targetsToRemove
      /\ DOMAIN targets' = DOMAIN targets \ targetsToRemove
  BY <1>1 DEF Restrict, Registered
<1>3. DOMAIN targets' \subseteq Registered'
  BY <1>1, <1>2 DEF ExpectedInv, Kept
<1>4. Expected' \subseteq Expected
  BY <1>1, <1>2 DEF Expected, Named
<1>. QED
  BY <1>1, <1>2, <1>3, <1>4, Fewer DEF ExpectedInv, Kept

LEMMA CollectExpects ==
    ASSUME IInv, ExpectedInv, NEW ms \in Measurements, Collect(ms)
    PROVE  ExpectedInv'
<1>1. /\ Registered' = Registered \cup {ms.id} /\ targets' = targets /\ todo' = todo
      /\ owner = "free" /\ owner' = owner
  BY DEF Collect, Lock, Put, Registered, adding
<1>2. CASE ms.id \in Registered
  <2>1. Expected' \subseteq Expected
    BY <1>1, <1>2 DEF Expected, Named
  <2>. QED
    BY <1>1, <2>1, Fewer DEF ExpectedInv, Kept
<1>3. CASE ms.id \notin Registered
  <2>1. Cardinality(Registered) + 1 <= ComponentsLimit
    <3>1. IsFiniteSet(Registered)
      BY <1>1, FS_Subset, Registered \in SUBSET Expected DEF ExpectedInv, Expected
    <3>. QED
      BY <1>3, <3>1, FS_CardinalityType, HealthManagerAssumption DEF Collect, Refused
  <2>2. Expected = Registered /\ Expected' = Registered \cup {ms.id}
    BY <1>1 DEF ExpectedInv, Expected, Named
  <2>3. /\ IsFiniteSet(Registered \cup {ms.id})
        /\ Cardinality(Registered \cup {ms.id}) = Cardinality(Registered) + 1
    BY <1>3, <2>2, FS_AddElement DEF ExpectedInv
  <2>. QED
    BY <1>1, <2>1, <2>2, <2>3 DEF ExpectedInv, Kept
<1>. QED
  BY <1>2, <1>3

LEMMA ExpectedStep ==
    ASSUME TargetsStay, IInv, ExpectedInv, [Next]_vars
    PROVE  ExpectedInv'
<1>1. CASE EndAdd
  BY <1>1 DEF EndAdd, ExpectedInv, MissingTargets, Expected, Registered, Named, registry, Kept
<1>2. CASE BeginCycle
  BY <1>2 DEF BeginCycle, Lock, ExpectedInv, Expected, Registered, Named, registry, adding, Kept
<1>3. CASE EndCycle
  <2>1. owner = "cycle"
    BY <1>3 DEF EndCycle, RangeDone, IInv, CycleInv
  <2>. QED
    BY <1>3, <2>1
       DEF EndCycle, ExpectedInv, Expected, Registered, Named, registry, adding, Kept
<1>4. CASE \E i \in visit : Calculate(i)
  BY <1>4 DEF Calculate, ExpectedInv, Expected, Registered, Named, adding, Kept
<1>5. CASE UNCHANGED <<rawHealth, targets, owner, todo>>
  BY <1>5 DEF ExpectedInv, Expected, Registered, Named, Kept
<1>6. \/ \E tp \in PriorityArgs : SetPriority(tp[1], tp[2])
      \/ \E newConfig \in Configs : UpdateConfig(newConfig)
      \/ LaunchGoroutines \/ StoreStarted \/ SendComponentsInfo
      \/ \E ms \in Measurements : CollectPanics(ms)
      \/ BeginTargets \/ \E t \in Ids : Descend(t)
      \/ RangePanics \/ PushTarget \/ UNCHANGED vars
      => UNCHANGED <<rawHealth, targets, owner, todo>>
  BY DEF SetPriority, UpdateConfig, LaunchGoroutines, StoreStarted, SendComponentsInfo,
         CollectPanics, BeginTargets, Descend, RangePanics, PushTarget, vars, registry, adding
<1>. QED
  BY <1>1, <1>2, <1>3, <1>4, <1>5, <1>6, BeginAddExpects, AddNextExpects,
     AddMissingTargetExpects, DeleteExpects, CollectExpects DEF Next, AddSteps, CycleSteps

(* The registry never outgrows ComponentsLimit, targets made by AddComponents and components  *)
(* registered on collect included, if no target is deleted by name while it may be impacted.  *)
THEOREM ComponentsWithinLimit ==
    ASSUME CustomsReturnStatuses, TargetsStay PROVE Spec => []LimitInv
<1>1. Init => ExpectedInv
  <2>. SUFFICES ASSUME Init PROVE ExpectedInv
    OBVIOUS
  <2>1. Expected = {} /\ DOMAIN todo = {}
    BY DEF Init, Expected, Registered, Named
  <2>. QED
    BY <2>1, FS_EmptySet, HealthManagerAssumption DEF Init, ExpectedInv
<1>2. IInv /\ ExpectedInv /\ [Next]_vars => ExpectedInv'
  BY ExpectedStep
<1>3. ExpectedInv => LimitInv
  <2>. SUFFICES ASSUME ExpectedInv PROVE LimitInv
    OBVIOUS
  <2>1. IsFiniteSet(Expected) /\ Registered \in SUBSET Expected
    BY DEF ExpectedInv, Expected
  <2>2. IsFiniteSet(Registered) /\ Cardinality(Registered) <= Cardinality(Expected)
    BY <2>1, FS_Subset
  <2>3. Cardinality(Registered) \in Nat /\ Cardinality(Expected) \in Nat
    BY <2>1, <2>2, FS_CardinalityType
  <2>. QED
    BY <2>2, <2>3, HealthManagerAssumption DEF ExpectedInv, LimitInv
<1>. QED
  BY <1>1, <1>2, <1>3, Invariance, PTL DEF Spec

-----------------------------------------------------------------------------
(* The measures of one raw health, and of the components AddComponents has still to register. *)
Measured(c) ==
    MeasureCount(c) = Cardinality(Measures(c)) /\ MeasureCount(c) <= MeasuresLimit

Sound(r) ==
    /\ \A m \in MeasureIds : r.metrics[m].aggregator = r.component.metrics[m]
    /\ r.counted \subseteq r.component.counterIDs \cup r.component.totalCounterIDs
    /\ Measured(r.component)

SoundInv ==
    /\ \A i \in Registered : Sound(rawHealth[i])
    /\ \A k \in DOMAIN todo : Measured(todo[k])

(* There are finitely many measure IDs, and a component may have at least one measure. *)
MeasuresAreFinite == IsFiniteSet(MeasureIds) /\ MeasuresLimit >= 1

LEMMA MeasuresType ==
    ASSUME MeasuresAreFinite, NEW c \in Component
    PROVE  /\ IsFiniteSet(MetricIDs(c)) /\ IsFiniteSet(c.counterIDs)
           /\ IsFiniteSet(c.totalCounterIDs) /\ IsFiniteSet(Measures(c))
           /\ Cardinality(MetricIDs(c)) \in Nat /\ Cardinality(c.counterIDs) \in Nat
           /\ Cardinality(c.totalCounterIDs) \in Nat /\ Cardinality(Measures(c)) \in Nat
           /\ MeasureCount(c) \in Nat
<1>1. /\ MetricIDs(c) \in SUBSET MeasureIds /\ c.counterIDs \in SUBSET MeasureIds
      /\ c.totalCounterIDs \in SUBSET MeasureIds /\ Measures(c) \in SUBSET MeasureIds
  BY DEF MetricIDs, Measures, Component
<1>2. /\ IsFiniteSet(MetricIDs(c)) /\ IsFiniteSet(c.counterIDs)
      /\ IsFiniteSet(c.totalCounterIDs) /\ IsFiniteSet(Measures(c))
  BY <1>1, FS_Subset DEF MeasuresAreFinite
<1>3. /\ Cardinality(MetricIDs(c)) \in Nat /\ Cardinality(c.counterIDs) \in Nat
      /\ Cardinality(c.totalCounterIDs) \in Nat /\ Cardinality(Measures(c)) \in Nat
  BY <1>2, FS_CardinalityType
<1>. QED
  BY <1>2, <1>3 DEF MeasureCount

(* The test of New, no fewer IDs than measures, means that no ID is used twice. *)
LEMMA NewIsMeasured ==
    ASSUME MeasuresAreFinite, NEW c \in Component, NewSucceeds(c)
    PROVE  Measured(c)
<1> DEFINE M == MetricIDs(c)
           C == c.counterIDs
           T == c.totalCounterIDs
<1>1. /\ IsFiniteSet(M) /\ IsFiniteSet(C) /\ IsFiniteSet(T) /\ IsFiniteSet(M \cup C)
      /\ Cardinality(M \cup C) <= Cardinality(M) + Cardinality(C)
  BY MeasuresType, CardinalityOfUnion
<1>2. Cardinality((M \cup C) \cup T) <= Cardinality(M \cup C) + Cardinality(T)
  BY <1>1, CardinalityOfUnion
<1>3. Cardinality(M \cup C) \in Nat
  BY <1>1, FS_CardinalityType
<1>4. Measures(c) = (M \cup C) \cup T
  BY DEF Measures
<1>. HIDE DEF M, C, T
<1>5. Cardinality(Measures(c)) <= Cardinality(M) + Cardinality(C) + Cardinality(T)
  <2>1. Cardinality(M) \in Nat /\ Cardinality(C) \in Nat /\ Cardinality(T) \in Nat
    BY <1>1, FS_CardinalityType
  <2>2. Cardinality(Measures(c)) \in Nat
    BY MeasuresType
  <2>. QED
    BY <1>1, <1>2, <1>3, <1>4, <2>1, <2>2
<1>6. MeasureCount(c) = Cardinality(M) + Cardinality(C) + Cardinality(T)
  BY DEF MeasureCount, M, C, T
<1>7. Cardinality(Measures(c)) \in Nat /\ MeasureCount(c) \in Nat
  BY MeasuresType
<1>. QED
  BY <1>5, <1>6, <1>7, HealthComponentAssumption DEF NewSucceeds, Measured

(* A measure registered on collect, as a metric or as a counter, is one ID more in one place. *)
LEMMA OneMeasureMore ==
    ASSUME MeasuresAreFinite, NEW c \in Component, NEW d \in Component, Measured(c),
           NEW m \in MeasureIds, MayRegister(c, m, TRUE),
           d.totalCounterIDs = c.totalCounterIDs,
           \/ MetricIDs(d) = MetricIDs(c) \cup {m} /\ d.counterIDs = c.counterIDs
           \/ MetricIDs(d) = MetricIDs(c) /\ d.counterIDs = c.counterIDs \cup {m}
    PROVE  Measured(d)
<1>1. m \notin Measures(c) /\ MeasureCount(c) + 1 <= MeasuresLimit
  BY MeasuresType, HealthComponentAssumption
     DEF MayRegister, IsMeasureIDUnique, IsMeasuresLimitExceeded
<1>2. m \notin MetricIDs(c) /\ m \notin c.counterIDs
  BY <1>1 DEF Measures
<1>3. Measures(d) = Measures(c) \cup {m}
  BY DEF Measures
<1>4. Cardinality(Measures(d)) = Cardinality(Measures(c)) + 1
  BY <1>1, <1>3, MeasuresType, FS_AddElement
<1>5. /\ Cardinality(MetricIDs(c) \cup {m}) = Cardinality(MetricIDs(c)) + 1
      /\ Cardinality(c.counterIDs \cup {m}) = Cardinality(c.counterIDs) + 1
  BY <1>2, MeasuresType, FS_AddElement
<1>6. MeasureCount(d) = MeasureCount(c) + 1
  <2>1. /\ Cardinality(MetricIDs(c)) \in Nat /\ Cardinality(c.counterIDs) \in Nat
        /\ Cardinality(c.totalCounterIDs) \in Nat
    BY MeasuresType
  <2>2. \/ /\ Cardinality(MetricIDs(d)) = Cardinality(MetricIDs(c)) + 1
           /\ Cardinality(d.counterIDs) = Cardinality(c.counterIDs)
        \/ /\ Cardinality(MetricIDs(d)) = Cardinality(MetricIDs(c))
           /\ Cardinality(d.counterIDs) = Cardinality(c.counterIDs) + 1
    BY <1>5
  <2>. QED
    BY <2>1, <2>2 DEF MeasureCount
<1>. QED
  BY <1>1, <1>4, <1>6 DEF Measured

LEMMA SameMeasures ==
    ASSUME NEW c, NEW d, Measured(c), d.totalCounterIDs = c.totalCounterIDs,
           MetricIDs(d) = MetricIDs(c), d.counterIDs = c.counterIDs
    PROVE  Measured(d)
  BY DEF Measured, MeasureCount, Measures

LEMMA NewRawHealthIsSound ==
    ASSUME NEW c \in Component, Measured(c)
    PROVE  Sound(NewRawHealth(c))
  BY DEF Sound, NewRawHealth

LEMMA UpdatedMetricIsSound ==
    ASSUME MeasuresAreFinite, NEW r \in RawHealth, Sound(r), NEW ms \in Measurement,
           NEW reg \in BOOLEAN
    PROVE  Sound(UpdatedMetric(r, ms, reg))
<1> DEFINE m == ms.measureID
           u == UpdatedMetric(r, ms, reg)
<1>1. m \in MeasureIds /\ r.component \in Component
  BY DEF Measurement, RawHealth
<1>2. CASE m \in MetricIDs(r.component)
  <2>1. u = [r EXCEPT !.metrics[m].values = Append(@, ms.value)]
    BY <1>2 DEF UpdatedMetric
  <2>2. /\ u.component = r.component /\ u.counted = r.counted
        /\ \A k \in MeasureIds : u.metrics[k].aggregator = r.metrics[k].aggregator
    BY <1>1, <2>1 DEF RawHealth, Accumulator
  <2>. HIDE DEF u
  <2>3. Sound(u)
    BY <2>2 DEF Sound
  <2>. QED
    BY <2>3 DEF u
<1>3. CASE m \notin MetricIDs(r.component) /\ MayRegister(r.component, m, reg)
  <2>1. u = [r EXCEPT !.component.metrics[m] = DefaultAggregator,
                      !.metrics[m] = [values |-> <<ms.value>>, aggregator |-> DefaultAggregator]]
    BY <1>3 DEF UpdatedMetric
  <2>2. /\ u.component = [r.component EXCEPT !.metrics[m] = DefaultAggregator]
        /\ u.counted = r.counted
        /\ u.metrics = [r.metrics EXCEPT ![m] = [values |-> <<ms.value>>,
                                                 aggregator |-> DefaultAggregator]]
    BY <2>1 DEF RawHealth, Component
  <2>3. u.component \in Component
    BY <1>1, <2>2 DEF Component, Aggregators, DefaultAggregator
  <2>4. /\ MetricIDs(u.component) = MetricIDs(r.component) \cup {m}
        /\ u.component.counterIDs = r.component.counterIDs
        /\ u.component.totalCounterIDs = r.component.totalCounterIDs
    BY <1>1, <2>2 DEF Component, MetricIDs, DefaultAggregator, NoMetric
  <2>5. \A k \in MeasureIds : u.metrics[k].aggregator = u.component.metrics[k]
    BY <1>1, <2>2 DEF Sound, RawHealth, Component
  <2>6. MayRegister(r.component, m, TRUE)
    BY <1>3 DEF MayRegister
  <2>. HIDE DEF u, m
  <2>7. Measured(u.component)
    BY <1>1, <2>3, <2>4, <2>6, OneMeasureMore DEF Sound
  <2>8. Sound(u)
    BY <2>2, <2>4, <2>5, <2>7 DEF Sound
  <2>. QED
    BY <2>8 DEF u, m
<1>4. CASE m \notin MetricIDs(r.component) /\ ~MayRegister(r.component, m, reg)
  BY <1>4 DEF UpdatedMetric
<1>. QED
  BY <1>2, <1>3, <1>4

LEMMA UpdatedCounterIsSound ==
    ASSUME MeasuresAreFinite, NEW r \in RawHealth, Sound(r), NEW ms \in Measurement,
           NEW reg \in BOOLEAN
    PROVE  Sound(UpdatedCounter(r, ms, reg))
<1> DEFINE m == ms.measureID
           u == UpdatedCounter(r, ms, reg)
<1>1. m \in MeasureIds /\ r.component \in Component
  BY DEF Measurement, RawHealth
<1>2. CASE m \in r.component.totalCounterIDs
  <2>1. u = [r EXCEPT !.totalCounters[m] = Wrap32(@ + ms.value), !.counted = @ \cup {m}]
    BY <1>2 DEF UpdatedCounter
  <2>2. u.component = r.component /\ u.counted = r.counted \cup {m} /\ u.metrics = r.metrics
    BY <2>1 DEF RawHealth
  <2>. HIDE DEF u
  <2>3. Sound(u)
    BY <1>2, <2>2 DEF Sound
  <2>. QED
    BY <2>3 DEF u
<1>3. CASE /\ m \notin r.component.totalCounterIDs
           /\ m \in r.component.counterIDs \/ MayRegister(r.component, m, reg)
  <2>1. u = [r EXCEPT !.component.counterIDs = @ \cup {m},
                      !.counters[m] = Wrap32(@ + ms.value), !.counted = @ \cup {m}]
    BY <1>3 DEF UpdatedCounter
  <2>2. /\ u.component = [r.component EXCEPT !.counterIDs = @ \cup {m}]
        /\ u.counted = r.counted \cup {m} /\ u.metrics = r.metrics
    BY <2>1 DEF RawHealth, Component
  <2>3. /\ u.component \in Component
        /\ u.component.metrics = r.component.metrics
        /\ u.component.counterIDs = r.component.counterIDs \cup {m}
        /\ u.component.totalCounterIDs = r.component.totalCounterIDs
    BY <1>1, <2>2 DEF Component
  <2>4. MetricIDs(u.component) = MetricIDs(r.component)
    BY <2>3 DEF MetricIDs
  <2>. HIDE DEF u, m
  <2>5. Measured(u.component)
    <3>1. CASE m \in r.component.counterIDs
      BY <2>3, <2>4, <3>1, SameMeasures, r.component.counterIDs \cup {m} = r.component.counterIDs
         DEF Sound
    <3>2. CASE MayRegister(r.component, m, reg)
      BY <1>1, <2>3, <2>4, <3>2, OneMeasureMore DEF Sound, MayRegister
    <3>. QED
      BY <1>3, <3>1, <3>2
  <2>6. Sound(u)
    BY <2>2, <2>3, <2>5 DEF Sound
  <2>. QED
    BY <2>6 DEF u, m
<1>4. CASE /\ m \notin r.component.totalCounterIDs
           /\ ~(m \in r.component.counterIDs \/ MayRegister(r.component, m, reg))
  BY <1>4 DEF UpdatedCounter
<1>. QED
  BY <1>2, <1>3, <1>4

LEMMA UpdatedIsSound ==
    ASSUME MeasuresAreFinite, NEW r \in RawHealth, Sound(r), NEW ms \in Measurement,
           NEW reg \in BOOLEAN
    PROVE  Sound(Updated(r, ms, reg))
<1>1. CASE ms.measureType = "Metric"
  BY <1>1, UpdatedMetricIsSound DEF Updated
<1>2. CASE ms.measureType = "CounterChange"
  BY <1>2, UpdatedCounterIsSound DEF Updated
<1>3. CASE ms.measureType \in {"Heartbeat", "HealthStatus", "Message"}
  <2>1. /\ Updated(r, ms, reg).component = r.component
        /\ Updated(r, ms, reg).counted = r.counted
        /\ Updated(r, ms, reg).metrics = r.metrics
    BY <1>3 DEF Updated, UpdatedMessages, RawHealth
  <2>. QED
    BY <2>1 DEF Sound
<1>. QED
  BY <1>1, <1>2, <1>3 DEF Measurement, MeasureTypes

LEMMA CleanIsSound ==
    ASSUME NEW r \in RawHealth, Sound(r)
    PROVE  Sound(CleanHealthValues(r))
<1> DEFINE u == CleanHealthValues(r)
<1>1. /\ u.component = r.component /\ u.counted = r.counted
      /\ \A m \in MeasureIds : u.metrics[m].aggregator = r.metrics[m].aggregator
  BY DEF CleanHealthValues, RawHealth
<1>. HIDE DEF u
<1>. QED
  BY <1>1 DEF Sound, u

(* Components the manager makes itself: for a target, and on collect. *)
LEMMA MadeIsMeasured ==
    ASSUME MeasuresAreFinite
    PROVE  /\ \A t \in Ids, hb \in BOOLEAN : Measured(TargetComponent(t, hb))
           /\ \A ms \in Measurement : Measured(BuildComponentFromMeasure(ms))
<1>1. Cardinality({}) = 0 /\ \A m \in MeasureIds : Cardinality({m}) = 1
  BY FS_EmptySet, FS_Singleton
<1>2. ASSUME NEW t \in Ids, NEW hb \in BOOLEAN
      PROVE  Measured(TargetComponent(t, hb))
  <2>1. /\ MetricIDs(TargetComponent(t, hb)) = {}
        /\ TargetComponent(t, hb).counterIDs = {} /\ TargetComponent(t, hb).totalCounterIDs = {}
    BY DEF MetricIDs, TargetComponent
  <2>. QED
    BY <1>1, <2>1, HealthComponentAssumption DEF Measured, MeasureCount, Measures
<1>3. ASSUME NEW ms \in Measurement
      PROVE  Measured(BuildComponentFromMeasure(ms))
  <2> DEFINE c == BuildComponentFromMeasure(ms)
  <2>1. ms.measureID \in MeasureIds
    BY DEF Measurement
  <2>2. /\ c.totalCounterIDs = {}
        /\ MetricIDs(c) = IF ms.measureType = "Metric" THEN {ms.measureID} ELSE {}
        /\ c.counterIDs = IF ms.measureType = "CounterChange" THEN {ms.measureID} ELSE {}
    BY <2>1 DEF BuildComponentFromMeasure, MetricIDs, DefaultAggregator, NoMetric
  <2>. HIDE DEF c
  <2>3. \/ MetricIDs(c) = {} /\ c.counterIDs = {}
        \/ MetricIDs(c) = {ms.measureID} /\ c.counterIDs = {}
        \/ MetricIDs(c) = {} /\ c.counterIDs = {ms.measureID}
    BY <2>2
  <2>4. MeasureCount(c) = Cardinality(Measures(c)) /\ MeasureCount(c) \in 0 .. 1
    BY <1>1, <2>1, <2>2, <2>3 DEF MeasureCount, Measures
  <2>5. Measured(c)
    BY <2>4, HealthComponentAssumption DEF Measured, MeasuresAreFinite
  <2>. QED
    BY <2>5 DEF c
<1>. QED
  BY <1>2, <1>3

LEMMA AddNextIsSound ==
    ASSUME MeasuresAreFinite, IInv, SoundInv, AddNext
    PROVE  SoundInv'
<1> DEFINE c == Head(todo)
<1>1. /\ c \in Component /\ todo \in Seq(Component) /\ todo # << >>
      /\ rawHealth' = Put(rawHealth, c.id, NewRawHealth(c)) /\ todo' = Tail(todo)
  BY DEF IInv, TypeOK, AddNext, Register
<1>2. /\ c = todo[1] /\ 1 \in DOMAIN todo
      /\ \A k \in DOMAIN Tail(todo) : k + 1 \in DOMAIN todo /\ Tail(todo)[k] = todo[k + 1]
  BY <1>1
<1>. HIDE DEF c
<1>3. Sound(NewRawHealth(c))
  BY <1>1, <1>2, NewRawHealthIsSound DEF SoundInv
<1>. QED
  BY <1>1, <1>2, <1>3 DEF SoundInv, Registered, Put

LEMMA AddMissingTargetIsSound ==
    ASSUME MeasuresAreFinite, IInv, SoundInv, AddMissingTarget
    PROVE  SoundInv'
<1>1. PICK t \in MissingTargets : Register(TargetComponent(t, targets[t]))
  BY DEF AddMissingTarget
<1>2. t \in Ids /\ targets[t] \in BOOLEAN
  BY <1>1 DEF MissingTargets, IInv, TypeOK, IsMap
<1> DEFINE c == TargetComponent(t, targets[t])
<1>3. c \in Component /\ Measured(c)
  BY <1>2, TargetComponentType, MadeIsMeasured
<1>4. todo' = todo /\ rawHealth' = Put(rawHealth, c.id, NewRawHealth(c))
  BY <1>1 DEF AddMissingTarget, Register
<1>. HIDE DEF c
<1>. QED
  BY <1>3, <1>4, NewRawHealthIsSound DEF SoundInv, Registered, Put

LEMMA CollectIsSound ==
    ASSUME MeasuresAreFinite, IInv, SoundInv, NEW ms \in Measurements, Collect(ms)
    PROVE  SoundInv'
<1>1. ms \in Measurement /\ config.registrationOnCollect \in BOOLEAN
  BY HealthManagerAssumption DEF IInv, TypeOK, Config
<1>2. Collecting(ms) \in RawHealth /\ Sound(Collecting(ms))
  <2>1. CASE ms.id \in Registered
    BY <2>1 DEF Collecting, SoundInv, IInv, TypeOK, IsMap, Registered
  <2>2. CASE ms.id \notin Registered
    BY <1>1, <2>2, BuildComponentType, MadeIsMeasured, NewRawHealthType, NewRawHealthIsSound
       DEF Collecting
  <2>. QED
    BY <2>1, <2>2
<1>3. Sound(Updated(Collecting(ms), ms, config.registrationOnCollect))
  BY <1>1, <1>2, UpdatedIsSound
<1>4. /\ rawHealth' = Put(rawHealth, ms.id,
                          Updated(Collecting(ms), ms, config.registrationOnCollect))
      /\ todo' = todo
  BY DEF Collect, adding
<1>. QED
  BY <1>3, <1>4 DEF SoundInv, Registered, Put

LEMMA SoundStep ==
    ASSUME MeasuresAreFinite, IInv, SoundInv, [Next]_vars
    PROVE  SoundInv'
<1>1. ASSUME NEW components \in AddArgs, BeginAdd(components) PROVE SoundInv'
  <2>1. \A k \in DOMAIN components : Measured(components[k])
    BY HealthManagerAssumption, NewIsMeasured
  <2>. QED
    BY <1>1, <2>1 DEF BeginAdd, SoundInv, Registered, registry
<1>2. ASSUME NEW ids \in DeleteArgs, DeleteComponents(ids) PROVE SoundInv'
  BY <1>2 DEF DeleteComponents, SoundInv, Registered, Restrict, adding
<1>3. ASSUME NEW i \in visit, Calculate(i) PROVE SoundInv'
  <2>1. i \in Registered /\ rawHealth[i] \in RawHealth
    BY <1>3 DEF IInv, CycleInv, TypeOK, IsMap, Registered
  <2>2. Sound(CleanHealthValues(rawHealth[i]))
    BY <2>1, CleanIsSound DEF SoundInv
  <2>. QED
    BY <1>3, <2>2 DEF Calculate, SoundInv, Registered, adding
<1>4. CASE UNCHANGED <<rawHealth, todo>>
  BY <1>4 DEF SoundInv, Registered
<1>5. \/ \E tp \in PriorityArgs : SetPriority(tp[1], tp[2])
      \/ \E newConfig \in Configs : UpdateConfig(newConfig)
      \/ LaunchGoroutines \/ StoreStarted \/ SendComponentsInfo \/ EndAdd
      \/ \E ms \in Measurements : CollectPanics(ms)
      \/ BeginCycle \/ BeginTargets \/ \E t \in Ids : Descend(t)
      \/ RangePanics \/ PushTarget \/ EndCycle \/ UNCHANGED vars
      => UNCHANGED <<rawHealth, todo>>
  BY DEF SetPriority, UpdateConfig, LaunchGoroutines, StoreStarted, SendComponentsInfo, EndAdd,
         CollectPanics, BeginCycle, BeginTargets, Descend, RangePanics, PushTarget, EndCycle, vars,
         registry, adding
<1>. QED
  BY <1>1, <1>2, <1>3, <1>4, <1>5, AddNextIsSound, AddMissingTargetIsSound, CollectIsSound
     DEF Next, AddSteps, CycleSteps

(* Whatever is registered on collect, and in whatever order, every measure of a component is of *)
(* one kind, with the accumulator of that kind, and there are no more than MeasuresLimit.       *)
THEOREM MeasuresStaySound ==
    ASSUME CustomsReturnStatuses, MeasuresAreFinite PROVE Spec => []MeasuresInv
<1>1. Init => SoundInv
  BY DEF Init, SoundInv, Registered
<1>2. IInv /\ SoundInv /\ [Next]_vars => SoundInv'
  BY SoundStep
<1>3. SoundInv => MeasuresInv
  BY DEF SoundInv, Sound, Measured, MeasuresInv
<1>. QED
  BY <1>1, <1>2, <1>3, Invariance, PTL DEF Spec

-----------------------------------------------------------------------------
(***************************************************************************)
(* The health manager implements HealthReport, for every registry, graph   *)
(* of targets and set of health functions.                                 *)
(*                                                                         *)
(* Between BeginCycle and EndCycle HealthReport does nothing.  ReportsInv  *)
(* says what has become meanwhile of the registry the cycle began with:    *)
(* what each target was told is exactly what was published of the          *)
(* components that impact it, a health was published at most once, and the *)
(* targets published or being built are ones whose chain of targets ends,  *)
(* each below the one it impacts.                                          *)
(*                                                                         *)
(* And every measurement is reported in the cycle it is collected in, and  *)
(* in no other.  LedgerInv says why: a raw health is what the measurements *)
(* of its component since it was last reset, taken in their order, make of *)
(* the status and the total counters that reset carried over.              *)
(***************************************************************************)

(* The raw health and the target of i when the cycle began. *)
Begun(i)    == before.rawHealth[i]
TargetOf(i) == before.rawHealth[i].component.target

Pushed == {i \in Ids : pushes[i] > 0}

(* What t has been told of. *)
PushedTo(t) == {k \in Pushed : TargetOf(k) = t}

(* Targets pushed or being built. *)
Building == {stack[k].id : k \in DOMAIN stack} \ {NoTarget}
Done     == (Pushed \cap DOMAIN own) \cup Building

(* What a target is told when it is told of the published healths of K. *)
Saying(K, by, status, priority) ==
    {k \in K : <<by[k].status, PriorityForType(by[k].type)>> = <<status, priority>>}

Told(K, by, enabled) ==
    [counts   |-> [sp \in Statuses \X Priorities |-> Cardinality(Saying(K, by, sp[1], sp[2]))],
     enabled  |-> enabled,
     beats    |-> \E k \in K : by[k].beats,
     messages |-> {<<k, by[k].status>> : k \in {j \in K : by[j].status # "Healthy"}}]

(* The registry is the one the cycle began with, cleaned where it has been calculated. *)
MomentInv ==
    /\ IsMap(before.rawHealth, Ids, RawHealth)
    /\ DOMAIN before.rawHealth = Registered
    /\ \A i \in Registered :
          rawHealth[i] = IF i \in visit THEN Begun(i) ELSE CleanHealthValues(Begun(i))
    /\ config.targetHealthFn \in before.functions

OnceInv ==
    /\ \A i \in Ids : pushes[i] \in {0, 1}
    /\ Pushed \subseteq Registered \ visit /\ IsFiniteSet(Pushed)
    /\ DOMAIN report = Pushed
    /\ \A i \in Pushed : report[i].id = i

OwnInv ==
    \A t \in DOMAIN own :
       /\ t \in Registered \ visit /\ IsTarget(t)
       /\ own[t].target = TargetOf(t)
       /\ t \notin Pushed => own[t] = CalculateComponentHealth(Begun(t))

ToldInv ==
    /\ \A t \in DOMAIN impact \ DOMAIN own : \E i \in PushedTo(t) : ~IsTarget(i)
    /\ \A k \in Pushed : TargetOf(k) # NoTarget => TargetOf(k) \in DOMAIN impact
    /\ \A t \in DOMAIN impact : impact[t] = Told(PushedTo(t), report, HbEnabled(t))

(* The health of the target t with what it was told and the function fn. *)
HealthWith(t, fn) ==
    [CalculateComponentHealth(Begun(t)) EXCEPT
        !.status = Abstract!StatusOf(fn, impact[t].counts),
        !.enabled = @ \/ impact[t].enabled,
        !.beats = @ \/ impact[t].beats,
        !.impacts = impact[t].messages]

ReportInv ==
    \A i \in Pushed :
       IF IsTarget(i)
       THEN /\ \A k \in Registered : TargetOf(k) = i => k \in Pushed
            /\ \E fn \in before.functions : report[i] = HealthWith(i, fn)
       ELSE report[i] = CalculateComponentHealth(Begun(i))

ChainInv ==
    /\ stack = << >> => Done = {}
    /\ stack # << >> => stack[1].id = NoTarget
    /\ \A k \in DOMAIN stack : k # 1 =>
          stack[k].id \notin Pushed /\ TargetOf(stack[k].id) = stack[k - 1].id
    /\ \A j, k \in DOMAIN stack : stack[j].id = stack[k].id => j = k
    /\ \A t \in Done :
          /\ t \in Abstract!Rooted
          /\ TargetOf(t) \in Done \cup {NoTarget}
          /\ \A k \in DOMAIN stack : stack[k].id = TargetOf(t) => t \notin stack[k].rest

ReportsInv ==
    /\ before = [rawHealth |-> before.rawHealth, sent |-> before.sent,
                 functions |-> before.functions]
    /\ owner # "cycle" => DOMAIN impact = {} /\ DOMAIN own = {}
    /\ owner = "cycle" =>
          MomentInv /\ OnceInv /\ OwnInv /\ ToldInv /\ ReportInv /\ ChainInv
-----------------------------------------------------------------------------
(* HealthReport works with the operators of HealthComponent: the instance's are the same. *)
LEMMA SameCardinality == ASSUME NEW S PROVE Abstract!Cardinality(S) = Cardinality(S)
  BY DEF Abstract!Cardinality, Cardinality

LEMMA SameClean == ASSUME NEW r PROVE Abstract!CleanHealthValues(r) = CleanHealthValues(r)
  BY DEF Abstract!CleanHealthValues, CleanHealthValues

LEMMA SameStatus ==
    ASSUME NEW fn, NEW counts
    PROVE  Abstract!StatusOf(fn, counts) =
             IF fn = "default" THEN DefaultTargetHealth(counts) ELSE CustomTargetHealth(fn, counts)
<1>1. Abstract!DefaultTargetHealth(counts) = DefaultTargetHealth(counts)
  BY DEF Abstract!DefaultTargetHealth, DefaultTargetHealth, Abstract!CountOf, CountOf,
         Abstract!SumFunctionOnSet, SumFunctionOnSet, Abstract!Priorities, Priorities,
         Abstract!FoldFunctionOnSet, FoldFunctionOnSet, Abstract!MapThenFoldSet, MapThenFoldSet
<1>. QED
  BY <1>1 DEF Abstract!StatusOf

LEMMA SameHealth ==
    ASSUME NEW r PROVE Abstract!CalculateComponentHealth(r) = CalculateComponentHealth(r)
<1>1. ASSUME NEW s PROVE Abstract!SumOf(s) = SumOf(s)
  BY DEF Abstract!SumOf, SumOf, Abstract!FoldLeft, FoldLeft, Abstract!MapThenFoldSet,
         MapThenFoldSet, Abstract!Max, Max
<1>2. ASSUME NEW s
      PROVE  Abstract!LeastOf(s) = LeastOf(s) /\ Abstract!GreatestOf(s) = GreatestOf(s)
  BY DEF Abstract!LeastOf, LeastOf, Abstract!GreatestOf, GreatestOf, Abstract!Range, Range
<1>3. ASSUME NEW m PROVE Abstract!Aggregate(m) = Aggregate(m)
  BY <1>1, <1>2, Zenon DEF Abstract!Aggregate, Aggregate
<1>. QED
  BY <1>3 DEF Abstract!CalculateComponentHealth, CalculateComponentHealth

-----------------------------------------------------------------------------
(* A target nobody has told anything yet. *)
LEMMA ToldNothing ==
    ASSUME NEW by, NEW t
    PROVE  Told({}, by, HbEnabled(t)) = NewTarget(t)
<1>1. \A sp \in Statuses \X Priorities : Cardinality(Saying({}, by, sp[1], sp[2])) = 0
  <2>1. \A sp \in Statuses \X Priorities : Saying({}, by, sp[1], sp[2]) = {}
    BY DEF Saying
  <2>. QED
    BY <2>1, FS_EmptySet
<1>2. [sp \in Statuses \X Priorities |-> Cardinality(Saying({}, by, sp[1], sp[2]))] = NoImpacts
  BY <1>1 DEF NoImpacts
<1>3. (\E k \in {} : by[k].beats) = FALSE
  OBVIOUS
<1>4. {<<k, by[k].status>> : k \in {j \in {} : by[j].status # "Healthy"}} = {}
  OBVIOUS
<1>. QED
  BY <1>2, <1>3, <1>4, Zenon DEF Told, NewTarget

(* What a target was told depends on the healths published to it alone. *)
LEMMA ToldSame ==
    ASSUME NEW K, NEW by, NEW other, \A k \in K : other[k] = by[k], NEW enabled
    PROVE  Told(K, other, enabled) = Told(K, by, enabled)
<1>1. \A sp \in Statuses \X Priorities :
         Saying(K, other, sp[1], sp[2]) = Saying(K, by, sp[1], sp[2])
  BY DEF Saying
<1>2. [sp \in Statuses \X Priorities |-> Cardinality(Saying(K, other, sp[1], sp[2]))] =
      [sp \in Statuses \X Priorities |-> Cardinality(Saying(K, by, sp[1], sp[2]))]
  BY <1>1
<1>3. (\E k \in K : other[k].beats) = (\E k \in K : by[k].beats)
  OBVIOUS
<1>4. {<<k, other[k].status>> : k \in {j \in K : other[j].status # "Healthy"}} =
      {<<k, by[k].status>> : k \in {j \in K : by[j].status # "Healthy"}}
  OBVIOUS
<1>. QED
  BY <1>2, <1>3, <1>4, Zenon DEF Told

(* updateImpactedTargetInfo adds one health to what a target was told. *)
LEMMA ToldOneMore ==
    ASSUME NEW K, IsFiniteSet(K), NEW by, NEW i, i \notin K, NEW enabled,
           NEW h, IsHealth(h), h.id = i, PriorityForType(h.type) \in Priorities,
           NEW more, \A k \in K : more[k] = by[k], more[i] = h
    PROVE  Told(K \cup {i}, more, enabled) = Impacted(Told(K, by, enabled), h)
<1> DEFINE said == <<h.status, PriorityForType(h.type)>>
           counts == [sp \in Statuses \X Priorities |-> Cardinality(Saying(K, by, sp[1], sp[2]))]
           new == [sp \in Statuses \X Priorities |->
                     Cardinality(Saying(K \cup {i}, more, sp[1], sp[2]))]
           others == {<<k, by[k].status>> : k \in {j \in K : by[j].status # "Healthy"}}
           all == {<<k, more[k].status>> :
                     k \in {j \in K \cup {i} : more[j].status # "Healthy"}}
<1>1. said \in Statuses \X Priorities
  BY DEF IsHealth
<1>2. ASSUME NEW sp \in Statuses \X Priorities
      PROVE  new[sp] = IF sp = said THEN counts[sp] + 1 ELSE counts[sp]
  <2> DEFINE S == Saying(K, by, sp[1], sp[2])
             T == Saying(K \cup {i}, more, sp[1], sp[2])
  <2>1. IsFiniteSet(S) /\ i \notin S
    <3>1. S \subseteq K
      BY DEF Saying
    <3>. QED
      BY <3>1, FS_Subset
  <2>2. sp = <<sp[1], sp[2]>>
    OBVIOUS
  <2>3. T = IF sp = said THEN S \cup {i} ELSE S
    BY <2>2 DEF Saying
  <2>4. Cardinality(S \cup {i}) = Cardinality(S) + 1
    <3>. HIDE DEF S
    <3>. QED
      BY <2>1, FS_AddElement
  <2>5. new[sp] = Cardinality(T) /\ counts[sp] = Cardinality(S)
    OBVIOUS
  <2>. HIDE DEF S, T, new, counts, said
  <2>. QED
    BY <2>3, <2>4, <2>5
<1>3. new = [counts EXCEPT ![said] = @ + 1]
  <2>1. /\ DOMAIN new = Statuses \X Priorities /\ DOMAIN counts = Statuses \X Priorities
        /\ new = [sp \in DOMAIN new |-> new[sp]]
    OBVIOUS
  <2>. HIDE DEF new, counts, said
  <2>. QED
    BY <1>1, <1>2, <2>1
<1>4. (\E k \in K \cup {i} : more[k].beats) = ((\E k \in K : by[k].beats) \/ h.beats)
  OBVIOUS
<1>5. all = IF h.status = "Healthy" THEN others ELSE others \cup {<<h.id, h.status>>}
  OBVIOUS
<1>6. Told(K, by, enabled) = [counts |-> counts, enabled |-> enabled,
                              beats |-> \E k \in K : by[k].beats, messages |-> others]
  BY Zenon DEF Told
<1>7. Told(K \cup {i}, more, enabled) =
        [counts |-> new, enabled |-> enabled, beats |-> \E k \in K \cup {i} : more[k].beats,
         messages |-> all]
  BY Zenon DEF Told
<1> DEFINE beat == \E k \in K : by[k].beats
           beating == \E k \in K \cup {i} : more[k].beats
<1>. HIDE DEF counts, new, others, all, beat, beating
<1>8. Impacted([counts |-> counts, enabled |-> enabled, beats |-> beat, messages |-> others], h) =
        [counts |-> [counts EXCEPT ![said] = @ + 1], enabled |-> enabled, beats |-> beat \/ h.beats,
         messages |-> IF h.status = "Healthy" THEN others ELSE others \cup {<<h.id, h.status>>}]
  <2> DEFINE info == [counts |-> counts, enabled |-> enabled, beats |-> beat, messages |-> others]
  <2>1. /\ info.counts = counts /\ info.beats = beat /\ info.messages = others
        /\ info.enabled = enabled
    OBVIOUS
  <2>2. ASSUME NEW c, NEW b, NEW m
        PROVE  [info EXCEPT !.counts = c, !.beats = b, !.messages = m] =
               [counts |-> c, enabled |-> enabled, beats |-> b, messages |-> m]
    <3> DEFINE one == [info EXCEPT !.counts = c]
               two == [one EXCEPT !.beats = b]
               three == [two EXCEPT !.messages = m]
    <3>1. one = [counts |-> c, enabled |-> enabled, beats |-> beat, messages |-> others]
      OBVIOUS
    <3>. HIDE DEF one
    <3>2. two = [counts |-> c, enabled |-> enabled, beats |-> b, messages |-> others]
      BY <3>1
    <3>. HIDE DEF two
    <3>3. three = [counts |-> c, enabled |-> enabled, beats |-> b, messages |-> m]
      BY <3>2
    <3>. QED
      BY <3>3, Zenon DEF three, two, one
  <2>. HIDE DEF info
  <2>3. Impacted(info, h) =
          [info EXCEPT !.counts = [counts EXCEPT ![said] = @ + 1], !.beats = beat \/ h.beats,
                       !.messages = IF h.status = "Healthy" THEN others
                                    ELSE others \cup {<<h.id, h.status>>}]
    BY <2>1, Zenon DEF Impacted
  <2>. QED
    BY <2>2, <2>3, Zenon DEF info
<1>. QED
  BY <1>3, <1>4, <1>5, <1>6, <1>7, <1>8, Zenon DEF beat, beating

-----------------------------------------------------------------------------
(* A step within a cycle keeps what was remembered of its beginning. *)
Continues ==
    /\ owner = "cycle" /\ owner' = "cycle"
    /\ before' = [before EXCEPT !.functions = @ \cup {config'.targetHealthFn}]

(* All that changes is that one more health function may have been in force. *)
LEMMA ContinuesKeeps ==
    ASSUME ReportsInv, Continues
    PROVE  /\ before'.rawHealth = before.rawHealth /\ before'.sent = before.sent
           /\ before'.functions = before.functions \cup {config'.targetHealthFn}
           /\ (before = [rawHealth |-> before.rawHealth, sent |-> before.sent,
                         functions |-> before.functions])'
           /\ MomentInv /\ OnceInv /\ OwnInv /\ ToldInv /\ ReportInv /\ ChainInv
<1>1. before = [rawHealth |-> before.rawHealth, sent |-> before.sent,
                functions |-> before.functions]
  BY DEF ReportsInv
<1>2. before' = [rawHealth |-> before.rawHealth, sent |-> before.sent,
                 functions |-> before.functions \cup {config'.targetHealthFn}]
  BY <1>1 DEF Continues
<1>3. MomentInv /\ OnceInv /\ OwnInv /\ ToldInv /\ ReportInv /\ ChainInv
  BY DEF ReportsInv, Continues
<1>. QED
  BY <1>2, <1>3

(* The targets whose chain ends are those of the registry the cycle began with. *)
LEMMA RootedStays ==
    ASSUME owner = "cycle", owner' = "cycle", before'.rawHealth = before.rawHealth,
           targets' = targets
    PROVE  Abstract!Rooted' = Abstract!Rooted
  BY DEF Abstract!Rooted, Abstract!Closed, Abstract!Registered, Abstract!IsTarget, Abstract!Target

(* The conjuncts of the invariant at the end of a step within a cycle. *)
LEMMA ContinuesInv ==
    ASSUME ReportsInv, Continues,
           MomentInv', OnceInv', OwnInv', ToldInv', ReportInv', ChainInv'
    PROVE  ReportsInv'
<1>1. owner' = "cycle"
  BY DEF Continues
<1>. QED
  BY <1>1, ContinuesKeeps DEF ReportsInv

(* Between two cycles nothing is pending. *)
LEMMA IdleStep ==
    ASSUME ReportsInv, owner # "cycle", owner' # "cycle", UNCHANGED <<impact, own>>,
           before' = NoneBefore
    PROVE  ReportsInv'
  BY DEF ReportsInv, NoneBefore

(* Steps that move nothing but the stack. *)
LEMMA StackMoves ==
    ASSUME ReportsInv, Continues, UNCHANGED <<registry, visit, impact, own, output>>, ChainInv'
    PROVE  ReportsInv'
<1>. USE ContinuesKeeps
<1>1. UNCHANGED <<rawHealth, targets, typePriorities, visit, impact, own, pushes, report>>
  BY DEF registry, output
<1>2. MomentInv'
  BY <1>1 DEF MomentInv, Begun, Registered
<1>3. Pushed' = Pushed /\ OnceInv'
  BY <1>1 DEF OnceInv, Pushed, Registered
<1>4. OwnInv'
  BY <1>1, <1>3 DEF OwnInv, Registered, IsTarget, TargetOf, Begun
<1>5. ToldInv'
  <2>1. \A t : PushedTo(t)' = PushedTo(t) /\ HbEnabled(t)' = HbEnabled(t)
    BY <1>1, <1>3 DEF PushedTo, TargetOf, HbEnabled, IsTarget
  <2>2. \A t : Told(PushedTo(t), report, HbEnabled(t))' = Told(PushedTo(t), report, HbEnabled(t))
    BY <1>1, <2>1 DEF Told, Saying, PriorityForType
  <2>. QED
    BY <1>1, <1>3, <2>1, <2>2 DEF ToldInv, TargetOf, IsTarget
<1>6. ReportInv'
  <2>1. \A t, fn : HealthWith(t, fn)' = HealthWith(t, fn)
    BY <1>1 DEF HealthWith, Begun
  <2>. QED
    BY <1>1, <1>3, <2>1 DEF ReportInv, IsTarget, Registered, TargetOf, Begun
<1>. QED
  BY <1>2, <1>3, <1>4, <1>5, <1>6, ContinuesInv

(* Steps of others while a cycle runs. *)
LEMMA OtherStep ==
    ASSUME ReportsInv, Continues, UNCHANGED <<registry, cycle, output>>
    PROVE  ReportsInv'
<1>. USE ContinuesKeeps
<1>1. UNCHANGED <<rawHealth, targets, typePriorities, visit, impact, own, stack, pushes, report>>
  BY DEF registry, cycle, output
<1>2. Done' = Done /\ Pushed' = Pushed
  BY <1>1 DEF Done, Building, Pushed
<1>3. Abstract!Rooted' = Abstract!Rooted
  BY <1>1, RootedStays DEF Continues
<1>4. ChainInv'
  BY <1>1, <1>2, <1>3 DEF ChainInv, TargetOf
<1>. QED
  BY <1>4, StackMoves DEF registry, cycle, output

-----------------------------------------------------------------------------
(* A health sent to the writer for the first time. *)
LEMMA PushOnce ==
    ASSUME TypeOK, OnceInv, NEW h, h.id \in Registered \ visit', h.id \notin Pushed, Push(h),
           Registered' = Registered, visit' \subseteq visit
    PROVE  /\ Pushed' = Pushed \cup {h.id} /\ OnceInv'
           /\ report'[h.id] = h /\ \A k \in Pushed : report'[k] = report[k]
<1>1. h.id \in Ids /\ pushes \in [Ids -> Nat]
  BY DEF TypeOK, IsMap, Registered
<1>2. \A i \in Ids : pushes'[i] = IF i = h.id THEN pushes[i] + 1 ELSE pushes[i]
  BY <1>1 DEF Push
<1>3. pushes[h.id] = 0
  BY <1>1 DEF OnceInv, Pushed
<1>4. \A i \in Ids : pushes'[i] \in {0, 1} /\ (pushes'[i] > 0 <=> i \in Pushed \cup {h.id})
  BY <1>1, <1>2, <1>3 DEF OnceInv, Pushed
<1>5. Pushed' = Pushed \cup {h.id}
  BY <1>1, <1>4 DEF Pushed
<1>6. DOMAIN report' = Pushed' /\ report'[h.id] = h /\ \A k \in Pushed : report'[k] = report[k]
  BY <1>5 DEF Push, Put, OnceInv
<1>7. IsFiniteSet(Pushed')
  BY <1>5, FS_AddElement DEF OnceInv
<1>8. Pushed' \subseteq (Registered \ visit)'
  BY <1>5 DEF OnceInv
<1>9. \A i \in Pushed' : report'[i].id = i
  BY <1>5, <1>6 DEF OnceInv
<1>. QED
  BY <1>4, <1>5, <1>6, <1>7, <1>8, <1>9 DEF OnceInv

(* writeHealthResult makes sure a target is there before it tells it anything. *)
LEMMA WithTargetTold ==
    ASSUME ToldInv, NEW t, t # NoTarget
    PROVE  /\ DOMAIN WithTarget(t) = DOMAIN impact \cup {t}
           /\ \A u \in DOMAIN impact : WithTarget(t)[u] = impact[u]
           /\ \A u \in DOMAIN impact \cup {t} :
                 WithTarget(t)[u] = Told(PushedTo(u), report, HbEnabled(u))
<1>1. CASE t \in DOMAIN impact
  BY <1>1 DEF WithTarget, ToldInv
<1>2. CASE t \notin DOMAIN impact
  <2>1. PushedTo(t) = {}
    BY <1>2 DEF PushedTo, ToldInv
  <2>2. WithTarget(t)[t] = NewTarget(t)
    BY <1>2 DEF WithTarget, Put
  <2>3. WithTarget(t)[t] = Told(PushedTo(t), report, HbEnabled(t))
    BY <2>1, <2>2, ToldNothing
  <2>4. DOMAIN WithTarget(t) = DOMAIN impact \cup {t}
    BY <1>2 DEF WithTarget, Put
  <2>5. \A u \in DOMAIN impact : WithTarget(t)[u] = impact[u]
    BY <1>2 DEF WithTarget, Put
  <2>. QED
    BY <2>3, <2>4, <2>5 DEF ToldInv
<1>. QED
  BY <1>1, <1>2

(* What a target was told does not depend on a step that leaves targets and priorities alone. *)
LEMMA ToldPrimed ==
    ASSUME UNCHANGED <<typePriorities, targets>>, NEW u
    PROVE  Told(PushedTo(u), report, HbEnabled(u))' = Told(PushedTo(u)', report', HbEnabled(u))
<1>1. HbEnabled(u)' = HbEnabled(u)
  BY DEF HbEnabled, IsTarget
<1>. QED
  BY <1>1 DEF Told, Saying, PriorityForType

(* A health is pushed and its target t told of it. *)
LEMMA PushIsTold ==
    ASSUME TypeOK, OnceInv, ToldInv, UNCHANGED <<typePriorities, targets>>,
           before'.rawHealth = before.rawHealth,
           NEW h, IsHealth(h), h.id \notin Pushed, Pushed' = Pushed \cup {h.id},
           report'[h.id] = h, \A k \in Pushed : report'[k] = report[k],
           NEW t, t = TargetOf(h.id),
           impact' = IF t = NoTarget THEN impact
                     ELSE [WithTarget(t) EXCEPT ![t] = Impacted(@, h)]
    PROVE  /\ DOMAIN impact' = DOMAIN impact \cup ({t} \ {NoTarget})
           /\ \A u \in DOMAIN impact \ {t} : impact'[u] = impact[u]
           /\ \A k \in Pushed' : TargetOf(k)' # NoTarget => TargetOf(k)' \in DOMAIN impact'
           /\ \A u \in DOMAIN impact' : impact'[u] = Told(PushedTo(u), report, HbEnabled(u))'
<1> DEFINE with == WithTarget(t)
<1>1. \A u : PushedTo(u)' = IF u = t THEN PushedTo(u) \cup {h.id} ELSE PushedTo(u)
  BY DEF PushedTo, TargetOf
<1>2. \A u : PushedTo(u) \subseteq Pushed /\ IsFiniteSet(PushedTo(u)) /\ h.id \notin PushedTo(u)
  <2>1. \A u : PushedTo(u) \subseteq Pushed
    BY DEF PushedTo
  <2>. QED
    BY <2>1, FS_Subset DEF OnceInv
<1>3. \A u : u # t => Told(PushedTo(u)', report', HbEnabled(u)) =
                      Told(PushedTo(u), report, HbEnabled(u))
  <2> SUFFICES ASSUME NEW u, u # t
               PROVE  Told(PushedTo(u)', report', HbEnabled(u)) =
                      Told(PushedTo(u), report, HbEnabled(u))
    OBVIOUS
  <2>1. PushedTo(u)' = PushedTo(u) /\ \A k \in PushedTo(u) : report'[k] = report[k]
    BY <1>1, <1>2
  <2>. QED
    BY <2>1, ToldSame
<1>4. Told(PushedTo(t)', report', HbEnabled(t)) =
      Impacted(Told(PushedTo(t), report, HbEnabled(t)), h)
  <2>1. PushedTo(t)' = PushedTo(t) \cup {h.id} /\ \A k \in PushedTo(t) : report'[k] = report[k]
    BY <1>1, <1>2
  <2>2. PriorityForType(h.type) \in Priorities
    BY DEF TypeOK, PriorityForType, IsMap, Priorities, DefaultPriority
  <2>. QED
    BY <1>2, <2>1, <2>2, ToldOneMore
<1>5. CASE t = NoTarget
  <2>1. NoTarget \notin DOMAIN impact
    BY HealthComponentAssumption DEF TypeOK, IsMap
  <2>2. \A u \in DOMAIN impact' : impact'[u] = Told(PushedTo(u), report, HbEnabled(u))'
    BY <1>3, <1>5, <2>1, ToldPrimed DEF ToldInv
  <2>3. \A k \in Pushed' : TargetOf(k)' # NoTarget => TargetOf(k)' \in DOMAIN impact'
    BY <1>5 DEF ToldInv, TargetOf
  <2>. QED
    BY <1>5, <2>1, <2>2, <2>3
<1>6. CASE t # NoTarget
  <2>1. /\ DOMAIN with = DOMAIN impact \cup {t}
        /\ \A u \in DOMAIN impact : with[u] = impact[u]
        /\ \A u \in DOMAIN impact \cup {t} :
              with[u] = Told(PushedTo(u), report, HbEnabled(u))
    BY <1>6, WithTargetTold
  <2>. HIDE DEF with
  <2>2. /\ DOMAIN impact' = DOMAIN impact \cup {t}
        /\ impact'[t] = Impacted(with[t], h)
        /\ \A u \in DOMAIN impact \ {t} : impact'[u] = with[u]
    BY <1>6, <2>1 DEF with
  <2>3. \A u \in DOMAIN impact' : impact'[u] = Told(PushedTo(u)', report', HbEnabled(u))
    BY <1>3, <1>4, <2>1, <2>2
  <2>4. \A u \in DOMAIN impact' : impact'[u] = Told(PushedTo(u), report, HbEnabled(u))'
    BY <2>3, ToldPrimed
  <2>5. \A k \in Pushed' : TargetOf(k)' # NoTarget => TargetOf(k)' \in DOMAIN impact'
    BY <2>2 DEF ToldInv, TargetOf
  <2>. QED
    BY <1>6, <2>1, <2>2, <2>4, <2>5
<1>. QED
  BY <1>5, <1>6

-----------------------------------------------------------------------------
(* The range over the registry: what each step of it leaves. *)
LEMMA BeginCycleReports ==
    ASSUME IInv, ReportsInv, BeginCycle,
           before' = [rawHealth |-> rawHealth, sent |-> Sent,
                      functions |-> {config'.targetHealthFn}]
    PROVE  ReportsInv'
<1>1. /\ owner' = "cycle" /\ visit' = Registered /\ UNCHANGED <<rawHealth, impact, own, stack>>
      /\ pushes' = [i \in Ids |-> 0] /\ report' = [i \in {} |-> << >>]
      /\ DOMAIN impact = {} /\ DOMAIN own = {} /\ stack = << >>
  BY DEF BeginCycle, Lock, registry, ReportsInv, IInv, CycleInv
<1>2. before'.rawHealth = rawHealth /\ config'.targetHealthFn \in before'.functions
      /\ (before = [rawHealth |-> before.rawHealth, sent |-> before.sent,
                    functions |-> before.functions])'
  OBVIOUS
<1>3. MomentInv'
  BY <1>1, <1>2 DEF MomentInv, Begun, Registered, IInv, TypeOK, IsMap
<1>4. Pushed' = {}
  BY <1>1 DEF Pushed
<1>5. OnceInv'
  BY <1>1, <1>4, FS_EmptySet DEF OnceInv
<1>6. OwnInv' /\ ToldInv' /\ ReportInv'
  BY <1>1, <1>4 DEF OwnInv, ToldInv, ReportInv
<1>7. ChainInv'
  <2>1. DOMAIN stack' = {}
    BY <1>1
  <2>2. Done' = {}
    BY <1>1, <2>1 DEF Done, Building
  <2>. QED
    BY <1>1, <2>1, <2>2 DEF ChainInv
<1>. QED
  BY <1>1, <1>2, <1>3, <1>5, <1>6, <1>7 DEF ReportsInv

(* A component is published at once and its target told; a target waits. *)
LEMMA CalculateReports ==
    ASSUME IInv, ReportsInv, Continues, NEW i \in visit, Calculate(i)
    PROVE  ReportsInv'
<1> DEFINE h == CalculateComponentHealth(rawHealth[i])
<1>. USE ContinuesKeeps
<1>1. /\ i \in Registered /\ i \in Ids /\ i # NoTarget /\ rawHealth[i] \in RawHealth
      /\ rawHealth[i].component.id = i /\ stack = << >> /\ DOMAIN stack = {}
  BY HealthComponentAssumption DEF IInv, TypeOK, IsMap, CycleInv, RegistryInv, Registered
<1>2. IsHealth(h) /\ h.id = i /\ h.target = rawHealth[i].component.target
  BY <1>1, CalculateType
<1>3. rawHealth[i] = Begun(i) /\ h.target = TargetOf(i)
  BY <1>1, <1>2 DEF MomentInv, Begun, TargetOf
<1>4. /\ targets' = targets /\ visit' = visit \ {i} /\ stack' = stack
      /\ UNCHANGED <<typePriorities, config>> /\ Registered' = Registered
      /\ rawHealth' = [rawHealth EXCEPT ![i] = CleanHealthValues(@)]
  BY DEF Calculate, Registered
<1>5. i \notin Pushed /\ i \notin DOMAIN own
  BY DEF OnceInv, OwnInv
<1>6. \A k \in Pushed : ~IsTarget(k)
  <2>1. Pushed \cap DOMAIN own = {}
    BY <1>1 DEF ChainInv, Done
  <2>. QED
    BY <2>1 DEF OnceInv, IInv, CycleInv, Continues
<1>7. MomentInv'
  <2>1. IsMap(before.rawHealth, Ids, RawHealth)' /\ (DOMAIN before.rawHealth = Registered)'
        /\ (config.targetHealthFn \in before.functions)'
    BY <1>4 DEF MomentInv
  <2>2. \A j \in Registered :
           rawHealth'[j] = IF j \in visit' THEN Begun(j) ELSE CleanHealthValues(Begun(j))
    BY <1>1, <1>3, <1>4 DEF MomentInv, Registered
  <2>. QED
    BY <1>4, <2>1, <2>2 DEF MomentInv, Begun
<1>. HIDE DEF h
<1>8. CASE IsTarget(i)
  <2>1. impact' = WithTarget(i) /\ own' = Put(own, i, h) /\ pushes' = pushes /\ report' = report
    BY <1>8 DEF Calculate, h, output
  <2>2. Pushed' = Pushed /\ OnceInv'
    BY <1>4, <2>1 DEF OnceInv, Pushed
  <2>3. DOMAIN own' = DOMAIN own \cup {i} /\ own'[i] = h /\ \A t \in DOMAIN own : own'[t] = own[t]
    BY <1>5, <2>1 DEF Put
  <2>4. OwnInv'
    BY <1>1, <1>3, <1>4, <1>8, <2>2, <2>3, <1>5 DEF OwnInv, IsTarget, TargetOf, Begun, h
  <2>5. ToldInv'
    <3>1. /\ DOMAIN impact' = DOMAIN impact \cup {i}
          /\ \A u \in DOMAIN impact' : impact'[u] = Told(PushedTo(u), report, HbEnabled(u))
      BY <1>1, <2>1, WithTargetTold
    <3>2. \A u : PushedTo(u)' = PushedTo(u)
      BY <2>2 DEF PushedTo, TargetOf
    <3>3. \A u \in DOMAIN impact' : impact'[u] = Told(PushedTo(u), report, HbEnabled(u))'
      BY <1>4, <2>1, <3>1, <3>2, ToldPrimed
    <3>4. \A t \in DOMAIN impact' \ DOMAIN own' : \E k \in PushedTo(t)' : ~IsTarget(k)'
      BY <1>4, <2>3, <3>1, <3>2 DEF ToldInv, IsTarget
    <3>5. \A k \in Pushed' : TargetOf(k)' # NoTarget => TargetOf(k)' \in DOMAIN impact'
      BY <2>2, <3>1 DEF ToldInv, TargetOf
    <3>. QED
      BY <3>3, <3>4, <3>5 DEF ToldInv
  <2>6. ReportInv'
    BY <1>4, <1>6, <2>1, <2>2 DEF ReportInv, IsTarget, Begun
  <2>7. ChainInv'
    <3>1. Done' = {}
      BY <1>1, <1>4, <1>5, <2>2, <2>3 DEF Done, Building, ChainInv
    <3>. QED
      BY <1>1, <1>4, <3>1 DEF ChainInv
  <2>. QED
    BY <1>7, <2>2, <2>4, <2>5, <2>6, <2>7, ContinuesInv
<1>9. CASE ~IsTarget(i)
  <2>1. /\ Push(h) /\ own' = own
        /\ impact' = IF TargetOf(i) = NoTarget THEN impact
                     ELSE [WithTarget(TargetOf(i)) EXCEPT ![TargetOf(i)] = Impacted(@, h)]
    BY <1>3, <1>9 DEF Calculate, h
  <2>2. /\ Pushed' = Pushed \cup {i} /\ OnceInv'
        /\ report'[i] = h /\ \A k \in Pushed : report'[k] = report[k]
    BY <1>1, <1>2, <1>4, <1>5, <2>1, PushOnce DEF IInv
  <2>3. OwnInv'
    BY <1>1, <1>4, <1>5, <2>1, <2>2 DEF OwnInv, IsTarget, TargetOf, Begun
  <2>4. ToldInv'
    <3> DEFINE t == TargetOf(i)
    <3>1. impact' = IF t = NoTarget THEN impact ELSE [WithTarget(t) EXCEPT ![t] = Impacted(@, h)]
      BY <2>1
    <3>. HIDE DEF t
    <3>2. /\ DOMAIN impact' = DOMAIN impact \cup ({t} \ {NoTarget})
          /\ \A k \in Pushed' : TargetOf(k)' # NoTarget => TargetOf(k)' \in DOMAIN impact'
          /\ \A u \in DOMAIN impact' : impact'[u] = Told(PushedTo(u), report, HbEnabled(u))'
      BY <1>2, <1>4, <1>5, <2>2, <3>1, PushIsTold DEF t, IInv
    <3>3. \A u \in DOMAIN impact' \ DOMAIN own' : \E k \in PushedTo(u)' : ~IsTarget(k)'
      <4> SUFFICES ASSUME NEW u \in DOMAIN impact' \ DOMAIN own'
                   PROVE  \E k \in PushedTo(u)' : ~IsTarget(k)'
        OBVIOUS
      <4>1. CASE u \in DOMAIN impact
        <5>1. PICK k \in PushedTo(u) : ~IsTarget(k)
          BY <2>1, <4>1 DEF ToldInv
        <5>2. k \in PushedTo(u)' /\ ~IsTarget(k)'
          BY <1>4, <2>2, <5>1 DEF PushedTo, TargetOf, IsTarget
        <5>. QED
          BY <5>2
      <4>2. CASE u \notin DOMAIN impact
        <5>1. i \in PushedTo(u)' /\ ~IsTarget(i)'
          BY <1>4, <1>9, <2>2, <3>2, <4>2 DEF PushedTo, TargetOf, IsTarget, t
        <5>. QED
          BY <5>1
      <4>. QED
        BY <4>1, <4>2
    <3>. QED
      BY <3>2, <3>3 DEF ToldInv
  <2>5. ReportInv'
    BY <1>3, <1>4, <1>6, <1>9, <2>2 DEF ReportInv, IsTarget, Begun, h
  <2>6. ChainInv'
    <3>1. i \notin DOMAIN own
      BY <1>5
    <3>2. Done' = {}
      BY <1>1, <1>4, <2>1, <2>2, <3>1 DEF Done, Building, ChainInv
    <3>. QED
      BY <1>1, <1>4, <3>2 DEF ChainInv
  <2>. QED
    BY <1>7, <2>2, <2>3, <2>4, <2>5, <2>6, ContinuesInv
<1>. QED
  BY <1>8, <1>9

-----------------------------------------------------------------------------
(* A target that impacts nothing, or a target whose chain ends, is one itself. *)
LEMMA RootedAbove ==
    ASSUME owner = "cycle", MomentInv, NEW t \in Registered, IsTarget(t),
           TargetOf(t) \in Abstract!Rooted \cup {NoTarget}
    PROVE  t \in Abstract!Rooted
<1>1. /\ Abstract!Registered = Registered
      /\ \A i : Abstract!IsTarget(i) = IsTarget(i) /\ Abstract!Target(i) = TargetOf(i)
  BY DEF Abstract!Registered, Abstract!IsTarget, Abstract!Target, MomentInv, IsTarget, TargetOf
<1>2. SUFFICES ASSUME NEW S \in SUBSET Registered, Abstract!Closed(S)
               PROVE  t \in S
  BY <1>1 DEF Abstract!Rooted
<1>3. TargetOf(t) \in S \cup {NoTarget}
  BY <1>1, <1>2 DEF Abstract!Rooted
<1>. QED
  BY <1>1, <1>2, <1>3 DEF Abstract!Closed, Abstract!NoTarget, NoTarget

LEMMA BeginTargetsReports ==
    ASSUME IInv, ReportsInv, Continues, BeginTargets
    PROVE  ReportsInv'
<1> DEFINE root == Frame(NoTarget)
<1>. USE ContinuesKeeps
<1>1. /\ stack = << >> /\ stack' = <<root>>
      /\ UNCHANGED <<registry, visit, impact, own, output, pushes>>
  BY DEF BeginTargets, output
<1>2. root.id = NoTarget
  BY DEF Frame
<1>. HIDE DEF root
<1>3. DOMAIN stack' = {1} /\ stack'[1].id = NoTarget
  BY <1>1, <1>2
<1>4. Done' = {}
  <2>1. Building' = {}
    BY <1>3 DEF Building
  <2>2. Pushed' \cap DOMAIN own' = {}
    BY <1>1 DEF Pushed, ChainInv, Done
  <2>. QED
    BY <2>1, <2>2 DEF Done
<1>5. ChainInv'
  BY <1>1, <1>3, <1>4 DEF ChainInv
<1>. QED
  BY <1>1, <1>5, StackMoves

(* A call is made for a target that has not been pushed and is not being built: the range that *)
(* comes to it has not come to it before, and there is no other range over what impacts the     *)
(* same target.                                                                                 *)
LEMMA DescendReports ==
    ASSUME IInv, ReportsInv, Continues, NEW t \in Ids, Descend(t)
    PROVE  ReportsInv'
<1> DEFINE n == Len(stack)
<1>. USE ContinuesKeeps
<1>1. /\ stack # << >> /\ t \in Top.rest /\ t \in DOMAIN own /\ own[t].target = Top.id
      /\ UNCHANGED <<registry, visit, impact, own, output, pushes, targets>>
  BY DEF Descend, Found, output, registry
<1>2. n \in Nat /\ n >= 1 /\ DOMAIN stack = 1 .. n /\ Top = stack[n] /\ n \in DOMAIN stack
  BY <1>1, OnStack
<1>3. /\ DOMAIN stack' = 1 .. n + 1 /\ stack' # << >>
      /\ stack'[n + 1].id = t /\ stack'[n + 1].rest = DOMAIN impact
      /\ \A k \in 1 .. n : stack'[k].id = stack[k].id
      /\ \A k \in 1 .. n - 1 : stack'[k] = stack[k]
      /\ stack'[n].rest = stack[n].rest \ {t}
  BY <1>2, Descended, EmptySeq
<1>4. t \in Registered /\ IsTarget(t) /\ TargetOf(t) = stack[n].id /\ t # NoTarget
  BY <1>1, <1>2, HealthComponentAssumption DEF OwnInv
(* The range of the call on top still held t, so no call was made for it before. *)
<1>5. t \notin Done
  BY <1>1, <1>2, <1>4 DEF ChainInv
<1>6. t \notin Pushed /\ \A k \in 1 .. n : stack[k].id # t
  BY <1>1, <1>2, <1>4, <1>5 DEF Done, Building
<1>7. stack[n].id \in Done \cup {NoTarget}
  BY <1>2 DEF Done, Building
<1>8. t \in Abstract!Rooted
  <2>1. TargetOf(t) \in Abstract!Rooted \cup {NoTarget}
    BY <1>4, <1>7 DEF ChainInv
  <2>. QED
    BY <1>4, <2>1, RootedAbove DEF Continues
<1>9. Abstract!Rooted' = Abstract!Rooted /\ (\A x : TargetOf(x)' = TargetOf(x)) /\ Pushed' = Pushed
  BY <1>1, RootedStays DEF Continues, TargetOf, Pushed
<1>. HIDE DEF n
<1>10. \A k \in 1 .. n + 1 :
          k = n + 1 \/ (k = n /\ k \in 1 .. n) \/ (k \in 1 .. n - 1 /\ k \in 1 .. n)
  BY <1>2
<1>11. n + 1 \in 1 .. n + 1 /\ \A k \in 1 .. n : k \in 1 .. n + 1 /\ k # n + 1
  BY <1>2
<1>12. Done' = Done \cup {t}
  <2>1. Building' = Building \cup {t}
    BY <1>2, <1>3, <1>4, <1>10, <1>11 DEF Building
  <2>. QED
    BY <1>1, <1>9, <2>1 DEF Done
<1>13. stack'[1].id = NoTarget
  BY <1>1, <1>2, <1>3 DEF ChainInv
<1>14. ASSUME NEW k \in 1 .. n + 1, k # 1
       PROVE  stack'[k].id \notin Pushed /\ TargetOf(stack'[k].id) = stack'[k - 1].id
  <2>1. CASE k = n + 1
    <3>1. k - 1 = n /\ n \in 1 .. n
      BY <1>2, <2>1
    <3>. QED
      BY <1>3, <1>4, <1>6, <2>1, <3>1
  <2>2. CASE k \in 1 .. n
    <3>1. k - 1 \in 1 .. n
      BY <1>2, <1>14, <2>2
    <3>. QED
      BY <1>2, <1>3, <1>14, <2>2, <3>1 DEF ChainInv
  <2>. QED
    BY <1>10, <2>1, <2>2
<1>15. ASSUME NEW j \in 1 .. n + 1, NEW k \in 1 .. n + 1, stack'[j].id = stack'[k].id
       PROVE  j = k
  BY <1>2, <1>3, <1>6, <1>10, <1>15 DEF ChainInv
<1>16. ASSUME NEW x \in Done'
       PROVE  /\ x \in Abstract!Rooted
              /\ TargetOf(x) \in Done' \cup {NoTarget}
              /\ \A k \in 1 .. n + 1 : stack'[k].id = TargetOf(x) => x \notin stack'[k].rest
  <2>1. CASE x = t
    <3>1. ASSUME NEW k \in 1 .. n + 1, stack'[k].id = TargetOf(t)
          PROVE  t \notin stack'[k].rest
      <4>1. k = n
        <5>1. n \in 1 .. n + 1 /\ stack'[n].id = stack[n].id
          BY <1>2, <1>3
        <5>. QED
          BY <1>4, <1>15, <3>1, <5>1
      <4>. QED
        BY <1>3, <4>1
    <3>. QED
      BY <1>4, <1>7, <1>8, <1>12, <2>1, <3>1
  <2>2. CASE x # t
    <3>1. /\ x \in Done /\ x \in Abstract!Rooted /\ TargetOf(x) \in Done \cup {NoTarget}
          /\ \A k \in 1 .. n : stack[k].id = TargetOf(x) => x \notin stack[k].rest
      BY <1>2, <1>12, <2>2 DEF ChainInv
    <3>2. TargetOf(x) # t
      BY <1>4, <1>5, <3>1
    <3>3. ASSUME NEW k \in 1 .. n + 1, stack'[k].id = TargetOf(x)
          PROVE  x \notin stack'[k].rest
      BY <1>3, <1>10, <3>1, <3>2, <3>3
    <3>. QED
      BY <1>12, <3>1, <3>3
  <2>. QED
    BY <2>1, <2>2
<1>17. ChainInv'
  BY <1>3, <1>9, <1>13, <1>14, <1>15, <1>16 DEF ChainInv
<1>. QED
  BY <1>1, <1>17, StackMoves

(* The health a target is pushed with, for the function in force at the moment. *)
LEMMA ReportedWith ==
    ASSUME ReportsInv, owner = "cycle", Top.id \in DOMAIN own, Top.id \notin Pushed
    PROVE  TargetReport = HealthWith(Top.id, config.targetHealthFn)
<1>1. own[Top.id] = CalculateComponentHealth(Begun(Top.id))
  BY DEF ReportsInv, OwnInv
<1>2. \A counts : TargetHealth(counts) = Abstract!StatusOf(config.targetHealthFn, counts)
  BY SameStatus DEF TargetHealth
<1>. QED
  BY <1>1, <1>2, Zenon DEF TargetReport, HealthWith

(* A target is pushed when all that impacts it has been, so what it was told is what HealthReport *)
(* counts, and it will be told nothing more.                                                     *)
LEMMA PushTargetReports ==
    ASSUME CustomsReturnStatuses, IInv, ReportsInv, Continues, PushTarget
    PROVE  ReportsInv'
<1> DEFINE n == Len(stack)
           t == Top.id
           h == TargetReport
           c == stack[n - 1].id
<1>. USE ContinuesKeeps
<1>1. /\ UNCHANGED <<rawHealth, targets, typePriorities, config, visit>> /\ owner = "cycle"
      /\ visit = {} /\ Registered' = Registered
  BY OnStack DEF PushTarget, RangeDone, registry, Registered
<1>2. /\ stack # << >> /\ n \in Nat /\ n > 1 /\ DOMAIN stack = 1 .. n /\ Top = stack[n]
      /\ t # NoTarget /\ t \in Ids /\ t \in DOMAIN own /\ t \in DOMAIN impact
      /\ IsHealth(h) /\ h.id = t /\ h.target = own[t].target
      /\ Push(h) /\ own' = [own EXCEPT ![t] = h]
      /\ DOMAIN stack' = 1 .. n - 1 /\ \A k \in 1 .. n - 1 : stack'[k] = stack[k]
      /\ impact' = IF c = NoTarget THEN impact ELSE [impact EXCEPT ![c] = Impacted(@, h)]
  BY Returned
<1>3. /\ n \in 1 .. n /\ n - 1 \in 1 .. n /\ n # n - 1 /\ 1 \in 1 .. n - 1 /\ n # 1
      /\ \A k \in 1 .. n - 1 : k \in 1 .. n /\ k # n
      /\ \A k \in 1 .. n : k \in 1 .. n - 1 \/ k = n
      /\ n - 1 \in 1 .. n - 1
      /\ \A k \in 1 .. n - 1 : k # 1 => k - 1 \in 1 .. n - 1
  <2>1. n \in Nat /\ n > 1
    BY <1>2
  <2>. HIDE DEF n
  <2>. QED
    BY ONLY <2>1
<1>4. t \notin Pushed /\ TargetOf(t) = c
  BY <1>2, <1>3 DEF ChainInv
<1>5. t \in Registered /\ IsTarget(t)
  BY <1>2 DEF OwnInv
<1>6. h = HealthWith(t, config.targetHealthFn)
  BY <1>1, <1>2, <1>4, ReportedWith
<1>7. c # t /\ c \notin Pushed
  <2>1. c # t
    BY <1>2, <1>3 DEF ChainInv
  <2>2. CASE c = NoTarget
    BY <2>1, <2>2, HealthComponentAssumption DEF Pushed
  <2>3. CASE c # NoTarget
    <3>1. n - 1 # 1
      BY <1>2, <2>3 DEF ChainInv
    <3>. QED
      BY <1>2, <1>3, <2>1, <3>1 DEF ChainInv
  <2>. QED
    BY <2>2, <2>3, <2>1
<1>8. c # NoTarget => c \in DOMAIN impact
  BY <1>2, <1>3 DEF IInv, StackInv
<1>9. (\A x : TargetOf(x)' = TargetOf(x)) /\ (\A x : Begun(x)' = Begun(x))
  BY DEF TargetOf, Begun
<1>. HIDE DEF n, t, h, c
<1>10. /\ Pushed' = Pushed \cup {t} /\ OnceInv'
       /\ report'[t] = h /\ \A k \in Pushed : report'[k] = report[k]
  <2>1. h.id \in Registered \ visit' /\ h.id \notin Pushed /\ visit' \subseteq visit
    BY <1>1, <1>2, <1>4, <1>5
  <2>. QED
    BY <1>1, <1>2, <2>1, PushOnce DEF IInv
<1>11. MomentInv'
  BY <1>1, <1>9 DEF MomentInv
<1>12. DOMAIN own' = DOMAIN own /\ own'[t] = h /\ \A x \in DOMAIN own \ {t} : own'[x] = own[x]
  BY <1>2
<1>13. OwnInv'
  BY <1>1, <1>2, <1>9, <1>10, <1>12 DEF OwnInv, IsTarget
<1>14. /\ DOMAIN impact' = DOMAIN impact
       /\ \A u \in DOMAIN impact \ {c} : impact'[u] = impact[u]
       /\ \A k \in Pushed' : TargetOf(k)' # NoTarget => TargetOf(k)' \in DOMAIN impact'
       /\ \A u \in DOMAIN impact' : impact'[u] = Told(PushedTo(u), report, HbEnabled(u))'
  <2>1. impact' = IF c = NoTarget THEN impact ELSE [WithTarget(c) EXCEPT ![c] = Impacted(@, h)]
    BY <1>2, <1>8 DEF WithTarget
  <2>2. /\ c = TargetOf(h.id) /\ h.id \notin Pushed
        /\ Pushed' = Pushed \cup {h.id} /\ report'[h.id] = h
    BY <1>2, <1>4, <1>10
  <2>3. /\ DOMAIN impact' = DOMAIN impact \cup ({c} \ {NoTarget})
        /\ \A u \in DOMAIN impact \ {c} : impact'[u] = impact[u]
        /\ \A k \in Pushed' : TargetOf(k)' # NoTarget => TargetOf(k)' \in DOMAIN impact'
        /\ \A u \in DOMAIN impact' : impact'[u] = Told(PushedTo(u), report, HbEnabled(u))'
    BY <1>1, <1>2, <1>10, <2>1, <2>2, PushIsTold DEF IInv
  <2>. QED
    BY <1>8, <2>3
<1>15. ToldInv'
  <2>1. \A u \in DOMAIN impact' \ DOMAIN own' : \E k \in PushedTo(u)' : ~IsTarget(k)'
    <3>1. \A u : PushedTo(u) \subseteq PushedTo(u)'
      BY <1>9, <1>10 DEF PushedTo
    <3>. QED
      BY <1>1, <1>12, <1>14, <3>1 DEF ToldInv, IsTarget
  <2>. QED
    BY <1>14, <2>1 DEF ToldInv
<1>16. ReportInv'
  <2>1. ASSUME NEW x \in DOMAIN impact, x # c, NEW fn
        PROVE  HealthWith(x, fn)' = HealthWith(x, fn)
    BY <1>9, <1>14, <2>1 DEF HealthWith
  <2>2. \A k \in Registered : rawHealth[k].component.target = TargetOf(k)
    BY <1>1, CleanType DEF MomentInv, IsMap, TargetOf, Begun
  <2>3. SUFFICES ASSUME NEW i \in Pushed'
                 PROVE  IF IsTarget(i)'
                        THEN /\ \A k \in Registered' : TargetOf(k)' = i => k \in Pushed'
                             /\ \E fn \in before'.functions : report'[i] = HealthWith(i, fn)'
                        ELSE report'[i] = CalculateComponentHealth(Begun(i))'
    BY DEF ReportInv
  <2>4. CASE i = t
    <3>1. \A k \in Registered : TargetOf(k) = t => k \in Pushed
      <4> SUFFICES ASSUME NEW k \in Registered, TargetOf(k) = t PROVE k \in Pushed
        OBVIOUS
      <4>1. pushes[k] >= 1
        BY <2>2, PushAfterImpact DEF t
      <4>2. k \in Ids /\ pushes[k] \in Nat
        BY DEF IInv, TypeOK, IsMap, Registered
      <4>. QED
        BY <4>1, <4>2 DEF Pushed
    <3>2. PICK fn \in before'.functions : fn = config.targetHealthFn
      BY <1>1
    <3>3. report'[i] = HealthWith(i, fn)
      BY <1>6, <1>10, <2>4, <3>2
    <3>4. report'[i] = HealthWith(i, fn)'
      BY <1>2, <1>7, <2>1, <2>4, <3>3
    <3>. QED
      BY <1>1, <1>5, <1>9, <1>10, <2>4, <3>1, <3>4 DEF IsTarget
  <2>5. CASE i # t
    <3>1. i \in Pushed /\ report'[i] = report[i] /\ i # c
      BY <1>7, <1>10, <2>5
    <3>2. CASE IsTarget(i)
      <4>1. i \in DOMAIN impact
        BY <1>1, <3>1, <3>2 DEF OnceInv, IInv, CycleInv
      <4>2. PICK fn \in before.functions : report[i] = HealthWith(i, fn)
        BY <3>1, <3>2 DEF ReportInv
      <4>3. report'[i] = HealthWith(i, fn)' /\ fn \in before'.functions
        BY <2>1, <3>1, <4>1, <4>2
      <4>4. \A k \in Registered' : TargetOf(k)' = i => k \in Pushed'
        BY <1>1, <1>9, <1>10, <3>1, <3>2 DEF ReportInv
      <4>. QED
        BY <1>1, <3>2, <4>3, <4>4 DEF IsTarget
    <3>3. CASE ~IsTarget(i)
      BY <1>1, <1>9, <3>1, <3>3 DEF ReportInv, IsTarget
    <3>. QED
      BY <3>2, <3>3
  <2>. QED
    BY <2>4, <2>5
<1>17. ChainInv'
  <2>1. Building' = Building \ {t}
    <3>1. \A k \in 1 .. n - 1 : stack'[k].id = stack[k].id /\ stack[k].id # t
      BY <1>2, <1>3 DEF ChainInv, t
    <3>. QED
      BY <1>2, <1>3, <3>1 DEF Building, t
  <2>2. Done' = Done
    <3>1. t \in Building
      BY <1>2, <1>3 DEF Building, t
    <3>. QED
      BY <1>2, <1>10, <1>12, <2>1, <3>1 DEF Done
  <2>3. Abstract!Rooted' = Abstract!Rooted
    BY <1>1, RootedStays DEF Continues
  <2>4. stack' # << >> /\ stack'[1].id = NoTarget
    BY <1>2, <1>3 DEF ChainInv
  <2>5. ASSUME NEW k \in 1 .. n - 1, k # 1
        PROVE  stack'[k].id \notin Pushed' /\ TargetOf(stack'[k].id) = stack'[k - 1].id
    <3>1. /\ stack'[k] = stack[k] /\ stack'[k - 1] = stack[k - 1]
          /\ stack[k].id \notin Pushed /\ TargetOf(stack[k].id) = stack[k - 1].id
      BY <1>2, <1>3, <2>5 DEF ChainInv
    <3>2. stack[k].id # t
      BY <1>2, <1>3 DEF ChainInv, t
    <3>. QED
      BY <1>10, <3>1, <3>2
  <2>6. \A j, k \in 1 .. n - 1 : stack'[j].id = stack'[k].id => j = k
    BY <1>2, <1>3 DEF ChainInv
  <2>7. \A x \in Done : \A k \in 1 .. n - 1 : stack'[k].id = TargetOf(x) => x \notin stack'[k].rest
    BY <1>2, <1>3 DEF ChainInv
  <2>8. \A x \in Done : x \in Abstract!Rooted /\ TargetOf(x) \in Done \cup {NoTarget}
    BY DEF ChainInv
  <2>. QED
    BY <1>2, <1>9, <2>2, <2>3, <2>4, <2>5, <2>6, <2>7, <2>8 DEF ChainInv
<1>. QED
  BY <1>10, <1>11, <1>13, <1>15, <1>16, <1>17, ContinuesInv

-----------------------------------------------------------------------------
(* A step is one of another handler, between two cycles or within one, or one of the cycle. *)
Between ==
    /\ owner # "cycle" /\ owner' # "cycle" /\ UNCHANGED <<impact, own, pushes, report>>
    /\ panicked' = panicked \/ (panicked' = TRUE /\ config.registrationOnCollect)

Within ==
    /\ owner = "cycle" /\ owner' = "cycle" /\ UNCHANGED <<registry, cycle, output, panicked>>

LEMMA StepKinds ==
    ASSUME Next
    PROVE  Between \/ Within \/ BeginCycle \/ CycleSteps
<1>1. CASE \/ \E components \in AddArgs : BeginAdd(components)
           \/ AddSteps
           \/ \E ids \in DeleteArgs : DeleteComponents(ids)
           \/ \E tp \in PriorityArgs : SetPriority(tp[1], tp[2])
           \/ SendComponentsInfo
           \/ \E ms \in Measurements : Collect(ms)
  BY <1>1 DEF AddSteps, BeginAdd, AddNext, AddMissingTarget, EndAdd, DeleteComponents,
              SetPriority, SendComponentsInfo, Collect, Lock, cycle, output, Between
<1>2. CASE \/ \E newConfig \in Configs : UpdateConfig(newConfig)
           \/ LaunchGoroutines \/ StoreStarted
  BY <1>2 DEF UpdateConfig, LaunchGoroutines, StoreStarted, cycle, output, Between, Within
<1>3. CASE \E ms \in Measurements : CollectPanics(ms)
  BY <1>3 DEF CollectPanics, Lock, UpdatePanics, MayRegister, cycle, output, Between
<1>. QED
  BY <1>1, <1>2, <1>3 DEF Next

(* What before' is, by the holders of the mutex before and after the step. *)
LEMMA BeforeStep ==
    ASSUME ReportsNext
    PROVE  /\ owner' # "cycle" => before' = NoneBefore
           /\ owner = "cycle" /\ owner' = "cycle" => Continues
           /\ owner # "cycle" /\ owner' = "cycle" =>
                 before' = [rawHealth |-> rawHealth, sent |-> Sent,
                            functions |-> {config'.targetHealthFn}]
  BY DEF ReportsNext, Continues

(* A step of the cycle goes on with it or ends it. *)
LEMMA CycleStepContinues ==
    ASSUME IInv, ReportsNext, CycleSteps
    PROVE  owner = "cycle" /\ (Continues \/ EndCycle)
<1>1. owner = "cycle"
  BY OnStack DEF CycleSteps, Calculate, BeginTargets, Descend, RangePanics, PushTarget, EndCycle,
                 RangeDone
<1>2. owner' = owner \/ EndCycle
  BY DEF CycleSteps, Calculate, BeginTargets, Descend, RangePanics, PushTarget
<1>. QED
  BY <1>1, <1>2, BeforeStep

LEMMA EndCycleReports ==
    ASSUME EndCycle, before' = NoneBefore
    PROVE  ReportsInv'
  BY DEF EndCycle, ReportsInv, NoneBefore

(* The invariant is inductive, with IInv. *)
LEMMA ReportsInvStep ==
    ASSUME CustomsReturnStatuses, IInv, ReportsInv, [ReportsNext]_<<vars, before>>
    PROVE  ReportsInv'
<1>1. CASE UNCHANGED <<vars, before>>
  <2>1. CASE owner = "cycle"
    <3>1. before'.functions = before.functions \cup {config'.targetHealthFn}
      BY <1>1, <2>1 DEF ReportsInv, MomentInv, vars
    <3>2. Continues
      <4>1. before = [rawHealth |-> before.rawHealth, sent |-> before.sent,
                      functions |-> before.functions]
        BY DEF ReportsInv
      <4>2. before.functions = before.functions \cup {config'.targetHealthFn}
        BY <1>1, <3>1
      <4>3. before = [before EXCEPT !.functions = @ \cup {config'.targetHealthFn}]
        BY <4>1, <4>2
      <4>. QED
        BY <1>1, <2>1, <4>3 DEF Continues, vars
    <3>. QED
      BY <1>1, <3>2, OtherStep DEF vars
  <2>2. CASE owner # "cycle"
    BY <1>1, <2>2 DEF ReportsInv, vars, cycle
  <2>. QED
    BY <2>1, <2>2
<1>2. CASE ReportsNext
  <2>1. CASE Between
    BY <1>2, <2>1, BeforeStep, IdleStep DEF Between
  <2>2. CASE Within
    BY <1>2, <2>2, BeforeStep, OtherStep DEF Within
  <2>3. CASE BeginCycle
    <3>1. owner # "cycle" /\ owner' = "cycle"
      BY <2>3 DEF BeginCycle, Lock
    <3>. QED
      BY <1>2, <2>3, <3>1, BeforeStep, BeginCycleReports
  <2>4. CASE CycleSteps
    <3>1. CASE EndCycle
      <4>1. owner' # "cycle"
        BY <3>1 DEF EndCycle
      <4>. QED
        BY <1>2, <3>1, <4>1, BeforeStep, EndCycleReports
    <3>2. CASE ~EndCycle
      <4>1. Continues
        BY <1>2, <2>4, <3>2, CycleStepContinues
      <4>2. CASE RangePanics
        BY <4>1, <4>2, OtherStep DEF RangePanics
      <4>. QED
        BY <2>4, <3>2, <4>1, <4>2, CalculateReports, BeginTargetsReports, DescendReports,
           PushTargetReports DEF CycleSteps
    <3>. QED
      BY <3>1, <3>2
  <2>. QED
    BY <1>2, <2>1, <2>2, <2>3, <2>4, StepKinds DEF ReportsNext
<1>. QED
  BY <1>1, <1>2

LEMMA ReportsInitInv == ASSUME ReportsInit PROVE ReportsInv
  BY DEF ReportsInit, Init, ReportsInv, NoneBefore

(* The invariant of the cycle and of what was remembered of its beginning. *)
LEMMA ReportsInvariance ==
    ASSUME CustomsReturnStatuses
    PROVE  ReportsSpec => [](IInv /\ ReportsInv)
<1>1. ReportsInit => IInv /\ ReportsInv
  BY InitIInv, ReportsInitInv DEF ReportsInit
<1>2. IInv /\ ReportsInv /\ [ReportsNext]_<<vars, before>> => (IInv /\ ReportsInv)'
  <2>1. [ReportsNext]_<<vars, before>> => [Next]_vars
    BY DEF ReportsNext
  <2>. QED
    BY <2>1, IInvStep, ReportsInvStep
<1>. QED
  BY <1>1, <1>2, PTL DEF ReportsSpec

-----------------------------------------------------------------------------
(* What impacts a target that was pushed is what the target was told of. *)
LEMMA PromisedHealth ==
    ASSUME IInv, owner = "cycle", MomentInv, NEW i \in Registered, IsTarget(i), NEW fn, NEW by,
           Abstract!Impacting(i) = PushedTo(i), \A k \in PushedTo(i) : by[k] = report[k],
           impact[i] = Told(PushedTo(i), report, HbEnabled(i))
    PROVE  Abstract!HealthOf(i, fn, by) = HealthWith(i, fn)
<1> DEFINE K == PushedTo(i)
           counts == [sp \in Statuses \X Priorities |->
                        Cardinality(Saying(K, report, sp[1], sp[2]))]
           promised == [sp \in Abstract!Statuses \X Abstract!Priorities |->
                          Abstract!Cardinality({k \in Abstract!Impacting(i) :
                             <<by[k].status, Abstract!Priority(by[k])>> = sp})]
           beat == \E k \in K : report[k].beats
           beating == \E k \in Abstract!Impacting(i) : by[k].beats
           all == {<<k, report[k].status>> : k \in {j \in K : report[j].status # "Healthy"}}
           impacts == {<<k, by[k].status>> :
                         k \in {j \in Abstract!Impacting(i) : by[j].status # "Healthy"}}
<1>1. promised = counts
  <2>1. Abstract!Statuses = Statuses /\ Abstract!Priorities = Priorities
    BY DEF Abstract!Statuses, Statuses, Abstract!Priorities, Priorities
  <2>2. \A h : Abstract!Priority(h) = PriorityForType(h.type)
    BY DEF Abstract!Priority, PriorityForType, Abstract!DefaultPriority, DefaultPriority
  <2>3. ASSUME NEW sp \in Statuses \X Priorities
        PROVE  {k \in Abstract!Impacting(i) : <<by[k].status, Abstract!Priority(by[k])>> = sp} =
               Saying(K, report, sp[1], sp[2])
    <3>1. sp = <<sp[1], sp[2]>>
      OBVIOUS
    <3>. QED
      BY <2>2, <3>1 DEF Saying
  <2>. QED
    BY <2>1, <2>3, SameCardinality
<1>2. beating = beat
  OBVIOUS
<1>3. impacts = all
  OBVIOUS
<1>4. Abstract!CalculateComponentHealth(
         (IF owner = "cycle" THEN before.rawHealth ELSE rawHealth)[i]) =
      CalculateComponentHealth(Begun(i))
  BY SameHealth DEF Begun
<1>5. Abstract!IsTarget(i)
  BY DEF Abstract!IsTarget, IsTarget
<1>6. HbEnabled(i) = targets[i]
  BY DEF HbEnabled, IsTarget, IInv, TypeOK, IsMap
<1>7. impact[i].counts = counts /\ impact[i].enabled = targets[i] /\ impact[i].beats = beat
      /\ impact[i].messages = all
  BY <1>6 DEF Told
<1>8. Abstract!HealthOf(i, fn, by) =
        [Abstract!CalculateComponentHealth(
            (IF owner = "cycle" THEN before.rawHealth ELSE rawHealth)[i]) EXCEPT
           !.status = Abstract!StatusOf(fn, promised),
           !.enabled = @ \/ targets[i],
           !.beats = @ \/ beating,
           !.impacts = impacts]
  BY <1>5, Zenon DEF Abstract!HealthOf
<1>. HIDE DEF counts, promised, beat, beating, all, impacts
<1>. QED
  BY <1>1, <1>2, <1>3, <1>4, <1>7, <1>8, Zenon DEF HealthWith

(* When the first range ends, the healths pushed are those of the components that are not  *)
(* targets and of the targets whose chain ends.                                            *)
LEMMA AllReported ==
    ASSUME IInv, ReportsInv, EndCycle
    PROVE  Pushed = Abstract!Reported
<1>1. /\ stack # << >> /\ owner = "cycle" /\ visit = {}
      /\ Found = {} /\ Top.rest \subseteq DOMAIN own
      /\ Len(stack) = 1 /\ 1 \in DOMAIN stack /\ Top = stack[1] /\ DOMAIN stack = 1 .. 1
  BY OnStack DEF EndCycle, RangeDone
<1>2. MomentInv /\ OnceInv /\ OwnInv /\ ToldInv /\ ReportInv /\ ChainInv
  BY <1>1 DEF ReportsInv
<1>3. /\ Abstract!Registered = Registered
      /\ \A i : Abstract!IsTarget(i) = IsTarget(i) /\ Abstract!Target(i) = TargetOf(i)
  BY <1>1, <1>2 DEF Abstract!Registered, Abstract!IsTarget, Abstract!Target, MomentInv, IsTarget,
                    TargetOf
<1>4. \A i \in Registered : ~IsTarget(i) => i \in Pushed
  <2> SUFFICES ASSUME NEW i \in Registered, ~IsTarget(i) PROVE i \in Pushed
    OBVIOUS
  <2>1. pushes[i] >= 1
    BY <1>1 DEF IInv, CycleInv
  <2>2. i \in Ids /\ pushes[i] \in Nat
    BY DEF IInv, TypeOK, IsMap, Registered
  <2>. QED
    BY <2>1, <2>2 DEF Pushed
<1>5. \A t \in Registered : IsTarget(t) => t \in DOMAIN own /\ t \in DOMAIN impact
  BY <1>1 DEF IInv, CycleInv
<1>6. \A t \in Pushed : IsTarget(t) => t \in Abstract!Rooted
  BY <1>2, <1>5 DEF ChainInv, Done, OnceInv
<1>7. ASSUME NEW t \in Registered, IsTarget(t), TargetOf(t) = NoTarget
      PROVE  t \in Pushed
  <2>1. stack[1].id = NoTarget /\ own[t].target = NoTarget
    BY <1>1, <1>2, <1>5, <1>7 DEF ChainInv, OwnInv
  <2>2. t \notin stack[1].rest
    BY <1>1, <1>5, <1>7, <2>1 DEF Found
  <2>3. pushes[t] >= 1
    BY <1>1, <1>5, <1>7, <2>2 DEF IInv, StackInv
  <2>4. t \in Ids /\ pushes[t] \in Nat
    BY DEF IInv, TypeOK, IsMap, Registered
  <2>. QED
    BY <2>3, <2>4 DEF Pushed
<1>8. Abstract!Rooted \subseteq Pushed
  <2> DEFINE S == Pushed \cap Registered
  <2>1. ASSUME NEW t \in Registered, IsTarget(t), TargetOf(t) \in S \cup {NoTarget}
        PROVE  t \in S
    <3>1. CASE TargetOf(t) = NoTarget
      BY <1>7, <2>1, <3>1
    <3>2. CASE TargetOf(t) # NoTarget
      <4>1. TargetOf(t) \in Pushed
        BY <2>1, <3>2
      <4>2. IsTarget(TargetOf(t))
        <5>1. rawHealth[t].component.target = TargetOf(t)
          BY <1>1, <1>2, CleanType DEF MomentInv, IsMap, TargetOf, Begun
        <5>. QED
          BY <3>2, <5>1 DEF IInv, RegistryInv, IsTarget
      <4>. QED
        BY <1>2, <2>1, <4>1, <4>2 DEF ReportInv
    <3>. QED
      BY <3>1, <3>2
  <2>2. Abstract!Closed(S)
    BY <1>3, <2>1 DEF Abstract!Closed, Abstract!NoTarget, NoTarget
  <2>. QED
    BY <1>3, <2>2 DEF Abstract!Rooted
<1>9. Abstract!Rooted \subseteq Registered
  BY <1>3 DEF Abstract!Rooted
<1>. QED
  BY <1>2, <1>3, <1>4, <1>6, <1>8, <1>9 DEF Abstract!Reported, OnceInv

(* A component impacting a target that is not registered would have ended the program. *)
LEMMA NotBroken ==
    ASSUME IInv, ReportsInv, EndCycle
    PROVE  ~Abstract!Broken
<1>1. /\ stack # << >> /\ owner = "cycle" /\ visit = {} /\ Top.rest \subseteq DOMAIN own
      /\ Len(stack) = 1 /\ 1 \in DOMAIN stack /\ Top = stack[1]
  BY OnStack DEF EndCycle, RangeDone
<1>2. MomentInv /\ OnceInv /\ OwnInv /\ ToldInv
  BY <1>1 DEF ReportsInv
<1>3. SUFFICES ASSUME NEW i \in Registered, ~IsTarget(i), TargetOf(i) \notin Registered,
                      TargetOf(i) # NoTarget
               PROVE  FALSE
  BY <1>1, <1>2 DEF Abstract!Broken, Abstract!Registered, Abstract!IsTarget, Abstract!Target,
                    MomentInv, IsTarget, TargetOf, Abstract!NoTarget, NoTarget
<1>4. i \in Pushed
  <2>1. i \in Ids /\ pushes[i] \in Nat /\ pushes[i] >= 1
    BY <1>1, <1>3 DEF IInv, TypeOK, IsMap, Registered, CycleInv
  <2>. QED
    BY <2>1 DEF Pushed
<1>5. TargetOf(i) \in DOMAIN impact
  BY <1>2, <1>3, <1>4 DEF ToldInv
<1>6. TargetOf(i) \notin stack[1].rest
  BY <1>1, <1>2, <1>3 DEF OwnInv
<1>7. pushes[TargetOf(i)] >= 1 /\ TargetOf(i) \in Ids
  BY <1>1, <1>5, <1>6 DEF IInv, StackInv, TypeOK, IsMap
<1>8. TargetOf(i) \in Pushed
  BY <1>7 DEF Pushed, IInv, TypeOK
<1>. QED
  BY <1>2, <1>3, <1>8 DEF OnceInv

(* The end of a cycle is the publication HealthReport promises. *)
LEMMA EndCyclePublishes ==
    ASSUME IInv, ReportsInv, EndCycle
    PROVE  Abstract!Publish
<1> DEFINE Now == IF owner = "cycle" THEN before.rawHealth ELSE rawHealth
           Then == IF owner = "cycle" THEN before.sent ELSE Sent
           healths == [i \in Abstract!Reported |-> Sent[i].health]
<1>1. /\ owner = "cycle" /\ visit = {} /\ owner' = "free" /\ Registered' = Registered
      /\ UNCHANGED <<rawHealth, targets, typePriorities, pushes, report, panicked>>
  BY OnStack DEF EndCycle, RangeDone, registry, output, Registered
<1>2. MomentInv /\ OnceInv /\ OwnInv /\ ToldInv /\ ReportInv /\ ChainInv
  BY <1>1 DEF ReportsInv
<1>3. Then' = Sent /\ Now' = rawHealth /\ Now = before.rawHealth
  BY <1>1 DEF Sent
<1>4. Pushed = Abstract!Reported
  BY AllReported
<1>5. /\ DOMAIN Sent = Pushed
      /\ \A i \in Pushed : Sent[i] = [times |-> 1, health |-> report[i]]
  <2>1. \A i \in Pushed : pushes[i] = 1
    BY <1>2 DEF OnceInv, Pushed
  <2>2. /\ DOMAIN Sent = Pushed
        /\ \A i \in Pushed : Sent[i] = [times |-> pushes[i], health |-> report[i]]
    BY DEF Sent, Pushed
  <2>. QED
    BY <2>1, <2>2
<1>6. \A i \in Pushed : healths[i] = report[i]
  BY <1>4, <1>5
<1>. HIDE DEF healths
<1>7. ASSUME NEW i \in Pushed
      PROVE  \E fn \in before.functions : report[i] = Abstract!HealthOf(i, fn, healths)
  <2>1. i \in Registered
    BY <1>2 DEF OnceInv
  <2>2. CASE IsTarget(i)
    <3>1. PICK fn \in before.functions : report[i] = HealthWith(i, fn)
      BY <1>2, <2>2 DEF ReportInv
    <3>2. Abstract!Impacting(i) = PushedTo(i)
      <4>1. Abstract!Impacting(i) = {k \in Registered : TargetOf(k) = i}
        BY <1>1, <1>2 DEF Abstract!Impacting, Abstract!Registered, Abstract!Target, MomentInv,
                          TargetOf
      <4>. QED
        BY <1>2, <2>2, <4>1 DEF ReportInv, OnceInv, PushedTo
    <3>3. \A k \in PushedTo(i) : healths[k] = report[k]
      BY <1>6 DEF PushedTo
    <3>4. impact[i] = Told(PushedTo(i), report, HbEnabled(i))
      BY <1>1, <1>2, <2>1, <2>2 DEF ToldInv, IInv, CycleInv
    <3>5. Abstract!HealthOf(i, fn, healths) = HealthWith(i, fn)
      BY <1>1, <1>2, <2>1, <2>2, <3>2, <3>3, <3>4, PromisedHealth
    <3>. QED
      BY <3>1, <3>5
  <2>3. CASE ~IsTarget(i)
    <3>1. report[i] = CalculateComponentHealth(Begun(i))
      BY <1>2, <2>3 DEF ReportInv
    <3>2. ~Abstract!IsTarget(i)
      BY <2>3 DEF Abstract!IsTarget, IsTarget
    <3>3. \A fn : Abstract!HealthOf(i, fn, healths) =
                  Abstract!CalculateComponentHealth(Now[i])
      BY <3>2, Zenon DEF Abstract!HealthOf
    <3>4. Abstract!CalculateComponentHealth(Now[i]) = CalculateComponentHealth(Begun(i))
      BY <1>1, SameHealth DEF Begun
    <3>5. config.targetHealthFn \in before.functions
      BY <1>2 DEF MomentInv
    <3>. HIDE DEF Now
    <3>. QED
      BY <3>1, <3>3, <3>4, <3>5
  <2>. QED
    BY <2>2, <2>3
<1>8. ~Abstract!Broken
  BY NotBroken
<1>9. DOMAIN Then' = Abstract!Reported
  BY <1>3, <1>4, <1>5
<1>10. \A i \in Abstract!Reported : \E fn \in before.functions :
          Then'[i] = [times |-> 1, health |-> Abstract!HealthOf(i, fn, healths)]
  BY <1>3, <1>4, <1>5, <1>7
<1>11. healths = [i \in Abstract!Reported |-> Then'[i].health]
  BY <1>3 DEF healths
<1>12. Now' = [i \in Abstract!Registered |-> Abstract!CleanHealthValues(Now[i])]
  <2>1. Abstract!Registered = Registered
    BY <1>1, <1>2 DEF Abstract!Registered, MomentInv
  <2>2. \A i \in Registered : rawHealth[i] = Abstract!CleanHealthValues(Now[i])
    BY <1>1, <1>2, SameClean DEF MomentInv, Begun
  <2>3. rawHealth = [i \in Registered |-> rawHealth[i]]
    BY DEF IInv, TypeOK, IsMap, Registered
  <2>. HIDE DEF Now
  <2>. QED
    BY <1>3, <2>1, <2>2, <2>3
<1>. QED
  <2>1. Abstract!Publish <=>
          /\ ~Abstract!Broken
          /\ DOMAIN Then' = Abstract!Reported
          /\ \A i \in Abstract!Reported : \E fn \in before.functions :
                Then'[i] = [times |-> 1,
                            health |-> Abstract!HealthOf(i, fn,
                                          [j \in Abstract!Reported |-> Then'[j].health])]
          /\ Now' = [i \in Abstract!Registered |-> Abstract!CleanHealthValues(Now[i])]
          /\ UNCHANGED <<targets, typePriorities, panicked>>
    BY Zenon DEF Abstract!Publish
  <2>. HIDE DEF Now, Then
  <2>. QED
    BY <1>1, <1>8, <1>9, <1>10, <1>11, <1>12, <2>1

(* The range comes to a target without a health of its own only when it is not registered. *)
LEMMA RangePanicsBroken ==
    ASSUME IInv, ReportsInv, RangePanics
    PROVE  Abstract!Broken
<1>1. stack # << >> /\ owner = "cycle" /\ visit = {} /\ Top.rest \subseteq DOMAIN impact
  BY OnStack DEF RangePanics
<1>2. MomentInv /\ OnceInv /\ OwnInv /\ ToldInv
  BY <1>1 DEF ReportsInv
<1>3. PICK t \in DOMAIN impact : t \notin DOMAIN own
  BY <1>1 DEF RangePanics
<1>4. t # NoTarget
  BY HealthComponentAssumption DEF IInv, TypeOK, IsMap
<1>5. PICK i \in PushedTo(t) : ~IsTarget(i)
  BY <1>2, <1>3 DEF ToldInv
<1>6. i \in Registered /\ TargetOf(i) = t
  BY <1>2 DEF PushedTo, OnceInv
<1>7. t \in DOMAIN targets
  <2>1. rawHealth[i].component.target = TargetOf(i)
    BY <1>1, <1>2, <1>6, CleanType DEF MomentInv, IsMap, TargetOf, Begun
  <2>. QED
    BY <1>4, <1>6, <2>1 DEF IInv, RegistryInv
<1>8. t \notin Registered
  BY <1>1, <1>3, <1>7 DEF IInv, CycleInv, IsTarget
<1>. QED
  BY <1>1, <1>2, <1>4, <1>5, <1>6, <1>8
     DEF Abstract!Broken, Abstract!Registered, Abstract!IsTarget, Abstract!Target, MomentInv,
         IsTarget, TargetOf, Abstract!NoTarget, NoTarget

(* Every step is a step of HealthReport or leaves its variables alone. *)
LEMMA StepRefines ==
    ASSUME CustomsReturnStatuses, IInv, ReportsInv, [ReportsNext]_<<vars, before>>
    PROVE  [Abstract!Next]_(Abstract!vars)
<1>1. CASE UNCHANGED <<vars, before>>
  <2>1. UNCHANGED <<rawHealth, targets, typePriorities, config, owner, pushes, report, panicked,
                    before>>
    BY <1>1 DEF vars, registry, output
  <2>2. Sent' = Sent
    BY <2>1 DEF Sent
  <2>. QED
    BY <2>1, <2>2 DEF Abstract!vars
<1>2. CASE ReportsNext
  <2>1. CASE Between
    <3>1. Sent' = Sent
      BY <2>1 DEF Between, Sent
    <3>. QED
      BY <2>1, <3>1 DEF Between, Abstract!Next, Abstract!Change, Abstract!Panic
  <2>2. ASSUME Continues, panicked' = panicked
        PROVE  Abstract!Change
    BY <2>2, ContinuesKeeps DEF Continues, Abstract!Change
  <2>3. CASE Within
    BY <1>2, <2>2, <2>3, BeforeStep DEF Within, Abstract!Next
  <2>4. CASE BeginCycle
    <3>1. owner # "cycle" /\ owner' = "cycle" /\ panicked' = panicked
      BY <2>4 DEF BeginCycle, Lock
    <3>2. before'.sent = Sent
      BY <1>2, <3>1, BeforeStep
    <3>. QED
      BY <3>1, <3>2 DEF Abstract!Next, Abstract!Change
  <2>5. CASE CycleSteps
    <3>1. CASE EndCycle
      BY <3>1, EndCyclePublishes DEF Abstract!Next
    <3>2. CASE RangePanics
      <4>1. owner = "cycle" /\ owner' = "cycle" /\ panicked' = TRUE
        BY <3>2, OnStack DEF RangePanics
      <4>2. before'.sent = before.sent
        BY <1>2, <4>1, BeforeStep, ContinuesKeeps
      <4>3. Abstract!Panic
        BY <3>2, <4>1, <4>2, RangePanicsBroken DEF Abstract!Panic
      <4>. QED
        BY <4>3 DEF Abstract!Next
    <3>3. CASE ~EndCycle /\ ~RangePanics
      <4>1. panicked' = panicked
        BY <2>5, <3>3 DEF CycleSteps, Calculate, BeginTargets, Descend, PushTarget
      <4>. QED
        BY <1>2, <2>2, <2>5, <3>3, <4>1, CycleStepContinues DEF Abstract!Next
    <3>. QED
      BY <3>1, <3>2, <3>3
  <2>. QED
    BY <1>2, <2>1, <2>3, <2>4, <2>5, StepKinds DEF ReportsNext
<1>. QED
  BY <1>1, <1>2

LEMMA InitRefines == ASSUME ReportsInit PROVE Abstract!Init
<1>1. DOMAIN Sent = {}
  BY DEF ReportsInit, Init, Sent
<1>. QED
  BY <1>1 DEF ReportsInit, Init, Abstract!Init, Abstract!Registered

(* The health manager implements HealthReport: whatever the registry, the graph of targets,     *)
(* the order in which the ranges over the maps go and the changes of configuration meanwhile, a *)
(* cycle that ends has published what HealthReport says of the registry it began with.          *)
THEOREM ReportsImplementHealthReport ==
    ASSUME CustomsReturnStatuses PROVE ReportsSpec => ImplementsHealthReport
<1>1. ReportsInit => Abstract!Init
  BY InitRefines
<1>2. IInv /\ ReportsInv /\ [ReportsNext]_<<vars, before>> => [Abstract!Next]_(Abstract!vars)
  BY StepRefines
<1>. QED
  BY <1>1, <1>2, ReportsInvariance, PTL DEF ReportsSpec, ImplementsHealthReport, Abstract!Spec

-----------------------------------------------------------------------------
(* int32 arithmetic. *)

(* Division has one quotient and one remainder. *)
LEMMA OneRemainder ==
    ASSUME NEW N \in Nat \ {0}, NEW q1 \in Int, NEW q2 \in Int, NEW r1 \in 0 .. N - 1,
           NEW r2 \in 0 .. N - 1, N * q1 + r1 = N * q2 + r2
    PROVE  r1 = r2
<1>1. N * (q1 - q2) = r2 - r1
  OBVIOUS
<1>2. CASE q1 = q2
  BY <1>2
<1>3. CASE q1 > q2
  <2>1. N * (q1 - q2) >= N
    BY <1>3
  <2>. QED
    BY <1>1, <2>1
<1>4. CASE q1 < q2
  <2>1. N * (q2 - q1) >= N
    BY <1>4
  <2>2. N * (q2 - q1) = r1 - r2
    BY <1>1
  <2>. QED
    BY <2>1, <2>2
<1>. QED
  BY <1>2, <1>3, <1>4

(* Wrapping around moves a number by a multiple of 2^32. *)
LEMMA WrapMoves ==
    ASSUME NEW n \in Int
    PROVE  \E q \in Int : /\ Wrap32(n) = n - (2 * Int32Half) * q
                          /\ Wrap32(n) + Int32Half \in 0 .. 2 * Int32Half - 1
<1> DEFINE N == 2 * Int32Half
           a == n + Int32Half
<1>1. N \in Nat \ {0} /\ a \in Int /\ Int32Half \in Nat
  BY HealthComponentAssumption
<1>2. Wrap32(n) = (a % N) - Int32Half
  BY DEF Wrap32
<1>. HIDE DEF N, a
<1>3. a = N * (a \div N) + (a % N) /\ a \div N \in Int /\ a % N \in 0 .. N - 1
  BY <1>1
<1>. QED
  BY <1>1, <1>2, <1>3 DEF N, a

(* Wrapping around gives the one number within the bounds that is the same
   modulo 2 * Int32Half. *)
LEMMA WrapOnce ==
    ASSUME NEW n \in Int, NEW q \in Int
    PROVE  Wrap32(n - (2 * Int32Half) * q) = Wrap32(n)
<1> DEFINE N == 2 * Int32Half
           m == n - N * q
<1>1. N \in Nat \ {0} /\ Int32Half \in Nat /\ m \in Int
  BY HealthComponentAssumption
<1>2. PICK q1 \in Int : /\ Wrap32(n) = n - N * q1
                        /\ Wrap32(n) + Int32Half \in 0 .. N - 1
  BY WrapMoves
<1>3. PICK q2 \in Int : /\ Wrap32(m) = m - N * q2
                        /\ Wrap32(m) + Int32Half \in 0 .. N - 1
  BY <1>1, WrapMoves
<1> DEFINE r1 == Wrap32(n) + Int32Half
           r2 == Wrap32(m) + Int32Half
           q3 == q + q2
<1>4. N * q1 + r1 = N * q3 + r2
  <2>1. N * q3 = N * q + N * q2 /\ N * q \in Int /\ N * q2 \in Int /\ N * q1 \in Int
    BY <1>1
  <2>. HIDE DEF N
  <2>. QED
    BY <1>1, <1>2, <1>3, <2>1
<1>5. q3 \in Int /\ r1 \in 0 .. N - 1 /\ r2 \in 0 .. N - 1
  BY <1>2, <1>3
<1>. HIDE DEF N, q3, r1, r2
<1>6. r1 = r2
  BY <1>1, <1>2, <1>4, <1>5, OneRemainder
<1>7. Wrap32(n) \in Int /\ Wrap32(m) \in Int
  BY <1>1, WrapIsInt
<1>. QED
  BY <1>1, <1>6, <1>7 DEF r1, r2, N

(* What is wrapped around on the way does not show in the end. *)
LEMMA WrapAgain ==
    ASSUME NEW n \in Int, NEW v \in Int
    PROVE  Wrap32(Wrap32(n) + v) = Wrap32(n + v)
<1> DEFINE N == 2 * Int32Half
<1>1. PICK q \in Int : Wrap32(n) = n - N * q
  BY WrapMoves
<1>2. N \in Int /\ N * q \in Int
  BY HealthComponentAssumption
<1>3. Wrap32(n) + v = (n + v) - N * q
  <2>. HIDE DEF N
  <2>. QED
    BY <1>1, <1>2
<1>4. n + v \in Int
  OBVIOUS
<1>. QED
  BY <1>3, <1>4, WrapOnce

(* Nothing counted is nothing. *)
LEMMA WrapZero == Wrap32(0) = 0
<1>1. PICK q \in Int : /\ Wrap32(0) = 0 - (2 * Int32Half) * q
                       /\ Wrap32(0) + Int32Half \in 0 .. 2 * Int32Half - 1
  BY WrapMoves
<1>2. Int32Half \in Nat \ {0}
  BY HealthComponentAssumption
<1> DEFINE N == 2 * Int32Half
<1>3. N \in Nat \ {0} /\ 0 \in Int /\ N * 0 + Int32Half = N * q + (Wrap32(0) + Int32Half)
      /\ Int32Half \in 0 .. N - 1
  BY <1>1, <1>2
<1>. HIDE DEF N
<1>4. Int32Half = Wrap32(0) + Int32Half
  BY <1>1, <1>3, OneRemainder DEF N
<1>. QED
  BY <1>2, <1>4, WrapIsInt

-----------------------------------------------------------------------------
(* Sums of sequences. *)

(* The sums of a sequence over sets of places, as FoldLeft makes them. *)
Summing(s, n, g) ==
    g = [T \in SUBSET (1 .. n) |-> IF T = {} THEN 0 ELSE g[T \ {Max(T)}] + s[Max(T)]]

(* A number of a set that no other exceeds is its greatest. *)
LEMMA MaxIs ==
    ASSUME NEW T \in SUBSET Int, NEW x \in T, \A y \in T : y <= x
    PROVE  Max(T) = x
<1>1. \A z \in T : (\A y \in T : z >= y) => z = x
  OBVIOUS
<1>2. \A y \in T : x >= y
  OBVIOUS
<1>. QED
  BY <1>1, <1>2 DEF Max

(* There is such a function, however long the sequence. *)
LEMMA SummingExists ==
    ASSUME NEW s
    PROVE  \A n \in Nat : \E g : Summing(s, n, g)
<1> DEFINE D == {n \in Nat : \E g : Summing(s, n, g)}
<1>1. 0 \in D
  <2> DEFINE g == [T \in SUBSET (1 .. 0) |-> 0]
  <2>1. \A T \in SUBSET (1 .. 0) : T = {}
    OBVIOUS
  <2>2. Summing(s, 0, g)
    BY <2>1 DEF Summing
  <2>. QED
    BY <2>2
<1>2. ASSUME NEW n \in Nat, n \in D PROVE n + 1 \in D
  <2>1. PICK g : Summing(s, n, g)
    BY <1>2
  <2>2. \A T \in SUBSET (1 .. n) : g[T] = IF T = {} THEN 0 ELSE g[T \ {Max(T)}] + s[Max(T)]
    BY <2>1 DEF Summing
  <2> DEFINE h == [T \in SUBSET (1 .. n + 1) |->
                     IF n + 1 \in T THEN g[T \ {n + 1}] + s[n + 1] ELSE g[T]]
  <2>3. ASSUME NEW T \in SUBSET (1 .. n + 1)
        PROVE  h[T] = IF T = {} THEN 0 ELSE h[T \ {Max(T)}] + s[Max(T)]
    <3>1. CASE n + 1 \in T
      <4>1. Max(T) = n + 1
        BY <3>1, MaxIs
      <4>2. T \ {n + 1} \in SUBSET (1 .. n + 1) /\ n + 1 \notin T \ {n + 1} /\ T # {}
        BY <3>1
      <4>. QED
        BY <3>1, <4>1, <4>2
    <3>2. CASE n + 1 \notin T
      <4>1. T \in SUBSET (1 .. n)
        BY <3>2
      <4>2. T \ {Max(T)} \in SUBSET (1 .. n + 1) /\ n + 1 \notin T \ {Max(T)}
        BY <3>2
      <4>. QED
        BY <2>2, <3>2, <4>1, <4>2
    <3>. QED
      BY <3>1, <3>2
  <2>4. h = [T \in SUBSET (1 .. n + 1) |-> h[T]]
    OBVIOUS
  <2>. HIDE DEF h
  <2>5. Summing(s, n + 1, h)
    BY <2>3, <2>4 DEF Summing
  <2>. QED
    BY <2>5
<1>. HIDE DEF D
<1>3. Nat \subseteq D
  BY <1>1, <1>2, NatSetInduction
<1>. QED
  BY <1>3 DEF D

(* SumOf is the sum of all places, whichever such function makes it. *)
LEMMA SumIs ==
    ASSUME NEW s \in Seq(Int)
    PROVE  \E g : Summing(s, Len(s), g) /\ SumOf(s) = g[1 .. Len(s)]
<1>1. DOMAIN s = 1 .. Len(s) /\ Len(s) \in Nat
  BY LenProperties
<1> DEFINE g == CHOOSE g : Summing(s, Len(s), g)
<1>2. Summing(s, Len(s), g)
  BY <1>1, SummingExists
<1>3. SumOf(s) = g[1 .. Len(s)]
  BY <1>1 DEF SumOf, FoldLeft, MapThenFoldSet, Summing
<1>. HIDE DEF g
<1>. QED
  BY <1>2, <1>3

(* A sum over the first places is the sum over those before the last, and the last. *)
LEMMA SumPrefix ==
    ASSUME NEW s, NEW n \in Nat, NEW g, Summing(s, n, g)
    PROVE  /\ g[1 .. 0] = 0
           /\ \A k \in Nat : k + 1 <= n => g[1 .. k + 1] = g[1 .. k] + s[k + 1]
<1>1. \A T \in SUBSET (1 .. n) : g[T] = IF T = {} THEN 0 ELSE g[T \ {Max(T)}] + s[Max(T)]
  BY DEF Summing
<1>2. 1 .. 0 = {} /\ {} \in SUBSET (1 .. n)
  OBVIOUS
<1>3. ASSUME NEW k \in Nat, k + 1 <= n PROVE g[1 .. k + 1] = g[1 .. k] + s[k + 1]
  <2>1. 1 .. k + 1 \in SUBSET (1 .. n) /\ 1 .. k + 1 # {}
    <3>1. 1 .. k + 1 \subseteq 1 .. n /\ k + 1 \in 1 .. k + 1
      BY <1>3
    <3>. QED
      BY <3>1
  <2>2. Max(1 .. k + 1) = k + 1
    <3>1. 1 .. k + 1 \in SUBSET Int /\ k + 1 \in 1 .. k + 1 /\ \A y \in 1 .. k + 1 : y <= k + 1
      OBVIOUS
    <3>. QED
      BY <3>1, MaxIs
  <2>3. (1 .. k + 1) \ {k + 1} = 1 .. k
    OBVIOUS
  <2>. QED
    BY <1>1, <2>1, <2>2, <2>3
<1>. QED
  BY <1>1, <1>2, <1>3

(* A sum of integers is an integer. *)
LEMMA SumType == ASSUME NEW s \in Seq(Int) PROVE SumOf(s) \in Int
<1>1. Len(s) \in Nat /\ \A k \in 1 .. Len(s) : s[k] \in Int
  BY ElementOfSeq
<1>2. PICK g : Summing(s, Len(s), g) /\ SumOf(s) = g[1 .. Len(s)]
  BY SumIs
<1> DEFINE D == {k \in Nat : k <= Len(s) => g[1 .. k] \in Int}
<1>3. 0 \in D
  BY <1>1, <1>2, SumPrefix
<1>4. ASSUME NEW k \in Nat, k \in D PROVE k + 1 \in D
  <2>1. CASE k + 1 <= Len(s)
    <3>1. g[1 .. k + 1] = g[1 .. k] + s[k + 1] /\ g[1 .. k] \in Int /\ s[k + 1] \in Int
      BY <1>1, <1>2, <1>4, <2>1, SumPrefix
    <3>. QED
      BY <3>1
  <2>. QED
    BY <2>1
<1>. HIDE DEF D
<1>5. Nat \subseteq D
  BY <1>3, <1>4, NatSetInduction
<1>. QED
  BY <1>1, <1>2, <1>5 DEF D

(* The sum of nothing. *)
LEMMA SumOfNone == SumOf(<< >>) = 0
<1>1. << >> \in Seq(Int) /\ Len(<< >>) = 0
  OBVIOUS
<1>2. PICK g : Summing(<< >>, 0, g) /\ SumOf(<< >>) = g[1 .. 0]
  BY <1>1, SumIs
<1>. QED
  BY <1>2, SumPrefix

(* The sum of one more. *)
LEMMA SumOfMore ==
    ASSUME NEW s \in Seq(Int), NEW v \in Int
    PROVE  SumOf(Append(s, v)) = SumOf(s) + v
<1> DEFINE n == Len(s)
           t == Append(s, v)
<1>1. /\ n \in Nat /\ t \in Seq(Int) /\ Len(t) = n + 1 /\ t[n + 1] = v
      /\ \A k \in 1 .. n : t[k] = s[k]
  BY AppendProperties, LenProperties
<1>. HIDE DEF t
<1>2. PICK g : Summing(s, n, g) /\ SumOf(s) = g[1 .. n]
  BY SumIs
<1>3. PICK h : Summing(t, n + 1, h) /\ SumOf(t) = h[1 .. n + 1]
  BY <1>1, SumIs
<1>. HIDE DEF n
<1>4. n + 1 \in Nat
  BY <1>1
<1> DEFINE D == {k \in Nat : k <= n => g[1 .. k] = h[1 .. k]}
<1>5. 0 \in D
  BY <1>1, <1>2, <1>3, <1>4, SumPrefix
<1>6. ASSUME NEW k \in Nat, k \in D PROVE k + 1 \in D
  <2>1. CASE k + 1 <= n
    <3>1. k + 1 <= n + 1 /\ k <= n /\ k + 1 \in 1 .. n
      BY <1>1, <2>1
    <3>2. g[1 .. k + 1] = g[1 .. k] + s[k + 1]
      BY <1>1, <1>2, <2>1, SumPrefix
    <3>3. h[1 .. k + 1] = h[1 .. k] + t[k + 1]
      BY <1>3, <1>4, <3>1, SumPrefix
    <3>. QED
      BY <1>1, <1>6, <3>1, <3>2, <3>3
  <2>. QED
    BY <2>1
<1>. HIDE DEF D
<1>7. Nat \subseteq D
  BY <1>5, <1>6, NatSetInduction
<1>8. g[1 .. n] = h[1 .. n]
  BY <1>1, <1>7 DEF D
<1>9. h[1 .. n + 1] = h[1 .. n] + t[n + 1]
  BY <1>1, <1>3, <1>4, SumPrefix
<1>. QED
  BY <1>1, <1>2, <1>3, <1>8, <1>9 DEF t

-----------------------------------------------------------------------------
(* The least and the greatest of a sequence. *)
LEMMA ExtremesExist ==
    ASSUME NEW s \in Seq(Int), s # << >>
    PROVE  /\ LeastOf(s) \in Range(s) /\ \A k \in DOMAIN s : s[k] >= LeastOf(s)
           /\ GreatestOf(s) \in Range(s) /\ \A k \in DOMAIN s : s[k] <= GreatestOf(s)
<1> DEFINE n == Len(s)
<1>1. n \in Nat \ {0} /\ DOMAIN s = 1 .. n /\ \A k \in 1 .. n : s[k] \in Int
  BY ElementOfSeq, LenProperties, EmptySeq
<1>. HIDE DEF n
<1> DEFINE D == {k \in Nat : k + 1 <= n =>
                   /\ \E a \in 1 .. k + 1 : \A b \in 1 .. k + 1 : s[a] <= s[b]
                   /\ \E a \in 1 .. k + 1 : \A b \in 1 .. k + 1 : s[a] >= s[b]}
<1>2. 0 \in D
  BY <1>1
<1>3. ASSUME NEW k \in Nat, k \in D PROVE k + 1 \in D
  <2>1. CASE (k + 1) + 1 <= n
    <3> DEFINE c == k + 1
    <3>1. c \in Nat /\ c + 1 \in 1 .. n /\ c <= n /\ 1 .. c + 1 = (1 .. c) \cup {c + 1} /\ 1 .. c + 1 \subseteq 1 .. n
      BY <1>1, <2>1
    <3>2. PICK a \in 1 .. c : \A b \in 1 .. c : s[a] <= s[b]
      BY <1>3, <3>1
    <3>3. PICK z \in 1 .. c : \A b \in 1 .. c : s[z] >= s[b]
      BY <1>3, <3>1
    <3>. HIDE DEF c
    <3>4. \A b \in 1 .. c + 1 : s[b] \in Int
      BY <1>1, <3>1
    <3>5. \E x \in 1 .. c + 1 : \A b \in 1 .. c + 1 : s[x] <= s[b]
      <4>1. CASE s[a] <= s[c + 1]
        BY <3>1, <3>2, <4>1
      <4>2. CASE ~(s[a] <= s[c + 1])
        <5>1. \A b \in 1 .. c + 1 : s[c + 1] <= s[b]
          BY <3>1, <3>2, <3>4, <4>2
        <5>. QED
          BY <3>1, <5>1
      <4>. QED
        BY <4>1, <4>2
    <3>6. \E x \in 1 .. c + 1 : \A b \in 1 .. c + 1 : s[x] >= s[b]
      <4>1. CASE s[z] >= s[c + 1]
        BY <3>1, <3>3, <4>1
      <4>2. CASE ~(s[z] >= s[c + 1])
        <5>1. \A b \in 1 .. c + 1 : s[c + 1] >= s[b]
          BY <3>1, <3>3, <3>4, <4>2
        <5>. QED
          BY <3>1, <5>1
      <4>. QED
        BY <4>1, <4>2
    <3>7. c \in D
      BY <3>1, <3>5, <3>6
    <3>. QED
      BY <3>7 DEF c
  <2>. QED
    BY <2>1
<1>. HIDE DEF D
<1>4. Nat \subseteq D
  BY <1>2, <1>3, NatSetInduction
<1>5. n - 1 \in D /\ (n - 1) + 1 = n
  BY <1>1, <1>4
<1>6. /\ \E a \in 1 .. n : \A b \in 1 .. n : s[a] <= s[b]
      /\ \E a \in 1 .. n : \A b \in 1 .. n : s[a] >= s[b]
  BY <1>1, <1>5 DEF D
<1>7. Range(s) = {s[k] : k \in 1 .. n}
  BY <1>1 DEF Range
<1>8. \E v \in Range(s) : \A w \in Range(s) : v <= w
  BY <1>6, <1>7
<1>9. \E v \in Range(s) : \A w \in Range(s) : v >= w
  BY <1>6, <1>7
<1>10. LeastOf(s) \in Range(s) /\ \A w \in Range(s) : LeastOf(s) <= w
  BY <1>8 DEF LeastOf
<1>11. GreatestOf(s) \in Range(s) /\ \A w \in Range(s) : GreatestOf(s) >= w
  BY <1>9 DEF GreatestOf
<1>12. \A k \in DOMAIN s : s[k] \in Range(s)
  BY <1>1, <1>7
<1>13. \A w \in Range(s) : w \in Int
  BY <1>1, <1>7
<1>. QED
  BY <1>10, <1>11, <1>12, <1>13

-----------------------------------------------------------------------------
(* Flattened sequences. *)

(* Flattening nothing. *)
LEMMA FlattenNone == FlattenSeq(<< >>) = << >>
  BY DEF FlattenSeq

(* Prefixes that are made alike are the same. *)
LEMMA PrefixesAgree ==
    ASSUME NEW s, NEW t, NEW n \in Nat, NEW m \in Nat, n <= m, \A i \in 1 .. n : s[i] = t[i],
           NEW g, CountingPrefixes(s, n, g), NEW h, CountingPrefixes(t, m, h)
    PROVE  \A i \in 1 .. n : g[i] = h[i]
<1>1. /\ \A i \in 1 .. n : g[i] = IF i = 1 THEN s[i] ELSE g[i - 1] \o s[i]
      /\ \A i \in 1 .. m : h[i] = IF i = 1 THEN t[i] ELSE h[i - 1] \o t[i]
  BY DEF CountingPrefixes
<1> DEFINE D == {k \in Nat : k + 1 <= n => g[k + 1] = h[k + 1]}
<1>2. 0 \in D
  BY <1>1
<1>3. ASSUME NEW k \in Nat, k \in D PROVE k + 1 \in D
  <2>1. CASE (k + 1) + 1 <= n
    <3> DEFINE c == k + 1
               d == c + 1
    <3>1. c \in Nat /\ d \in 1 .. n /\ d \in 1 .. m /\ d # 1 /\ d - 1 = c /\ c <= n
      BY <2>1
    <3>2. g[c] = h[c] /\ s[d] = t[d]
      BY <1>3, <3>1
    <3>3. g[d] = g[c] \o s[d] /\ h[d] = h[c] \o t[d]
      <4>. HIDE DEF c, d
      <4>. QED
        BY <1>1, <3>1
    <3>4. g[d] = h[d]
      BY <3>2, <3>3
    <3>5. c \in D
      <4>. HIDE DEF c
      <4>. QED
        BY <3>1, <3>4
    <3>. QED
      BY <3>5
  <2>. QED
    BY <2>1
<1>. HIDE DEF D
<1>4. Nat \subseteq D
  BY <1>2, <1>3, NatSetInduction
<1>5. \A i \in 1 .. n : i - 1 \in D /\ (i - 1) + 1 = i /\ i <= n
  BY <1>4
<1>. QED
  BY <1>5 DEF D

(* Flattening one sequence more puts it at the end. *)
LEMMA FlattenMore ==
    ASSUME NEW S, NEW seqs \in Seq(Seq(S)), NEW t \in Seq(S)
    PROVE  FlattenSeq(Append(seqs, t)) = FlattenSeq(seqs) \o t
<1> DEFINE n == Len(seqs)
           more == Append(seqs, t)
<1>1. /\ n \in Nat /\ more \in Seq(Seq(S)) /\ Len(more) = n + 1 /\ more[n + 1] = t
      /\ \A k \in 1 .. n : more[k] = seqs[k]
  BY AppendProperties, LenProperties
<1>. HIDE DEF more
<1> DEFINE h == CHOOSE h : CountingPrefixes(more, n + 1, h)
<1>2. CountingPrefixes(more, n + 1, h)
  BY <1>1, PrefixesExist
<1>3. FlattenSeq(more) = h[n + 1]
  BY <1>1 DEF FlattenSeq, CountingPrefixes
<1>. HIDE DEF h
<1>4. \A i \in 1 .. n + 1 : h[i] = IF i = 1 THEN more[i] ELSE h[i - 1] \o more[i]
  BY <1>2 DEF CountingPrefixes
<1>5. CASE n = 0
  <2>1. FlattenSeq(seqs) = << >>
    BY <1>5, EmptySeq, FlattenNone
  <2>2. h[n + 1] = t
    BY <1>1, <1>4, <1>5
  <2>3. << >> \o t = t
    OBVIOUS
  <2>. QED
    BY <1>3, <2>1, <2>2, <2>3 DEF more
<1>6. CASE n # 0
  <2> DEFINE g == CHOOSE g : CountingPrefixes(seqs, n, g)
  <2>1. CountingPrefixes(seqs, n, g)
    BY <1>1, PrefixesExist
  <2>2. FlattenSeq(seqs) = g[n]
    BY <1>6 DEF FlattenSeq, CountingPrefixes
  <2>. HIDE DEF g
  <2>3. \A i \in 1 .. n : g[i] = h[i]
    <3> DEFINE m == n + 1
    <3>1. n \in Nat /\ m \in Nat /\ n <= m /\ \A i \in 1 .. n : seqs[i] = more[i]
      BY <1>1
    <3>2. CountingPrefixes(more, m, h)
      BY <1>2
    <3>. HIDE DEF n, m
    <3>. QED
      BY <2>1, <3>1, <3>2, PrefixesAgree
  <2>4. n \in 1 .. n /\ n + 1 \in 1 .. n + 1 /\ n + 1 # 1 /\ (n + 1) - 1 = n
    BY <1>1, <1>6
  <2>5. h[n + 1] = h[n] \o t
    <3>. HIDE DEF n
    <3>. QED
      BY <1>1, <1>4, <2>4
  <2>. QED
    BY <1>3, <2>2, <2>3, <2>4, <2>5 DEF more
<1>. QED
  BY <1>5, <1>6

-----------------------------------------------------------------------------
(* What a ledger has. *)
LEMMA ChosenNone == ASSUME NEW C PROVE Chosen(<< >>, C) = << >>
<1>1. [k \in DOMAIN << >> |-> IF << >>[k] \in C THEN <<<< >>[k]>> ELSE << >>] = << >>
  OBVIOUS
<1>. QED
  BY <1>1, FlattenNone DEF Chosen

(* What is chosen of a sequence is of its members. *)
LEMMA ChosenType == ASSUME NEW S, NEW l \in Seq(S), NEW C PROVE Chosen(l, C) \in Seq(S)
<1> DEFINE n == Len(l)
           seqs == [k \in DOMAIN l |-> IF l[k] \in C THEN <<l[k]>> ELSE << >>]
<1>1. n \in Nat /\ DOMAIN l = 1 .. n /\ \A k \in 1 .. n : l[k] \in S
  BY ElementOfSeq, LenProperties
<1>2. seqs \in [1 .. n -> Seq(S)]
  BY <1>1
<1>. HIDE DEF seqs, n
<1>3. seqs \in Seq(Seq(S))
  BY <1>1, <1>2
<1>. QED
  BY <1>3, FlattenProperties DEF Chosen, seqs

(* One more measurement is chosen last, or not at all. *)
LEMMA ChosenMore ==
    ASSUME NEW S, NEW l \in Seq(S), NEW x \in S, NEW C
    PROVE  /\ Chosen(l, C) \in Seq(S)
           /\ Chosen(Append(l, x), C) = IF x \in C THEN Append(Chosen(l, C), x) ELSE Chosen(l, C)
<1> DEFINE n == Len(l)
           more == Append(l, x)
           pick(s) == [k \in DOMAIN s |-> IF s[k] \in C THEN <<s[k]>> ELSE << >>]
           t == IF x \in C THEN <<x>> ELSE << >>
<1>1. /\ n \in Nat /\ DOMAIN l = 1 .. n /\ \A k \in 1 .. n : l[k] \in S
  BY ElementOfSeq, LenProperties
<1>2. /\ more \in Seq(S) /\ DOMAIN more = 1 .. n + 1 /\ more[n + 1] = x
      /\ \A k \in 1 .. n : more[k] = l[k]
  <2>1. more \in Seq(S) /\ Len(more) = n + 1 /\ more[n + 1] = x /\ \A k \in 1 .. n : more[k] = l[k]
    BY AppendProperties
  <2>. HIDE DEF more
  <2>. QED
    BY <2>1, LenProperties
<1>3. t \in Seq(S)
  OBVIOUS
<1>. HIDE DEF n, more
<1>4. pick(l) \in Seq(Seq(S)) /\ Len(pick(l)) = n
  <2>1. pick(l) \in [1 .. n -> Seq(S)]
    BY <1>1
  <2>. QED
    BY <1>1, <2>1
<1>5. pick(more) = Append(pick(l), t)
  <2> DEFINE p == pick(l)
             a == Append(p, t)
  <2>1. a \in Seq(Seq(S)) /\ Len(a) = n + 1 /\ a[n + 1] = t /\ \A k \in 1 .. n : a[k] = p[k]
    <3>. HIDE DEF p, t
    <3>. QED
      BY <1>3, <1>4, AppendProperties DEF p
  <2>2. DOMAIN a = 1 .. n + 1 /\ a = [k \in 1 .. n + 1 |-> a[k]]
    <3>. HIDE DEF a
    <3>. QED
      BY <2>1, LenProperties
  <2>3. \A k \in 1 .. n : p[k] = IF more[k] \in C THEN <<more[k]>> ELSE << >>
    BY <1>1, <1>2
  <2>4. t = IF more[n + 1] \in C THEN <<more[n + 1]>> ELSE << >>
    BY <1>2
  <2>. HIDE DEF a, p, t
  <2>5. \A k \in 1 .. n + 1 : a[k] = IF more[k] \in C THEN <<more[k]>> ELSE << >>
    <3>1. \A k \in 1 .. n + 1 : k \in 1 .. n \/ k = n + 1
      BY <1>1
    <3>. QED
      BY <2>1, <2>3, <2>4, <3>1
  <2>6. pick(more) = a
    BY <1>2, <2>2, <2>5
  <2>. QED
    BY <2>6 DEF a, p
<1>6. Chosen(l, C) = FlattenSeq(pick(l)) /\ Chosen(more, C) = FlattenSeq(pick(more))
  BY DEF Chosen
<1>. HIDE DEF pick, t
<1>7. Chosen(l, C) \in Seq(S) /\ Chosen(more, C) = Chosen(l, C) \o t
  BY <1>3, <1>4, <1>5, <1>6, FlattenProperties, FlattenMore
<1> DEFINE c == Chosen(l, C)
<1>8. c \in Seq(S)
  BY <1>7
<1>. HIDE DEF c
<1>9. c \o t = IF x \in C THEN Append(c, x) ELSE c
  <2>1. CASE x \in C
    <3>1. t = <<x>>
      BY <2>1 DEF t
    <3>2. c \o <<x>> = Append(c, x)
      BY <1>8
    <3>. QED
      BY <2>1, <3>1, <3>2
  <2>2. CASE x \notin C
    <3>1. t = << >>
      BY <2>2 DEF t
    <3>2. c \o << >> = c
      BY <1>8
    <3>. QED
      BY <2>2, <3>1, <3>2
  <2>. QED
    BY <2>1, <2>2
<1>. QED
  BY <1>7, <1>9 DEF c, more

-----------------------------------------------------------------------------
(* A raw health has what a ledger says, on top of what was carried over. *)
MatchesMeasure(r, l, from, m) ==
    /\ r.metrics[m].values = ValuesOf(Chosen(l, Of("Metric", m)))
    /\ r.metrics[m].aggregator = r.component.metrics[m]
    /\ r.metrics[m].values # << >> => m \in MetricIDs(r.component)
    /\ Chosen(l, Of("CounterChange", m)) # << >> => m \in r.counted
    /\ IF m \in r.component.totalCounterIDs
       THEN r.totalCounters[m] = TotalsAfter(l, from)[m]
       ELSE r.counters[m] = Wrap32(Change(l, m))

Matches(r, l, from) ==
    /\ r.status = StatusAfter(l, from)
    /\ r.heartBeat = \E k \in DOMAIN l : l[k].measureType = "Heartbeat"
    /\ r.messages = MessagesOf(Chosen(l, Messages))
    /\ \A m \in MeasureIds : MatchesMeasure(r, l, from, m)

Carries == [status : Statuses, totals : [MeasureIds -> Int]]

LedgerInv ==
    /\ DOMAIN ledger = Registered /\ DOMAIN carried = Registered
    /\ \A i \in Registered :
         /\ ledger[i] \in Seq(Measurements) /\ carried[i] \in Carries
         /\ Matches(rawHealth[i], ledger[i], carried[i])

(* The values and the messages of measurements. *)
LEMMA ValuesOfType == ASSUME NEW e \in Seq(Measurements) PROVE ValuesOf(e) \in Seq(Int)
<1>1. \A ms \in Measurements : ms.value \in Int
  BY HealthManagerAssumption DEF Measurement
<1>2. Len(e) \in Nat /\ DOMAIN e = 1 .. Len(e) /\ \A k \in 1 .. Len(e) : e[k] \in Measurements
  BY ElementOfSeq, LenProperties
<1>3. ValuesOf(e) \in [1 .. Len(e) -> Int]
  BY <1>1, <1>2 DEF ValuesOf
<1>. QED
  BY <1>2, <1>3

(* The values of one more measurement. *)
LEMMA ValuesOfMore ==
    ASSUME NEW e \in Seq(Measurements), NEW x \in Measurements
    PROVE  ValuesOf(e) \in Seq(Int) /\ ValuesOf(Append(e, x)) = Append(ValuesOf(e), x.value)
<1> DEFINE n == Len(e)
           a == Append(e, x)
           v == ValuesOf(e)
           b == Append(v, x.value)
<1>1. \A ms \in Measurements : ms.value \in Int
  BY HealthManagerAssumption DEF Measurement
<1>2. n \in Nat /\ DOMAIN e = 1 .. n /\ \A k \in 1 .. n : e[k] \in Measurements
  BY ElementOfSeq, LenProperties
<1>3. a \in Seq(Measurements) /\ Len(a) = n + 1 /\ a[n + 1] = x /\ \A k \in 1 .. n : a[k] = e[k]
  BY AppendProperties
<1>4. v \in [1 .. n -> Int] /\ \A k \in 1 .. n : v[k] = e[k].value
  BY <1>1, <1>2 DEF ValuesOf
<1>. HIDE DEF v, a, n
<1>5. v \in Seq(Int) /\ Len(v) = n
  BY <1>2, <1>4
<1>6. b \in Seq(Int) /\ Len(b) = n + 1 /\ b[n + 1] = x.value /\ \A k \in 1 .. n : b[k] = v[k]
  BY <1>1, <1>5, AppendProperties
<1>. HIDE DEF b
<1>7. DOMAIN a = 1 .. n + 1 /\ DOMAIN b = 1 .. n + 1 /\ b = [k \in 1 .. n + 1 |-> b[k]]
  BY <1>3, <1>6, LenProperties
<1>8. \A k \in 1 .. n + 1 : k \in 1 .. n \/ k = n + 1
  BY <1>2
<1>9. \A k \in 1 .. n + 1 : b[k] = a[k].value
  BY <1>3, <1>4, <1>6, <1>8
<1>10. ValuesOf(a) = b
  BY <1>7, <1>9 DEF ValuesOf
<1>. QED
  BY <1>5, <1>10 DEF a, b, v

(* The messages of one more measurement. *)
LEMMA MessagesOfMore ==
    ASSUME NEW e \in Seq(Measurements), NEW x \in Measurements
    PROVE  MessagesOf(Append(e, x)) = Append(MessagesOf(e), x.message)
<1> DEFINE n == Len(e)
           a == Append(e, x)
           v == MessagesOf(e)
           b == Append(v, x.message)
<1>1. \A ms \in Measurements : ms.message \in Message
  BY HealthManagerAssumption DEF Measurement
<1>2. n \in Nat /\ DOMAIN e = 1 .. n /\ \A k \in 1 .. n : e[k] \in Measurements
  BY ElementOfSeq, LenProperties
<1>3. a \in Seq(Measurements) /\ Len(a) = n + 1 /\ a[n + 1] = x /\ \A k \in 1 .. n : a[k] = e[k]
  BY AppendProperties
<1>4. v \in [1 .. n -> Message] /\ \A k \in 1 .. n : v[k] = e[k].message
  BY <1>1, <1>2 DEF MessagesOf
<1>. HIDE DEF v, a, n
<1>5. v \in Seq(Message) /\ Len(v) = n
  BY <1>2, <1>4
<1>6. b \in Seq(Message) /\ Len(b) = n + 1 /\ b[n + 1] = x.message /\ \A k \in 1 .. n : b[k] = v[k]
  BY <1>1, <1>5, AppendProperties
<1>. HIDE DEF b
<1>7. DOMAIN a = 1 .. n + 1 /\ DOMAIN b = 1 .. n + 1 /\ b = [k \in 1 .. n + 1 |-> b[k]]
  BY <1>3, <1>6, LenProperties
<1>8. \A k \in 1 .. n + 1 : k \in 1 .. n \/ k = n + 1
  BY <1>2
<1>9. \A k \in 1 .. n + 1 : b[k] = a[k].message
  BY <1>3, <1>4, <1>6, <1>8
<1>10. MessagesOf(a) = b
  BY <1>7, <1>9 DEF MessagesOf
<1>. QED
  BY <1>10 DEF a, b, v

(* What an empty ledger says. *)
LEMMA NothingOf ==
    /\ ValuesOf(<< >>) = << >> /\ MessagesOf(<< >>) = << >>
    /\ \A m : Change(<< >>, m) = 0
<1>1. ValuesOf(<< >>) = << >> /\ MessagesOf(<< >>) = << >>
  BY DEF ValuesOf, MessagesOf
<1>. QED
  BY <1>1, ChosenNone, SumOfNone DEF Change

(* What a measurement more changes. *)
LEMMA ChangeMore ==
    ASSUME NEW l \in Seq(Measurements), NEW x \in Measurements, NEW m
    PROVE  /\ Change(l, m) \in Int
           /\ Change(Append(l, x), m) = IF x \in Of("CounterChange", m) THEN Change(l, m) + x.value
                                        ELSE Change(l, m)
<1> DEFINE C == Of("CounterChange", m)
           e == Chosen(l, C)
           f == Chosen(Append(l, x), C)
<1>1. e \in Seq(Measurements) /\ f = IF x \in C THEN Append(e, x) ELSE e
  <2>. HIDE DEF C
  <2>. QED
    BY ChosenMore
<1>2. Change(l, m) = SumOf(ValuesOf(e)) /\ Change(Append(l, x), m) = SumOf(ValuesOf(f))
  BY DEF Change
<1>. HIDE DEF e, f, C
<1>3. /\ ValuesOf(e) \in Seq(Int) /\ ValuesOf(Append(e, x)) = Append(ValuesOf(e), x.value)
      /\ x.value \in Int
  BY <1>1, ValuesOfMore, HealthManagerAssumption DEF Measurement
<1>4. /\ SumOf(ValuesOf(e)) \in Int
      /\ SumOf(Append(ValuesOf(e), x.value)) = SumOf(ValuesOf(e)) + x.value
  BY <1>3, SumType, SumOfMore
<1>. QED
  BY <1>1, <1>2, <1>3, <1>4 DEF C

(* The change of a counter is an integer. *)
LEMMA ChangeType == ASSUME NEW l \in Seq(Measurements), NEW m PROVE Change(l, m) \in Int
<1> DEFINE C == Of("CounterChange", m)
           e == Chosen(l, C)
<1>1. e \in Seq(Measurements)
  <2>. HIDE DEF C
  <2>. QED
    BY ChosenType
<1>2. Change(l, m) = SumOf(ValuesOf(e))
  BY DEF Change
<1>. HIDE DEF e
<1>3. ValuesOf(e) \in Seq(Int)
  BY <1>1, ValuesOfType
<1>. QED
  BY <1>2, <1>3, SumType

(* The status after one more measurement. *)
LEMMA StatusMore ==
    ASSUME NEW l \in Seq(Measurements), NEW x \in Measurements, NEW from
    PROVE  StatusAfter(Append(l, x), from) =
              IF x \notin SetsStatus THEN StatusAfter(l, from)
              ELSE IF x.measureType = "Message" THEN x.message.status ELSE x.status
<1> DEFINE e == Chosen(l, SetsStatus)
           f == Chosen(Append(l, x), SetsStatus)
<1>1. e \in Seq(Measurements) /\ f = IF x \in SetsStatus THEN Append(e, x) ELSE e
  BY ChosenMore
<1>2. Append(e, x) # << >> /\ Last(Append(e, x)) = x
  <2>1. /\ Append(e, x) \in Seq(Measurements) /\ Len(Append(e, x)) = Len(e) + 1
        /\ Append(e, x)[Len(e) + 1] = x /\ Len(e) \in Nat
    BY <1>1, AppendProperties, LenProperties
  <2>2. Append(e, x) # << >>
    BY <2>1, EmptySeq
  <2>. QED
    BY <2>1, <2>2 DEF Last
<1>. HIDE DEF e, f
<1>. QED
  BY <1>1, <1>2 DEF StatusAfter, e, f

(* Heartbeats after one more measurement. *)
LEMMA BeatsMore ==
    ASSUME NEW l \in Seq(Measurements), NEW x \in Measurements
    PROVE  (\E k \in DOMAIN Append(l, x) : Append(l, x)[k].measureType = "Heartbeat") <=>
              \/ \E k \in DOMAIN l : l[k].measureType = "Heartbeat"
              \/ x.measureType = "Heartbeat"
<1> DEFINE n == Len(l)
           a == Append(l, x)
<1>1. n \in Nat /\ DOMAIN l = 1 .. n
  BY LenProperties
<1>2. a \in Seq(Measurements) /\ Len(a) = n + 1 /\ a[n + 1] = x /\ \A k \in 1 .. n : a[k] = l[k]
  BY AppendProperties
<1>. HIDE DEF a, n
<1>3. DOMAIN a = 1 .. n + 1
  BY <1>2, LenProperties
<1>4. n + 1 \in 1 .. n + 1 /\ \A k \in 1 .. n + 1 : k \in 1 .. n \/ k = n + 1
  BY <1>1
<1>5. \A k \in 1 .. n : k \in 1 .. n + 1
  BY <1>1
<1>. QED
  BY <1>1, <1>2, <1>3, <1>4, <1>5 DEF a

(* A measurement that is not of a measure leaves what the ledger says of it. *)
LEMMA MeasureUntouched ==
    ASSUME NEW r, NEW u, NEW l \in Seq(Measurements), NEW x \in Measurements, NEW from,
           NEW m \in MeasureIds, MatchesMeasure(r, l, from, m),
           x \notin Of("Metric", m), x \notin Of("CounterChange", m),
           u.metrics[m] = r.metrics[m], u.component.metrics[m] = r.component.metrics[m],
           r.counted \subseteq u.counted, u.component.totalCounterIDs = r.component.totalCounterIDs,
           u.counters[m] = r.counters[m], u.totalCounters[m] = r.totalCounters[m]
    PROVE  MatchesMeasure(u, Append(l, x), from, m)
<1>1. /\ Chosen(Append(l, x), Of("Metric", m)) = Chosen(l, Of("Metric", m))
      /\ Chosen(Append(l, x), Of("CounterChange", m)) = Chosen(l, Of("CounterChange", m))
  BY ChosenMore
<1>2. Change(Append(l, x), m) = Change(l, m)
  BY <1>1 DEF Change
<1>3. TotalsAfter(Append(l, x), from)[m] = TotalsAfter(l, from)[m]
  BY <1>2 DEF TotalsAfter
<1>4. m \in MetricIDs(r.component) <=> m \in MetricIDs(u.component)
  BY DEF MetricIDs
<1>. QED
  BY <1>1, <1>2, <1>3, <1>4 DEF MatchesMeasure

(* What is not a message and does not set the status leaves both. *)
LEMMA StatusUntouched ==
    ASSUME NEW l \in Seq(Measurements), NEW x \in Measurements, NEW from,
           x.measureType \in {"Heartbeat", "Metric", "CounterChange"}
    PROVE  /\ StatusAfter(Append(l, x), from) = StatusAfter(l, from)
           /\ MessagesOf(Chosen(Append(l, x), Messages)) = MessagesOf(Chosen(l, Messages))
<1>1. x \notin SetsStatus /\ x \notin Messages
  BY DEF SetsStatus, Messages
<1>. QED
  BY <1>1, StatusMore, ChosenMore

(* Collecting a metric that counts. *)
LEMMA MetricMatches ==
    ASSUME NEW r \in RawHealth, NEW l \in Seq(Measurements), NEW from, Matches(r, l, from),
           NEW x \in Measurements, x.measureType = "Metric", NEW reg,
           x.measureID \in MetricIDs(UpdatedMetric(r, x, reg).component)
    PROVE  Matches(UpdatedMetric(r, x, reg), Append(l, x), from)
<1> DEFINE u == UpdatedMetric(r, x, reg)
           m == x.measureID
<1>1. x \in Measurement /\ m \in MeasureIds /\ x.value \in Int
  BY HealthManagerAssumption DEF Measurement
<1>2. /\ r.metrics \in [MeasureIds -> Accumulator] /\ r.component \in Component
      /\ r.component.metrics \in [MeasureIds -> Aggregators \cup {NoMetric}]
  BY DEF RawHealth, Component
<1>3. MatchesMeasure(r, l, from, m)
  BY <1>1 DEF Matches
<1>4. /\ u.metrics[m].values = Append(r.metrics[m].values, x.value)
      /\ u.metrics[m].aggregator = u.component.metrics[m] /\ u.component.metrics[m] # NoMetric
      /\ \A k \in MeasureIds \ {m} : /\ u.metrics[k] = r.metrics[k]
                                     /\ u.component.metrics[k] = r.component.metrics[k]
      /\ u.status = r.status /\ u.heartBeat = r.heartBeat /\ u.messages = r.messages
      /\ u.counted = r.counted /\ u.counters = r.counters /\ u.totalCounters = r.totalCounters
      /\ u.component.totalCounterIDs = r.component.totalCounterIDs
  <2>1. CASE m \in MetricIDs(r.component)
    <3>1. u = [r EXCEPT !.metrics[m].values = Append(@, x.value)]
      BY <2>1 DEF UpdatedMetric
    <3>2. u.component = r.component /\ r.component.metrics[m] # NoMetric
      BY <2>1, <3>1 DEF RawHealth, MetricIDs
    <3>3. r.metrics[m].aggregator = r.component.metrics[m]
      BY <1>3 DEF MatchesMeasure
    <3>. QED
      BY <1>1, <1>2, <3>1, <3>2, <3>3 DEF RawHealth, Accumulator
  <2>2. CASE m \notin MetricIDs(r.component)
    <3>1. MayRegister(r.component, m, reg)
      BY <2>2 DEF UpdatedMetric
    <3>2. u = [r EXCEPT !.component.metrics[m] = DefaultAggregator,
                        !.metrics[m] = [values |-> <<x.value>>, aggregator |-> DefaultAggregator]]
      BY <2>2, <3>1 DEF UpdatedMetric
    <3>3. r.metrics[m].values = << >>
      BY <1>3, <2>2 DEF MatchesMeasure
    <3>4. Append(<< >>, x.value) = <<x.value>>
      OBVIOUS
    <3>. QED
      BY <1>1, <1>2, <3>2, <3>3, <3>4 DEF RawHealth, Component, DefaultAggregator, NoMetric
  <2>. QED
    BY <2>1, <2>2
<1>. HIDE DEF u
<1> DEFINE a == Append(l, x)
<1>5. /\ x \in Of("Metric", m) /\ \A k : x \notin Of("CounterChange", k)
      /\ \A k : k # m => x \notin Of("Metric", k)
  BY DEF Of
<1>6. MatchesMeasure(u, a, from, m)
  <2>1. /\ Chosen(l, Of("Metric", m)) \in Seq(Measurements)
        /\ Chosen(a, Of("Metric", m)) = Append(Chosen(l, Of("Metric", m)), x)
        /\ Chosen(a, Of("CounterChange", m)) = Chosen(l, Of("CounterChange", m))
    <3> DEFINE M == Of("Metric", m)
               C == Of("CounterChange", m)
    <3>1. x \in M /\ x \notin C
      BY <1>5
    <3>. HIDE DEF M, C, a
    <3>2. Chosen(l, M) \in Seq(Measurements) /\ Chosen(a, M) = Append(Chosen(l, M), x)
      BY <3>1, ChosenMore DEF a
    <3>3. Chosen(a, C) = Chosen(l, C)
      BY <3>1, ChosenMore DEF a
    <3>. QED
      BY <3>2, <3>3 DEF M, C
  <2>2. ValuesOf(Chosen(a, Of("Metric", m))) = Append(r.metrics[m].values, x.value)
    BY <1>3, <2>1, ValuesOfMore DEF MatchesMeasure
  <2>3. Change(a, m) = Change(l, m) /\ TotalsAfter(a, from)[m] = TotalsAfter(l, from)[m]
    BY <1>1, <2>1 DEF Change, TotalsAfter
  <2>4. m \in MetricIDs(u.component)
    BY <1>1, <1>4 DEF MetricIDs
  <2>. QED
    BY <1>3, <1>4, <2>1, <2>2, <2>3, <2>4 DEF MatchesMeasure
<1>7. ASSUME NEW k \in MeasureIds, k # m PROVE MatchesMeasure(u, a, from, k)
  <2>1. MatchesMeasure(r, l, from, k)
    BY DEF Matches
  <2>. QED
    BY <1>4, <1>5, <1>7, <2>1, MeasureUntouched
<1>8. (\E k \in DOMAIN a : a[k].measureType = "Heartbeat") <=>
         \E k \in DOMAIN l : l[k].measureType = "Heartbeat"
  BY BeatsMore
<1>9. StatusAfter(a, from) = StatusAfter(l, from) /\ MessagesOf(Chosen(a, Messages)) = MessagesOf(Chosen(l, Messages))
  BY StatusUntouched
<1>. HIDE DEF a
<1>. QED
  BY <1>4, <1>6, <1>7, <1>8, <1>9 DEF Matches, a, u

(* Collecting a change of a counter that counts. *)
LEMMA CounterMatches ==
    ASSUME NEW r \in RawHealth, NEW l \in Seq(Measurements), NEW from \in Carries,
           Matches(r, l, from),
           NEW x \in Measurements, x.measureType = "CounterChange", NEW reg,
           LET c == UpdatedCounter(r, x, reg).component
           IN  x.measureID \in c.counterIDs \cup c.totalCounterIDs
    PROVE  Matches(UpdatedCounter(r, x, reg), Append(l, x), from)
<1> DEFINE u == UpdatedCounter(r, x, reg)
           m == x.measureID
           v == x.value
<1>1. x \in Measurement /\ m \in MeasureIds /\ v \in Int
  BY HealthManagerAssumption DEF Measurement
<1>2. /\ r.counters \in [MeasureIds -> Int] /\ r.totalCounters \in [MeasureIds -> Int]
      /\ r.component \in Component
  BY DEF RawHealth
<1>3. MatchesMeasure(r, l, from, m)
  BY <1>1 DEF Matches
<1>4. /\ IF m \in r.component.totalCounterIDs
         THEN u.totalCounters[m] = Wrap32(r.totalCounters[m] + v)
         ELSE u.counters[m] = Wrap32(r.counters[m] + v)
      /\ m \in u.counted /\ r.counted \subseteq u.counted
      /\ \A k \in MeasureIds \ {m} : /\ u.counters[k] = r.counters[k]
                                     /\ u.totalCounters[k] = r.totalCounters[k]
      /\ u.status = r.status /\ u.heartBeat = r.heartBeat /\ u.messages = r.messages
      /\ u.metrics = r.metrics /\ u.component.metrics = r.component.metrics
      /\ u.component.totalCounterIDs = r.component.totalCounterIDs
  <2>1. CASE m \in r.component.totalCounterIDs
    <3>1. u = [r EXCEPT !.totalCounters[m] = Wrap32(@ + v), !.counted = @ \cup {m}]
      BY <2>1 DEF UpdatedCounter
    <3>. HIDE DEF u, m, v
    <3>. QED
      BY <1>1, <1>2, <2>1, <3>1 DEF RawHealth
  <2>2. CASE m \notin r.component.totalCounterIDs
    <3>1. m \in r.component.counterIDs \/ MayRegister(r.component, m, reg)
      BY <2>2 DEF UpdatedCounter
    <3>2. u = [r EXCEPT !.component.counterIDs = @ \cup {m},
                        !.counters[m] = Wrap32(@ + v), !.counted = @ \cup {m}]
      BY <2>2, <3>1 DEF UpdatedCounter
    <3>. HIDE DEF u, m, v
    <3>. QED
      BY <1>1, <1>2, <2>2, <3>2 DEF RawHealth, Component
  <2>. QED
    BY <2>1, <2>2
<1>. HIDE DEF u, v
<1> DEFINE a == Append(l, x)
<1>5. /\ x \in Of("CounterChange", m) /\ \A k : x \notin Of("Metric", k)
      /\ \A k : k # m => x \notin Of("CounterChange", k)
  BY DEF Of
<1>6. MatchesMeasure(u, a, from, m)
  <2>1. Chosen(a, Of("Metric", m)) = Chosen(l, Of("Metric", m))
    BY <1>5, ChosenMore
  <2>2. Change(l, m) \in Int /\ Change(a, m) = Change(l, m) + v
    BY <1>5, ChangeMore DEF v
  <2>3. IF m \in r.component.totalCounterIDs THEN u.totalCounters[m] = TotalsAfter(a, from)[m]
        ELSE u.counters[m] = Wrap32(Change(a, m))
    <3>1. CASE m \in r.component.totalCounterIDs
      <4> DEFINE n == from.totals[m] + Change(l, m)
      <4>1. from.totals[m] \in Int
        BY <1>1 DEF Carries
      <4>2. n \in Int /\ from.totals[m] + Change(a, m) = n + v
        BY <1>1, <2>2, <4>1
      <4>3. r.totalCounters[m] = Wrap32(n)
        BY <1>1, <1>3, <3>1 DEF MatchesMeasure, TotalsAfter
      <4>4. TotalsAfter(a, from)[m] = Wrap32(n + v)
        BY <1>1, <4>2 DEF TotalsAfter
      <4>. HIDE DEF n
      <4>. QED
        BY <1>1, <1>4, <3>1, <4>2, <4>3, <4>4, WrapAgain
    <3>2. CASE m \notin r.component.totalCounterIDs
      <4>1. r.counters[m] = Wrap32(Change(l, m))
        BY <1>3, <3>2 DEF MatchesMeasure
      <4>. QED
        BY <1>1, <1>4, <2>2, <3>2, <4>1, WrapAgain
    <3>. QED
      BY <3>1, <3>2
  <2>4. u.metrics[m].values # << >> => m \in MetricIDs(u.component)
    BY <1>3, <1>4 DEF MatchesMeasure, MetricIDs
  <2>. QED
    BY <1>3, <1>4, <2>1, <2>3, <2>4 DEF MatchesMeasure
<1>7. ASSUME NEW k \in MeasureIds, k # m PROVE MatchesMeasure(u, a, from, k)
  <2>1. MatchesMeasure(r, l, from, k)
    BY DEF Matches
  <2>. QED
    BY <1>4, <1>5, <1>7, <2>1, MeasureUntouched
<1>8. (\E k \in DOMAIN a : a[k].measureType = "Heartbeat") <=>
         \E k \in DOMAIN l : l[k].measureType = "Heartbeat"
  BY BeatsMore
<1>9. StatusAfter(a, from) = StatusAfter(l, from) /\ MessagesOf(Chosen(a, Messages)) = MessagesOf(Chosen(l, Messages))
  BY StatusUntouched
<1>. HIDE DEF a
<1>. QED
  BY <1>4, <1>6, <1>7, <1>8, <1>9 DEF Matches, a, u

(* Collecting anything else. *)
LEMMA OthersMatch ==
    ASSUME NEW r \in RawHealth, NEW l \in Seq(Measurements), NEW from, Matches(r, l, from),
           NEW x \in Measurements, x.measureType \in {"Heartbeat", "Message", "HealthStatus"}, NEW reg
    PROVE  Matches(Updated(r, x, reg), Append(l, x), from)
<1> DEFINE u == Updated(r, x, reg)
           a == Append(l, x)
<1>1. /\ u.status = IF x \notin SetsStatus THEN r.status
                    ELSE IF x.measureType = "Message" THEN x.message.status ELSE x.status
      /\ u.heartBeat = (r.heartBeat \/ x.measureType = "Heartbeat")
      /\ u.messages = IF x.measureType = "Message" THEN Append(r.messages, x.message) ELSE r.messages
      /\ u.metrics = r.metrics /\ u.component = r.component /\ u.counted = r.counted
      /\ u.counters = r.counters /\ u.totalCounters = r.totalCounters
  <2>1. CASE x.measureType = "Heartbeat"
    BY <2>1 DEF Updated, RawHealth, SetsStatus
  <2>2. CASE x.measureType = "Message"
    BY <2>2 DEF Updated, UpdatedMessages, RawHealth, SetsStatus
  <2>3. CASE x.measureType = "HealthStatus"
    BY <2>3 DEF Updated, RawHealth, SetsStatus
  <2>. QED
    BY <2>1, <2>2, <2>3
<1>. HIDE DEF u
<1>2. \A k : x \notin Of("Metric", k) /\ x \notin Of("CounterChange", k)
  BY DEF Of
<1>3. ASSUME NEW k \in MeasureIds PROVE MatchesMeasure(u, a, from, k)
  <2>1. MatchesMeasure(r, l, from, k)
    BY DEF Matches
  <2>. QED
    BY <1>1, <1>2, <2>1, MeasureUntouched
<1>4. u.status = StatusAfter(a, from)
  BY <1>1, StatusMore DEF Matches
<1>5. u.heartBeat = \E k \in DOMAIN a : a[k].measureType = "Heartbeat"
  <2>1. r.heartBeat = \E k \in DOMAIN l : l[k].measureType = "Heartbeat"
    BY DEF Matches
  <2>2. (\E k \in DOMAIN a : a[k].measureType = "Heartbeat") =
           ((\E k \in DOMAIN l : l[k].measureType = "Heartbeat") \/ x.measureType = "Heartbeat")
    BY BeatsMore
  <2>. QED
    BY <1>1, <2>1, <2>2
<1>6. u.messages = MessagesOf(Chosen(a, Messages))
  <2> DEFINE e == Chosen(l, Messages)
  <2>1. e \in Seq(Measurements) /\ Chosen(a, Messages) = IF x \in Messages THEN Append(e, x) ELSE e
    BY ChosenMore
  <2>2. x \in Messages <=> x.measureType = "Message"
    BY DEF Messages
  <2>3. r.messages = MessagesOf(e)
    BY DEF Matches
  <2>. HIDE DEF e, a
  <2>. QED
    BY <1>1, <2>1, <2>2, <2>3, MessagesOfMore
<1>. HIDE DEF a
<1>. QED
  BY <1>3, <1>4, <1>5, <1>6 DEF Matches, a, u

(* Collecting a measurement: what counts is an entry more, what does not changes nothing. *)
LEMMA UpdatedMatches ==
    ASSUME NEW r \in RawHealth, NEW l \in Seq(Measurements), NEW from \in Carries,
           Matches(r, l, from), NEW x \in Measurements, NEW reg
    PROVE  LET u == Updated(r, x, reg)
           IN  Matches(u, IF Accepted(x, u.component) THEN Append(l, x) ELSE l, from)
<1> DEFINE u == Updated(r, x, reg)
           m == x.measureID
<1>1. x.measureType \in MeasureTypes /\ m \in MeasureIds
  BY HealthManagerAssumption DEF Measurement
<1>2. CASE x.measureType = "Metric"
  <2>1. u = UpdatedMetric(r, x, reg)
    BY <1>2 DEF Updated
  <2>2. CASE m \in MetricIDs(u.component)
    <3>1. Accepted(x, u.component)
      BY <1>2, <2>2 DEF Accepted
    <3>. QED
      BY <1>2, <2>1, <2>2, <3>1, MetricMatches
  <2>3. CASE m \notin MetricIDs(u.component)
    <3>1. ~Accepted(x, u.component)
      BY <1>2, <2>3 DEF Accepted
    <3>2. u = r
      <4>1. CASE m \in MetricIDs(r.component)
        <5>1. u = [r EXCEPT !.metrics[m].values = Append(@, x.value)]
          BY <2>1, <4>1 DEF UpdatedMetric
        <5>2. u.component = r.component
          BY <5>1 DEF RawHealth
        <5>. QED
          BY <2>3, <4>1, <5>2
      <4>2. CASE m \notin MetricIDs(r.component) /\ MayRegister(r.component, m, reg)
        <5>1. u = [r EXCEPT !.component.metrics[m] = DefaultAggregator,
                            !.metrics[m] = [values |-> <<x.value>>, aggregator |-> DefaultAggregator]]
          BY <2>1, <4>2 DEF UpdatedMetric
        <5>2. u.component.metrics[m] # NoMetric
          BY <1>1, <5>1 DEF RawHealth, Component, DefaultAggregator, NoMetric
        <5>. QED
          BY <1>1, <2>3, <5>2 DEF MetricIDs
      <4>3. CASE m \notin MetricIDs(r.component) /\ ~MayRegister(r.component, m, reg)
        BY <2>1, <4>3 DEF UpdatedMetric
      <4>. QED
        BY <4>1, <4>2, <4>3
    <3>. QED
      BY <3>1, <3>2
  <2>. QED
    BY <2>2, <2>3
<1>3. CASE x.measureType = "CounterChange"
  <2>1. u = UpdatedCounter(r, x, reg)
    BY <1>3 DEF Updated
  <2>2. CASE m \in u.component.counterIDs \cup u.component.totalCounterIDs
    <3>1. Accepted(x, u.component)
      BY <1>3, <2>2 DEF Accepted
    <3>. QED
      BY <1>3, <2>1, <2>2, <3>1, CounterMatches
  <2>3. CASE m \notin u.component.counterIDs \cup u.component.totalCounterIDs
    <3>1. ~Accepted(x, u.component)
      BY <1>3, <2>3 DEF Accepted
    <3>2. u = r
      <4>1. CASE m \in r.component.totalCounterIDs
        <5>1. u = [r EXCEPT !.totalCounters[m] = Wrap32(@ + x.value), !.counted = @ \cup {m}]
          BY <2>1, <4>1 DEF UpdatedCounter
        <5>2. u.component = r.component
          BY <5>1 DEF RawHealth
        <5>. QED
          BY <2>3, <4>1, <5>2
      <4>2. CASE /\ m \notin r.component.totalCounterIDs
                 /\ m \in r.component.counterIDs \/ MayRegister(r.component, m, reg)
        <5>1. u = [r EXCEPT !.component.counterIDs = @ \cup {m},
                            !.counters[m] = Wrap32(@ + x.value), !.counted = @ \cup {m}]
          BY <2>1, <4>2 DEF UpdatedCounter
        <5>2. m \in u.component.counterIDs
          BY <1>1, <5>1 DEF RawHealth, Component
        <5>. QED
          BY <2>3, <5>2
      <4>3. CASE /\ m \notin r.component.totalCounterIDs
                 /\ ~(m \in r.component.counterIDs \/ MayRegister(r.component, m, reg))
        BY <2>1, <4>3 DEF UpdatedCounter
      <4>. QED
        BY <4>1, <4>2, <4>3
    <3>. QED
      BY <3>1, <3>2
  <2>. QED
    BY <2>2, <2>3
<1>4. CASE x.measureType \in {"Heartbeat", "Message", "HealthStatus"}
  <2>1. Accepted(x, u.component)
    BY <1>4 DEF Accepted
  <2>. QED
    BY <1>4, <2>1, OthersMatch
<1>. QED
  BY <1>1, <1>2, <1>3, <1>4 DEF MeasureTypes

(* A raw health that is new has what nothing says of it. *)
LEMMA NewMatches ==
    ASSUME NEW c \in Component
    PROVE  Matches(NewRawHealth(c), << >>, Fresh) /\ Fresh \in Carries
<1> DEFINE r == NewRawHealth(c)
<1>1. /\ r.status = "Healthy" /\ r.heartBeat = FALSE /\ r.messages = << >> /\ r.component = c
      /\ \A m \in MeasureIds : /\ r.metrics[m].values = << >>
                               /\ r.metrics[m].aggregator = c.metrics[m]
                               /\ r.counters[m] = 0 /\ r.totalCounters[m] = 0
  BY DEF NewRawHealth
<1>. HIDE DEF r
<1>2. Fresh.status = "Healthy" /\ Fresh \in Carries /\ \A m \in MeasureIds : Fresh.totals[m] = 0
  BY DEF Fresh, Carries, Statuses
<1>3. \A m \in MeasureIds : MatchesMeasure(r, << >>, Fresh, m)
  <2>1. SUFFICES ASSUME NEW m \in MeasureIds PROVE MatchesMeasure(r, << >>, Fresh, m)
    OBVIOUS
  <2>2. Change(<< >>, m) = 0 /\ ValuesOf(<< >>) = << >>
    BY NothingOf
  <2>3. TotalsAfter(<< >>, Fresh)[m] = 0 /\ Wrap32(Change(<< >>, m)) = 0
    <3>1. Fresh.totals[m] + Change(<< >>, m) = 0
      BY <1>2, <2>2
    <3>. QED
      BY <2>2, <3>1, WrapZero DEF TotalsAfter
  <2>. QED
    BY <1>1, <2>2, <2>3, ChosenNone DEF MatchesMeasure
<1>4. StatusAfter(<< >>, Fresh) = "Healthy"
  BY <1>2, ChosenNone DEF StatusAfter
<1>5. DOMAIN << >> = {}
  OBVIOUS
<1>. QED
  BY <1>1, <1>2, <1>3, <1>4, <1>5, ChosenNone, NothingOf DEF Matches, r

(* A raw health that is cleaned carries its status and its total counters over. *)
LEMMA CleanMatches ==
    ASSUME NEW r \in RawHealth, NEW l \in Seq(Measurements), NEW from \in Carries,
           Matches(r, l, from)
    PROVE  LET to == [status |-> StatusAfter(l, from), totals |-> TotalsAfter(l, from)]
           IN  Matches(CleanHealthValues(r), << >>, to) /\ to \in Carries
<1> DEFINE to == [status |-> StatusAfter(l, from), totals |-> TotalsAfter(l, from)]
           u == CleanHealthValues(r)
<1>1. /\ u.status = r.status /\ u.heartBeat = FALSE /\ u.messages = << >>
      /\ u.component = r.component /\ u.counted = r.counted /\ u.totalCounters = r.totalCounters
      /\ \A m \in MeasureIds : /\ u.metrics[m].values = << >> /\ u.counters[m] = 0
                               /\ u.metrics[m].aggregator = r.metrics[m].aggregator
  BY DEF CleanHealthValues, RawHealth
<1>. HIDE DEF u
<1>2. to.status = r.status /\ r.status \in Statuses /\ to.totals = TotalsAfter(l, from)
  BY DEF Matches, RawHealth
<1>3. ASSUME NEW m \in MeasureIds
      PROVE  /\ from.totals[m] + Change(l, m) \in Int
             /\ TotalsAfter(l, from)[m] = Wrap32(from.totals[m] + Change(l, m))
             /\ TotalsAfter(l, from)[m] \in Int
  <2>1. from.totals[m] \in Int /\ Change(l, m) \in Int
    <3>1. from.totals[m] \in Int
      BY DEF Carries
    <3>2. Change(l, m) = SumOf(ValuesOf(Chosen(l, Of("CounterChange", m))))
      BY DEF Change
    <3>. QED
      BY <3>1, ChangeType
  <2>. QED
    BY <2>1, WrapIsInt DEF TotalsAfter
<1>4. to \in Carries
  BY <1>2, <1>3 DEF Carries, TotalsAfter
<1>5. ASSUME NEW m \in MeasureIds PROVE MatchesMeasure(u, << >>, to, m)
  <2>1. Change(<< >>, m) = 0 /\ ValuesOf(<< >>) = << >> /\ Wrap32(Change(<< >>, m)) = 0
    BY NothingOf, WrapZero
  <2>2. MatchesMeasure(r, l, from, m)
    BY DEF Matches
  <2>3. m \in r.component.totalCounterIDs => u.totalCounters[m] = TotalsAfter(<< >>, to)[m]
    <3> DEFINE n == from.totals[m] + Change(l, m)
    <3>1. n \in Int /\ to.totals[m] = Wrap32(n)
      BY <1>2, <1>3
    <3>2. TotalsAfter(<< >>, to)[m] = Wrap32(Wrap32(n) + 0)
      BY <2>1, <3>1 DEF TotalsAfter
    <3>3. Wrap32(Wrap32(n) + 0) = Wrap32(n + 0) /\ n + 0 = n
      <4>. HIDE DEF n
      <4>. QED
        BY <3>1, WrapAgain
    <3>4. m \in r.component.totalCounterIDs => r.totalCounters[m] = Wrap32(n)
      BY <1>3, <2>2 DEF MatchesMeasure
    <3>. HIDE DEF n
    <3>. QED
      BY <1>1, <3>2, <3>3, <3>4
  <2>. QED
    BY <1>1, <2>1, <2>2, <2>3, ChosenNone DEF MatchesMeasure
<1>6. StatusAfter(<< >>, to) = r.status
  BY <1>2, ChosenNone DEF StatusAfter
<1>7. DOMAIN << >> = {}
  OBVIOUS
<1>. HIDE DEF to
<1>. QED
  BY <1>1, <1>4, <1>5, <1>6, <1>7, ChosenNone, NothingOf DEF Matches, to, u

-----------------------------------------------------------------------------
(* The ledgers. *)

(* What a step that collects nothing makes of each raw health. *)
LEMMA RawHealthMoves ==
    ASSUME IInv, Next, collected' # collected + 1
    PROVE  /\ visit \ visit' \subseteq Registered
           /\ \A i \in visit \ visit' : Calculate(i) /\ rawHealth'[i] = CleanHealthValues(rawHealth[i])
           /\ \A i \in Registered' \ (visit \ visit') :
                 \/ i \in Registered /\ rawHealth'[i] = rawHealth[i]
                 \/ owner = "add" /\ \E c \in Component : rawHealth'[i] = NewRawHealth(c)
<1>1. IsMap(rawHealth, Ids, RawHealth) /\ visit \subseteq Registered
  BY DEF IInv, TypeOK, CycleInv
<1>2. ASSUME NEW i \in visit, Calculate(i)
      PROVE  /\ visit \ visit' = {i} /\ rawHealth'[i] = CleanHealthValues(rawHealth[i])
             /\ Registered' = Registered /\ \A j \in Registered \ {i} : rawHealth'[j] = rawHealth[j]
  <2>1. rawHealth' = [rawHealth EXCEPT ![i] = CleanHealthValues(@)] /\ visit' = visit \ {i}
    BY <1>2 DEF Calculate
  <2>2. i \in DOMAIN rawHealth
    BY <1>1 DEF Registered
  <2>. QED
    BY <1>1, <2>1, <2>2 DEF Registered, IsMap
<1>3. ASSUME NEW c \in Component, Register(c), owner = "add"
      PROVE  \A i \in Registered' :
                 \/ i \in Registered /\ rawHealth'[i] = rawHealth[i]
                 \/ owner = "add" /\ \E d \in Component : rawHealth'[i] = NewRawHealth(d)
  <2>1. rawHealth' = Put(rawHealth, c.id, NewRawHealth(c))
    BY <1>3 DEF Register
  <2>2. /\ DOMAIN rawHealth' = Registered \cup {c.id} /\ rawHealth'[c.id] = NewRawHealth(c)
        /\ \A j \in Registered \ {c.id} : rawHealth'[j] = rawHealth[j]
    BY <2>1 DEF Put, Registered
  <2>. QED
    BY <1>3, <2>2 DEF Registered
<1>4. CASE AddNext
  <2>1. Head(todo) \in Component /\ Register(Head(todo)) /\ owner = "add" /\ visit' = visit
    BY <1>4 DEF AddNext, IInv, TypeOK, cycle
  <2>2. visit \ visit' = {}
    BY <2>1
  <2>. QED
    BY <1>3, <2>1, <2>2
<1>5. CASE AddMissingTarget
  <2>1. PICK t \in MissingTargets : Register(TargetComponent(t, targets[t]))
    BY <1>5 DEF AddMissingTarget
  <2>2. TargetComponent(t, targets[t]) \in Component
    BY TargetComponentType DEF MissingTargets, IInv, TypeOK, IsMap
  <2>3. owner = "add" /\ visit' = visit
    BY <1>5 DEF AddMissingTarget, cycle
  <2>4. visit \ visit' = {}
    BY <2>3
  <2>. QED
    BY <1>3, <2>1, <2>2, <2>3, <2>4
<1>6. ASSUME NEW ids \in DeleteArgs, DeleteComponents(ids)
      PROVE  /\ visit' = visit /\ Registered' \subseteq Registered
             /\ \A i \in Registered' : rawHealth'[i] = rawHealth[i]
  <2>1. \E S : rawHealth' = Restrict(rawHealth, S) /\ S \subseteq Registered
    BY <1>6 DEF DeleteComponents
  <2>. QED
    BY <1>6, <2>1 DEF DeleteComponents, Restrict, Registered, cycle
<1>7. ASSUME NEW ms \in Measurements, Collect(ms) PROVE FALSE
  BY <1>7 DEF Collect
<1>8. CASE BeginCycle
  BY <1>8 DEF BeginCycle, Lock, IInv, CycleInv, registry, Registered
<1>9. CASE UNCHANGED <<rawHealth, visit>>
  BY <1>9 DEF Registered
<1>10. \/ \E components \in AddArgs : BeginAdd(components)
       \/ \E tp \in PriorityArgs : SetPriority(tp[1], tp[2])
       \/ \E newConfig \in Configs : UpdateConfig(newConfig)
       \/ LaunchGoroutines \/ StoreStarted \/ SendComponentsInfo \/ EndAdd
       \/ \E ms \in Measurements : CollectPanics(ms)
       \/ BeginTargets \/ \E t \in Ids : Descend(t)
       \/ RangePanics \/ PushTarget \/ EndCycle
       => UNCHANGED <<rawHealth, visit>>
  BY DEF BeginAdd, SetPriority, UpdateConfig, LaunchGoroutines, StoreStarted, SendComponentsInfo,
         EndAdd, CollectPanics, BeginTargets, Descend, RangePanics, PushTarget, EndCycle,
         registry, cycle
<1>11. CASE \E i \in visit : Calculate(i)
  BY <1>1, <1>2, <1>11
<1>12. CASE \E ids \in DeleteArgs : DeleteComponents(ids)
  BY <1>6, <1>12
<1>. QED
  BY <1>4, <1>5, <1>7, <1>8, <1>9, <1>10, <1>11, <1>12 DEF Next, AddSteps, CycleSteps

(* A step that collects nothing. *)
LEMMA SettleKeeps ==
    ASSUME IInv, LedgerInv, Next, collected' # collected + 1, Settle
    PROVE  LedgerInv'
<1> DEFINE reported == visit \ visit'
           present  == Registered'
           kept     == {i \in present \cap Registered : owner = "add" => rawHealth'[i] = rawHealth[i]}
<1>1. /\ ledger' = [i \in present |-> IF i \in kept \ reported THEN ledger[i] ELSE << >>]
      /\ carried' = [i \in present |->
                       IF i \in reported
                       THEN [status |-> StatusAfter(ledger[i], carried[i]),
                             totals |-> TotalsAfter(ledger[i], carried[i])]
                       ELSE IF i \in kept THEN carried[i] ELSE Fresh]
  BY DEF Settle, Registered
<1>2. /\ reported \subseteq Registered
      /\ \A i \in reported : rawHealth'[i] = CleanHealthValues(rawHealth[i])
      /\ \A i \in present \ reported :
            \/ i \in Registered /\ rawHealth'[i] = rawHealth[i]
            \/ owner = "add" /\ \E c \in Component : rawHealth'[i] = NewRawHealth(c)
  BY RawHealthMoves
<1>3. \A i \in Registered : /\ rawHealth[i] \in RawHealth
                            /\ ledger[i] \in Seq(Measurements) /\ carried[i] \in Carries
                            /\ Matches(rawHealth[i], ledger[i], carried[i])
  BY DEF IInv, TypeOK, IsMap, Registered, LedgerInv
<1>. HIDE DEF reported, present
<1>4. DOMAIN ledger' = present /\ DOMAIN carried' = present
  BY <1>1
<1>5. << >> \in Seq(Measurements)
  OBVIOUS
<1>6. ASSUME NEW i \in present
      PROVE  /\ ledger'[i] \in Seq(Measurements) /\ carried'[i] \in Carries
             /\ Matches(rawHealth'[i], ledger'[i], carried'[i])
  <2>1. CASE i \in reported
    <3>1. ledger'[i] = << >> /\ carried'[i] = [status |-> StatusAfter(ledger[i], carried[i]),
                                               totals |-> TotalsAfter(ledger[i], carried[i])]
      BY <1>1, <1>6, <2>1
    <3>. QED
      BY <1>2, <1>3, <1>5, <2>1, <3>1, CleanMatches
  <2>2. CASE i \notin reported /\ i \in kept
    <3>1. ledger'[i] = ledger[i] /\ carried'[i] = carried[i] /\ i \in Registered
      BY <1>1, <1>6, <2>2
    <3>2. rawHealth'[i] = rawHealth[i]
      BY <1>2, <1>6, <2>2
    <3>. QED
      BY <1>3, <3>1, <3>2
  <2>3. CASE i \notin reported /\ i \notin kept
    <3>1. ledger'[i] = << >> /\ carried'[i] = Fresh
      BY <1>1, <1>6, <2>3
    <3>2. \E c \in Component : rawHealth'[i] = NewRawHealth(c)
      BY <1>2, <1>6, <2>3
    <3>. QED
      BY <1>5, <3>1, <3>2, NewMatches
  <2>. QED
    BY <2>1, <2>2, <2>3
<1>. QED
  BY <1>4, <1>6 DEF LedgerInv, present

(* A measurement that is collected. *)
LEMMA RecordKeeps ==
    ASSUME IInv, LedgerInv, NEW ms \in Measurements, Collect(ms), Record(ms)
    PROVE  LedgerInv'
<1> DEFINE j == ms.id
           known == j \in Registered
           r == Collecting(ms)
           u == Updated(r, ms, config.registrationOnCollect)
           l == IF known THEN ledger[j] ELSE << >>
           from == IF known THEN carried[j] ELSE Fresh
           more == IF Accepted(ms, u.component) THEN Append(l, ms) ELSE l
<1>1. /\ DOMAIN ledger = Registered /\ DOMAIN carried = Registered
      /\ \A i \in Registered : /\ rawHealth[i] \in RawHealth
                               /\ ledger[i] \in Seq(Measurements) /\ carried[i] \in Carries
                               /\ Matches(rawHealth[i], ledger[i], carried[i])
  BY DEF IInv, TypeOK, IsMap, Registered, LedgerInv
<1>2. ms \in Measurement
  BY HealthManagerAssumption
<1>3. r \in RawHealth /\ l \in Seq(Measurements) /\ from \in Carries /\ Matches(r, l, from)
  <2>1. CASE known
    BY <1>1, <2>1 DEF Collecting
  <2>2. CASE ~known
    <3> DEFINE c == BuildComponentFromMeasure(ms)
    <3>1. c \in Component
      BY <1>2, BuildComponentType
    <3>. HIDE DEF c
    <3>2. r = NewRawHealth(c) /\ l = << >> /\ from = Fresh
      BY <2>2 DEF Collecting, c
    <3>3. NewRawHealth(c) \in RawHealth /\ Matches(NewRawHealth(c), << >>, Fresh) /\ Fresh \in Carries
      BY <3>1, NewRawHealthType, NewMatches
    <3>4. << >> \in Seq(Measurements)
      OBVIOUS
    <3>. QED
      BY <3>2, <3>3, <3>4
  <2>. QED
    BY <2>1, <2>2
<1>4. rawHealth' = Put(rawHealth, j, u)
  BY DEF Collect
<1>. HIDE DEF r, l, from
<1>5. Matches(u, more, from) /\ more \in Seq(Measurements)
  <2>1. Append(l, ms) \in Seq(Measurements)
    BY <1>3
  <2>. QED
    BY <1>3, <2>1, UpdatedMatches
<1>. HIDE DEF u
<1>6. /\ Registered' = Registered \cup {j} /\ rawHealth'[j] = u
      /\ \A i \in Registered \ {j} : rawHealth'[i] = rawHealth[i]
  BY <1>4 DEF Put, Registered
<1>7. l \o (IF Accepted(ms, u.component) THEN <<ms>> ELSE << >>) = more
  <2>1. l \o <<ms>> = Append(l, ms) /\ l \o << >> = l
    BY <1>3
  <2>. QED
    BY <2>1
<1>8. /\ ledger' = Put(ledger, j, more)
      /\ carried' = IF known THEN carried ELSE Put(carried, j, Fresh)
  <2>1. /\ ledger' = Put(ledger, j, (IF j \in DOMAIN ledger THEN ledger[j] ELSE << >>) \o
                            (IF Accepted(ms, rawHealth'[j].component) THEN <<ms>> ELSE << >>))
        /\ carried' = IF j \in DOMAIN ledger THEN carried ELSE Put(carried, j, Fresh)
    BY DEF Record
  <2>2. l = IF j \in DOMAIN ledger THEN ledger[j] ELSE << >>
    BY <1>1 DEF l
  <2>. HIDE DEF more
  <2>. QED
    BY <1>1, <1>6, <1>7, <2>1, <2>2
<1>. HIDE DEF more
<1>9. /\ DOMAIN ledger' = Registered' /\ DOMAIN carried' = Registered'
      /\ ledger'[j] = more /\ carried'[j] = from
      /\ \A i \in Registered \ {j} : ledger'[i] = ledger[i] /\ carried'[i] = carried[i]
  <2>1. DOMAIN ledger' = Registered' /\ ledger'[j] = more /\ \A i \in Registered \ {j} : ledger'[i] = ledger[i]
    BY <1>1, <1>6, <1>8 DEF Put
  <2>2. DOMAIN carried' = Registered' /\ carried'[j] = from /\ \A i \in Registered \ {j} : carried'[i] = carried[i]
    <3>1. CASE known
      BY <1>1, <1>6, <1>8, <3>1 DEF from
    <3>2. CASE ~known
      BY <1>1, <1>6, <1>8, <3>2 DEF Put, from
    <3>. QED
      BY <3>1, <3>2
  <2>. QED
    BY <2>1, <2>2
<1>10. \A i \in Registered' : i = j \/ i \in Registered \ {j}
  BY <1>6
<1>. HIDE DEF j, known
<1>. QED
  BY <1>1, <1>3, <1>5, <1>6, <1>9, <1>10 DEF LedgerInv

(* Every step keeps what the ledgers say. *)
LEMMA LedgerStep ==
    ASSUME IInv, LedgerInv, [LedgerNext]_ledgerVars
    PROVE  LedgerInv'
<1>1. CASE UNCHANGED ledgerVars
  BY <1>1 DEF ledgerVars, vars, registry, LedgerInv, Registered
<1>2. CASE \E ms \in Measurements : Collect(ms) /\ Record(ms)
  BY <1>2, RecordKeeps
<1>3. CASE Next /\ collected' # collected + 1 /\ Settle
  BY <1>3, SettleKeeps
<1>. QED
  BY <1>1, <1>2, <1>3 DEF LedgerNext

(* What is reported of a metric is what its aggregator makes of its values. *)
LEMMA AggregateIs ==
    ASSUME NEW a \in Accumulator, a.values # << >>, a.aggregator # NoMetric
    PROVE  Aggregates(Aggregate(a), a.aggregator, a.values)
<1>1. a.values \in Seq(Int) /\ a.aggregator \in Aggregators
  BY DEF Accumulator
<1>2. /\ LeastOf(a.values) \in Range(a.values)
      /\ \A k \in DOMAIN a.values : a.values[k] >= LeastOf(a.values)
      /\ GreatestOf(a.values) \in Range(a.values)
      /\ \A k \in DOMAIN a.values : a.values[k] <= GreatestOf(a.values)
  BY <1>1, ExtremesExist
<1>3. CASE a.aggregator = "Mean"
  BY <1>3 DEF Aggregates, Aggregate
<1>4. CASE a.aggregator = "Sum"
  BY <1>4 DEF Aggregates, Aggregate
<1>5. CASE a.aggregator = "Count"
  BY <1>5 DEF Aggregates, Aggregate
<1>6. CASE a.aggregator = "Min"
  <2>1. Aggregate(a) = [num |-> LeastOf(a.values), den |-> 1]
    BY <1>6 DEF Aggregate
  <2>. QED
    BY <1>2, <1>6, <2>1 DEF Aggregates
<1>7. CASE a.aggregator = "Max"
  <2>1. Aggregate(a) = [num |-> GreatestOf(a.values), den |-> 1]
    BY <1>7 DEF Aggregate
  <2>. QED
    BY <1>2, <1>7, <2>1 DEF Aggregates
<1>. QED
  BY <1>1, <1>3, <1>4, <1>5, <1>6, <1>7 DEF Aggregators

(* The health calculated of a component is what its ledger says. *)
LEMMA CalculatedSettles ==
    ASSUME IInv, LedgerInv, NEW i \in Registered
    PROVE  Settles(i, CalculateComponentHealth(rawHealth[i]))
<1> DEFINE r == rawHealth[i]
           l == ledger[i]
           from == carried[i]
           h == CalculateComponentHealth(r)
<1>1. r \in RawHealth /\ l \in Seq(Measurements) /\ Matches(r, l, from)
  BY DEF IInv, TypeOK, IsMap, Registered, LedgerInv
<1>2. /\ h.status = r.status /\ h.beats = r.heartBeat /\ h.messages = r.messages
      /\ h.counters = [m \in r.counted |-> IF m \in r.component.totalCounterIDs
                                           THEN r.totalCounters[m] ELSE r.counters[m]]
      /\ h.metrics = [m \in {k \in MeasureIds : r.metrics[k].values # << >>} |->
                        Aggregate(r.metrics[m])]
  BY DEF CalculateComponentHealth
<1>3. h.status = StatusAfter(l, from) /\ h.messages = MessagesOf(Chosen(l, Messages))
  BY <1>1, <1>2 DEF Matches
<1>4. h.beats = \E k \in DOMAIN l : l[k].measureType = "Heartbeat"
  BY <1>1, <1>2 DEF Matches
<1>. HIDE DEF h
<1>5. ASSUME NEW m \in MeasureIds
      PROVE  LET values == ValuesOf(Chosen(l, Of("Metric", m)))
             IN  /\ m \in DOMAIN h.metrics <=> values # << >>
                 /\ values # << >> => Aggregates(h.metrics[m], r.component.metrics[m], values)
                 /\ Change(l, m) # 0 => m \in DOMAIN h.counters
                 /\ m \in DOMAIN h.counters =>
                      h.counters[m] = IF m \in r.component.totalCounterIDs
                                      THEN TotalsAfter(l, from)[m] ELSE Wrap32(Change(l, m))
  <2> DEFINE values == ValuesOf(Chosen(l, Of("Metric", m)))
  <2>1. MatchesMeasure(r, l, from, m)
    BY <1>1 DEF Matches
  <2>2. /\ r.metrics[m].values = values /\ r.metrics[m].aggregator = r.component.metrics[m]
        /\ r.metrics[m] \in Accumulator
        /\ values # << >> => r.component.metrics[m] # NoMetric
    BY <1>1, <2>1 DEF MatchesMeasure, MetricIDs, RawHealth
  <2>. HIDE DEF values
  <2>3. m \in DOMAIN h.metrics <=> values # << >>
    BY <1>2, <2>2
  <2>4. values # << >> => Aggregates(h.metrics[m], r.component.metrics[m], values)
    <3>1. SUFFICES ASSUME values # << >> PROVE Aggregates(h.metrics[m], r.component.metrics[m], values)
      OBVIOUS
    <3>2. h.metrics[m] = Aggregate(r.metrics[m])
      BY <1>2, <2>2, <3>1
    <3>3. Aggregates(Aggregate(r.metrics[m]), r.metrics[m].aggregator, r.metrics[m].values)
      BY <2>2, <3>1, AggregateIs
    <3>. QED
      BY <2>2, <3>2, <3>3
  <2>5. Change(l, m) # 0 => m \in DOMAIN h.counters
    <3>1. Chosen(l, Of("CounterChange", m)) = << >> => Change(l, m) = 0
      BY SumOfNone, NothingOf DEF Change
    <3>. QED
      BY <1>2, <2>1, <3>1 DEF MatchesMeasure
  <2>6. m \in DOMAIN h.counters =>
           h.counters[m] = IF m \in r.component.totalCounterIDs
                           THEN TotalsAfter(l, from)[m] ELSE Wrap32(Change(l, m))
    BY <1>2, <2>1 DEF MatchesMeasure
  <2>. QED
    BY <2>3, <2>4, <2>5, <2>6 DEF values
<1>. QED
  BY <1>3, <1>4, <1>5 DEF Settles, h

(* What a step reports of a component is its calculated health. *)
LEMMA StepReports ==
    ASSUME IInv, LedgerInv, [LedgerNext]_ledgerVars, NEW i \in visit \ visit'
    PROVE  Settles(i, IF IsTarget(i) THEN own'[i] ELSE report'[i])
<1> DEFINE h == CalculateComponentHealth(rawHealth[i])
<1>1. Next /\ collected' # collected + 1
  <2>1. CASE UNCHANGED ledgerVars
    BY <2>1 DEF ledgerVars, vars, cycle
  <2>2. CASE \E ms \in Measurements : Collect(ms) /\ Record(ms)
    BY <2>2 DEF Collect, cycle
  <2>3. CASE Next /\ collected' # collected + 1 /\ Settle
    BY <2>3
  <2>. QED
    BY <2>1, <2>2, <2>3 DEF LedgerNext
<1>2. i \in Registered /\ Calculate(i)
  BY <1>1, RawHealthMoves
<1>3. h.id = i
  BY <1>2, CalculateType DEF IInv, TypeOK, IsMap, RegistryInv, Registered
<1>. HIDE DEF h
<1>4. CASE IsTarget(i)
  <2>1. own' = Put(own, i, h)
    BY <1>2, <1>4 DEF Calculate, h
  <2>2. own'[i] = h
    BY <2>1 DEF Put
  <2>. QED
    BY <1>2, <1>4, <2>2, CalculatedSettles DEF h
<1>5. CASE ~IsTarget(i)
  <2>1. Push(h)
    BY <1>2, <1>5 DEF Calculate, h
  <2>2. report'[i] = h
    BY <1>3, <2>1 DEF Push, Put
  <2>. QED
    BY <1>2, <1>5, <2>2, CalculatedSettles DEF h
<1>. QED
  BY <1>4, <1>5

(* Whatever is collected, in whatever order and between whichever calls, a component's health  *)
(* is worked out from exactly the measurements since the one before, and int32 sums are those  *)
(* of the measurements modulo 2^32.                                                            *)
THEOREM LedgerIsReported ==
    ASSUME CustomsReturnStatuses
    PROVE  LedgerSpec => EveryMeasurementReportedOnce
<1> DEFINE A == \A i \in visit \ visit' : Settles(i, IF IsTarget(i) THEN own'[i] ELSE report'[i])
<1>1. LedgerInit => IInv /\ LedgerInv
  <2>1. LedgerInit => LedgerInv
    BY DEF LedgerInit, Init, LedgerInv, Registered
  <2>. QED
    BY <2>1, InitIInv DEF LedgerInit
<1>2. IInv /\ LedgerInv /\ [LedgerNext]_ledgerVars => (IInv /\ LedgerInv)'
  <2>1. [LedgerNext]_ledgerVars => [Next]_vars
    BY DEF LedgerNext, ledgerVars, Next
  <2>. QED
    BY <2>1, IInvStep, LedgerStep
<1>3. IInv /\ LedgerInv /\ [LedgerNext]_ledgerVars => [A]_ledgerVars
  BY StepReports
<1>4. EveryMeasurementReportedOnce <=> [][A]_ledgerVars
  BY PTL DEF EveryMeasurementReportedOnce
<1>. HIDE DEF A
<1>. QED
  BY <1>1, <1>2, <1>3, <1>4, PTL DEF LedgerSpec
=============================================================================
