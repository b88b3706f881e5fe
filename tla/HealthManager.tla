---------------------------- MODULE HealthManager ----------------------------
(***************************************************************************)
(* The health manager of health/manager.go and its registry.  Every        *)
(* handler holds the registry mutex from its first read to its last write; *)
(* "owner" is the holder.  Handlers that send on a channel or read         *)
(* "started" on the way are split at those points: AddComponents takes a   *)
(* step per component, and a reporting cycle (writeHealthResult) a step    *)
(* per component and per target, in any order, for Go ranges over maps in  *)
(* any order.  What goes to the writer is kept in "pushes" and "report"    *)
(* (channel healthIn) and "announced" (channel componentIn); the goroutines*)
(* and channels themselves are the subject of HealthFramework.             *)
(***************************************************************************)
EXTENDS HealthComponent

CONSTANTS
    AddArgs,        \* the slices of components AddComponents is called with
    DeleteArgs,     \* the sets of IDs DeleteComponents is called with
    PriorityArgs,   \* the pairs <<type, priority>> SetPriority is called with
    Measurements,   \* the measurements collectors send
    Configs,        \* the configurations NewManager and UpdateConfig are given
    Customs,        \* names of custom TargetHealthFns
    CustomTargetHealth(_, _), \* what each of them computes
    ComponentsLimit,\* utils.ComponentsLimit
    MaxPerCycle     \* bound: measurements collected between two reports

Config == [registrationOnCollect : BOOLEAN, targetHealthFn : Customs \cup {"default"}]

ASSUME HealthManagerAssumption ==
    /\ AddArgs \subseteq Seq(Component)
    /\ \A components \in AddArgs : \A k \in DOMAIN components : NewSucceeds(components[k])
    /\ DeleteArgs \subseteq SUBSET Ids
    /\ PriorityArgs \subseteq Types \X Priorities
    /\ Measurements \subseteq Measurement
    /\ Configs # {} /\ Configs \subseteq Config
    /\ "default" \notin Customs
    /\ ComponentsLimit \in Nat
    /\ MaxPerCycle \in Nat

VARIABLES
    rawHealth,      \* registry: component ID -> raw health
    targets,        \* registry: target ID -> is its heartbeat enabled
    typePriorities, \* registry: component type -> priority
    config,         \* the configuration in force
    start,          \* how far Start is: its goroutines run, started is set, Start returned
    owner,          \* the handler holding the registry mutex, or "free"
    todo,           \* AddComponents: components still to register
    visit,          \* cycle: components still to calculate
    impact,         \* cycle: targetsInfo without ownHealth, for the targets met so far
    own,            \* cycle: ownHealth of the targets met so far
    stack,          \* cycle: the calls of buildAndPushHealthForTarget under way
    pushes,         \* cycle: how often each component's health was sent to the writer
    report,         \* cycle: the health last sent of each component
    announced,      \* components whose present registration was sent on componentIn
    collected,      \* measurements collected since the last cycle began
    panicked        \* a nil dereference ended the program

registry == <<rawHealth, targets, typePriorities>>
adding   == <<todo>>
cycle    == <<visit, impact, own, stack>>
output   == <<pushes, report>>
vars     == <<registry, config, start, owner, adding, cycle, output, announced, collected,
              panicked>>

StartSteps == {"new", "launched", "stored", "done"}

IsStarted == start \in {"stored", "done"}

Init ==
    /\ rawHealth = [i \in {} |-> NewRawHealth(TargetComponent(i, FALSE))]
    /\ targets = [t \in {} |-> FALSE]
    /\ typePriorities = [t \in {} |-> DefaultPriority]
    /\ config \in Configs
    /\ start = "new" /\ owner = "free"
    /\ todo = << >>
    /\ visit = {} /\ stack = << >>
    /\ impact = [t \in {} |-> NoImpacts] /\ own = [t \in {} |-> << >>]
    /\ pushes = [i \in Ids |-> 0] /\ report = [i \in {} |-> << >>]
    /\ announced = {}
    /\ collected = 0
    /\ panicked = FALSE

Registered == DOMAIN rawHealth

(* Bug: a handler does not wait for the registry mutex. *)
LockForgotten == ~panicked

(* A handler takes the registry mutex. *)
Lock == ~panicked /\ owner = "free"

-----------------------------------------------------------------------------
(* AddComponents *)

(* Bug: targets the call does not list are not counted. *)
NamedWithoutTargets(components) == {components[k].id : k \in DOMAIN components}

(* The component itself and its target, if it has one. *)
Named(components) ==
    {components[k].id : k \in DOMAIN components}
    \cup ({components[k].target : k \in DOMAIN components} \ {NoTarget})

BeginAdd(components) ==
    /\ Lock
    /\ Cardinality(Named(components)) + Cardinality(Registered) <= ComponentsLimit
    /\ owner' = "add" /\ todo' = components
    /\ UNCHANGED <<registry, config, start, cycle, output, announced, collected, panicked>>

(* Bug: a component registered again is not sent. *)
RegisterKnownUnsent(c) ==
    /\ rawHealth' = Put(rawHealth, c.id, NewRawHealth(c))
    /\ announced' = IF IsStarted /\ c.id \notin Registered THEN announced \cup {c.id}
                    ELSE announced \ {c.id}

(* setRawHealthForComponent, and the send on componentIn if Start has set started. *)
Register(c) ==
    /\ rawHealth' = Put(rawHealth, c.id, NewRawHealth(c))
    /\ announced' = IF IsStarted THEN announced \cup {c.id} ELSE announced \ {c.id}

(* Bug: the last component decides on the heartbeat of its target. *)
TargetsWithLast(c) ==
    IF c.target = NoTarget THEN targets ELSE Put(targets, c.target, c.enableHeartbeat)

(* updateTargetsRegistry *)
TargetsWith(c) ==
    IF c.target = NoTarget \/ (c.target \in DOMAIN targets /\ targets[c.target])
    THEN targets
    ELSE Put(targets, c.target, c.enableHeartbeat)

AddNext ==
    /\ ~panicked /\ owner = "add" /\ todo # << >>
    /\ Register(Head(todo))
    /\ targets' = TargetsWith(Head(todo))
    /\ todo' = Tail(todo)
    /\ UNCHANGED <<typePriorities, config, start, owner, cycle, output, collected, panicked>>

MissingTargets == DOMAIN targets \ Registered

AddMissingTarget ==
    /\ ~panicked /\ owner = "add" /\ todo = << >>
    /\ \E t \in MissingTargets : Register(TargetComponent(t, targets[t]))
    /\ UNCHANGED <<targets, typePriorities, config, start, owner, todo, cycle, output, collected,
                   panicked>>

EndAdd ==
    /\ ~panicked /\ owner = "add" /\ todo = << >> /\ MissingTargets = {}
    /\ owner' = "free"
    /\ UNCHANGED <<registry, config, start, todo, cycle, output, announced, collected, panicked>>

-----------------------------------------------------------------------------
(* DeleteComponents, SetPriority, UpdateConfig *)

DeleteComponents(ids) ==
    LET named    == ids \cap Registered
        left     == Registered \ named
        impacted(S) == {rawHealth[i].component.target : i \in S} \ {NoTarget}
        targetsToRemove == impacted(named) \ impacted(left)
    IN  /\ Lock
        /\ rawHealth' = Restrict(rawHealth, left \ targetsToRemove)
        /\ targets' = Restrict(targets, DOMAIN targets \ targetsToRemove)
        /\ announced' = announced \cap (left \ targetsToRemove)
        /\ UNCHANGED <<typePriorities, config, start, owner, adding, cycle, output, collected,
                       panicked>>

SetPriority(type, priority) ==
    /\ Lock
    /\ typePriorities' = Put(typePriorities, type, priority)
    /\ UNCHANGED <<rawHealth, targets, config, start, owner, adding, cycle, output, announced,
                   collected, panicked>>

PriorityForType(type) ==
    IF type \in DOMAIN typePriorities THEN typePriorities[type] ELSE DefaultPriority

(* Guarded by configMu only: it can come between two steps of a reporting cycle. *)
UpdateConfig(newConfig) ==
    /\ ~panicked
    /\ config' = newConfig
    /\ UNCHANGED <<registry, start, owner, adding, cycle, output, announced, collected, panicked>>

-----------------------------------------------------------------------------
(* Start *)

LaunchGoroutines ==
    /\ ~panicked /\ start = "new"
    /\ start' = "launched"
    /\ UNCHANGED <<registry, config, owner, adding, cycle, output, announced, collected, panicked>>

StoreStarted ==
    /\ ~panicked /\ start = "launched"
    /\ start' = "stored"
    /\ UNCHANGED <<registry, config, owner, adding, cycle, output, announced, collected, panicked>>

SendComponentsInfo ==
    /\ Lock /\ start = "stored"
    /\ start' = "done"
    /\ announced' = Registered
    /\ UNCHANGED <<registry, config, owner, adding, cycle, output, collected, panicked>>

-----------------------------------------------------------------------------
(* listenMeasurements: updateComponentHealthData *)

(* The raw health a measurement goes to: the registered one, or that of a component built *)
(* from the measurement.                                                                 *)
Collecting(ms) ==
    IF ms.id \in Registered THEN rawHealth[ms.id] ELSE NewRawHealth(BuildComponentFromMeasure(ms))

Refused(ms) ==
    /\ ms.id \notin Registered
    /\ ~config.registrationOnCollect \/ Cardinality(Registered) + 1 > ComponentsLimit

Collect(ms) ==
    /\ Lock /\ start # "new" /\ collected < MaxPerCycle
    /\ ~Refused(ms)
    /\ ~UpdatePanics(Collecting(ms), ms, config.registrationOnCollect)
    /\ rawHealth' = Put(rawHealth, ms.id,
                        Updated(Collecting(ms), ms, config.registrationOnCollect))
    /\ collected' = collected + 1
    /\ UNCHANGED <<targets, typePriorities, config, start, owner, adding, cycle, output,
                   announced, panicked>>

CollectPanics(ms) ==
    /\ Lock /\ start # "new"
    /\ ~Refused(ms)
    /\ UpdatePanics(Collecting(ms), ms, config.registrationOnCollect)
    /\ panicked' = TRUE
    /\ UNCHANGED <<registry, config, start, owner, adding, cycle, output, announced, collected>>

-----------------------------------------------------------------------------
(* healthForwarder: writeHealthResult *)

(* targetHealthFn() is read anew for every target. *)
TargetHealth(counts) ==
    IF config.targetHealthFn = "default" THEN DefaultTargetHealth(counts)
    ELSE CustomTargetHealth(config.targetHealthFn, counts)

IsTarget(i)  == i \in DOMAIN targets
HbEnabled(t) == IsTarget(t) /\ targets[t]

NewTarget(t) == [counts |-> NoImpacts, enabled |-> HbEnabled(t), beats |-> FALSE, messages |-> {}]

(* targetsInfo after making sure t is there. *)
WithTarget(t) == IF t \in DOMAIN impact THEN impact ELSE Put(impact, t, NewTarget(t))

(* Bug: the heartbeat is not passed on. *)
ImpactedWithoutBeats(info, h) ==
    [info EXCEPT !.counts[<<h.status, PriorityForType(h.type)>>] = @ + 1,
                 !.messages = IF h.status = "Healthy" THEN @ ELSE @ \cup {<<h.id, h.status>>}]

(* updateImpactedTargetInfo *)
Impacted(info, h) ==
    [info EXCEPT !.counts[<<h.status, PriorityForType(h.type)>>] = @ + 1,
                 !.beats = @ \/ h.beats,
                 !.messages = IF h.status = "Healthy" THEN @ ELSE @ \cup {<<h.id, h.status>>}]

(* healthIn <- h *)
Push(h) ==
    /\ pushes' = [pushes EXCEPT ![h.id] = @ + 1]
    /\ report' = Put(report, h.id, h)

BeginCycle ==
    /\ Lock /\ start # "new"
    /\ owner' = "cycle" /\ visit' = Registered
    /\ pushes' = [i \in Ids |-> 0] /\ report' = [i \in {} |-> << >>]
    /\ collected' = 0
    /\ UNCHANGED <<registry, config, start, adding, impact, own, stack, announced, panicked>>

(* One iteration of the range over the registry. *)
Calculate(i) ==
    LET h == CalculateComponentHealth(rawHealth[i])
    IN  /\ ~panicked /\ owner = "cycle" /\ i \in visit
        /\ IF IsTarget(i)
           THEN /\ impact' = WithTarget(i) /\ own' = Put(own, i, h)
                /\ UNCHANGED output
           ELSE /\ Push(h)
                /\ impact' = IF h.target = NoTarget THEN impact
                             ELSE [WithTarget(h.target) EXCEPT ![h.target] = Impacted(@, h)]
                /\ UNCHANGED own
        /\ rawHealth' = [rawHealth EXCEPT ![i] = CleanHealthValues(@)]
        /\ visit' = visit \ {i}
        /\ UNCHANGED <<targets, typePriorities, config, start, owner, adding, stack, announced,
                       collected, panicked>>

(* A range over targetsInfo looking for the targets whose TargetID is "id", and those it has *)
(* not come to.  The first on the stack looks for targets with no target; each call of       *)
(* buildAndPushHealthForTarget runs another.                                                 *)
Frame(id) == [id |-> id, rest |-> DOMAIN impact]
Top       == Last(stack)

BeginTargets ==
    /\ ~panicked /\ owner = "cycle" /\ visit = {} /\ stack = << >>
    /\ stack' = <<Frame(NoTarget)>>
    /\ UNCHANGED <<registry, config, start, owner, adding, visit, impact, own, output, announced,
                   collected, panicked>>

Found == {t \in Top.rest \cap DOMAIN own : own[t].target = Top.id}

Descend(t) ==
    /\ ~panicked /\ stack # << >> /\ t \in Found
    /\ stack' = Append([stack EXCEPT ![Len(stack)].rest = @ \ {t}], Frame(t))
    /\ UNCHANGED <<registry, config, start, owner, adding, visit, impact, own, output, announced,
                   collected, panicked>>

(* The range comes to a target that has no ownHealth. *)
RangePanics ==
    /\ ~panicked /\ stack # << >>
    /\ Top.rest \ DOMAIN own # {}
    /\ panicked' = TRUE
    /\ UNCHANGED <<registry, config, start, owner, adding, cycle, output, announced, collected>>

(* Bug: a target is pushed before the targets that impact it. *)
RangeDoneEarly == stack # << >> /\ Top.rest \subseteq DOMAIN own

RangeDone == stack # << >> /\ Found = {} /\ Top.rest \subseteq DOMAIN own

(* The health of the target on top of the stack, once all it is impacted by is counted. *)
TargetReport ==
    LET info == impact[Top.id]
    IN  [own[Top.id] EXCEPT !.status = TargetHealth(info.counts),
                            !.enabled = @ \/ info.enabled,
                            !.beats = @ \/ info.beats,
                            !.impacts = info.messages]

PushTarget ==
    /\ ~panicked /\ RangeDone /\ Len(stack) > 1
    /\ Push(TargetReport)
    /\ own' = [own EXCEPT ![Top.id] = TargetReport]
    /\ LET caller == Last(Front(stack)).id
       IN  impact' = IF caller = NoTarget THEN impact
                     ELSE [impact EXCEPT ![caller] = Impacted(@, TargetReport)]
    /\ stack' = Front(stack)
    /\ UNCHANGED <<registry, config, start, owner, adding, visit, announced, collected, panicked>>

(* Bug: a return without the unlock. *)
EndCycleLocked ==
    /\ ~panicked /\ RangeDone /\ Len(stack) = 1
    /\ owner' = owner
    /\ stack' = << >> /\ impact' = [t \in {} |-> NoImpacts] /\ own' = [t \in {} |-> << >>]
    /\ UNCHANGED <<registry, config, start, adding, visit, output, announced, collected, panicked>>

EndCycle ==
    /\ ~panicked /\ RangeDone /\ Len(stack) = 1
    /\ owner' = "free"
    /\ stack' = << >> /\ impact' = [t \in {} |-> NoImpacts] /\ own' = [t \in {} |-> << >>]
    /\ UNCHANGED <<registry, config, start, adding, visit, output, announced, collected, panicked>>

-----------------------------------------------------------------------------
AddSteps == AddNext \/ AddMissingTarget \/ EndAdd

CycleSteps ==
    \/ \E i \in visit : Calculate(i)
    \/ BeginTargets
    \/ \E t \in Ids : Descend(t)
    \/ RangePanics \/ PushTarget \/ EndCycle

Next ==
    \/ \E components \in AddArgs : BeginAdd(components)
    \/ AddSteps
    \/ \E ids \in DeleteArgs : DeleteComponents(ids)
    \/ \E tp \in PriorityArgs : SetPriority(tp[1], tp[2])
    \/ \E newConfig \in Configs : UpdateConfig(newConfig)
    \/ LaunchGoroutines \/ StoreStarted \/ SendComponentsInfo
    \/ \E ms \in Measurements : Collect(ms) \/ CollectPanics(ms)
    \/ BeginCycle \/ CycleSteps

Spec == Init /\ [][Next]_vars

(* The goroutines that hold the registry mutex go on, and sync.Mutex hands the mutex to the *)
(* forwarder in the end, however many others want it.                                       *)
Fairness ==
    WF_vars(LaunchGoroutines) /\ WF_vars(AddSteps) /\ WF_vars(CycleSteps) /\ SF_vars(BeginCycle)

FairSpec == Spec /\ Fairness

-----------------------------------------------------------------------------
(* The signature of Config.TargetHealthFn. *)
CustomsReturnStatuses ==
    \A fn \in Customs : \A counts \in ImpactCounts : CustomTargetHealth(fn, counts) \in Statuses

(* What a published or pending Health looks like, but for the values of its measures. *)
IsHealth(h) ==
    /\ h.id \in Ids /\ h.type \in Types /\ h.target \in Ids \cup {NoTarget}
    /\ h.status \in Statuses /\ h.enabled \in BOOLEAN /\ h.beats \in BOOLEAN
    /\ h.messages \in Seq(Message) /\ h.impacts \subseteq Ids \X Statuses

Impact ==
    [counts : ImpactCounts, enabled : BOOLEAN, beats : BOOLEAN,
     messages : SUBSET (Ids \X Statuses)]

(* The registry and the cycle's bookkeeping keep the types of the Go declarations. *)
TypeOK ==
    /\ IsMap(rawHealth, Ids, RawHealth)
    /\ IsMap(targets, Ids, BOOLEAN)
    /\ IsMap(typePriorities, Types, Priorities)
    /\ config \in Configs
    /\ start \in StartSteps /\ owner \in {"free", "add", "cycle"}
    /\ todo \in Seq(Component)
    /\ visit \subseteq Ids
    /\ IsMap(impact, Ids, Impact)
    /\ DOMAIN own \subseteq Ids /\ \A t \in DOMAIN own : IsHealth(own[t]) /\ own[t].id = t
    /\ stack \in Seq([id : Ids \cup {NoTarget}, rest : SUBSET Ids])
    /\ pushes \in [Ids -> Nat]
    /\ DOMAIN report \subseteq Ids /\ \A i \in DOMAIN report : IsHealth(report[i])
    /\ announced \subseteq Ids
    /\ collected \in Nat
    /\ panicked \in BOOLEAN

(* A component is stored under its ID, and the target it impacts is known to the registry as a *)
(* target with the heartbeat its components ask for: writeHealthResult relies on it to tell    *)
(* the components it can push at once from those that must wait for what impacts them.         *)
RegistryInv ==
    \A i \in Registered :
        LET c == rawHealth[i].component
        IN  /\ c.id = i
            /\ c.target # NoTarget => c.target \in DOMAIN targets
            /\ c.target # NoTarget /\ c.enableHeartbeat => targets[c.target]

(* What a reporting cycle relies on while it runs: a component calculated has been pushed, or, *)
(* being a target, waits with the target it impacts; a target taken out of the range of a      *)
(* call of buildAndPushHealthForTarget has been pushed, or is being built by the next call.    *)
CycleInv ==
    /\ visit \subseteq Registered
    /\ visit # {} => owner = "cycle" /\ stack = << >>
    /\ stack # << >> => owner = "cycle"
    /\ owner = "cycle" =>
          \A i \in Registered \ visit :
             IF IsTarget(i)
             THEN /\ i \in DOMAIN own \cap DOMAIN impact
                  /\ own[i].target = rawHealth[i].component.target
             ELSE pushes[i] >= 1

StackInv ==
    \A k \in DOMAIN stack :
       /\ stack[k].rest \subseteq DOMAIN impact
       /\ k # 1 => stack[k].id # NoTarget
       /\ stack[k].id # NoTarget => stack[k].id \in DOMAIN own \cap DOMAIN impact
       /\ \A t \in DOMAIN impact \ stack[k].rest :
             pushes[t] >= 1 \/ (k < Len(stack) /\ stack[k + 1].id = t)

(* Every measure of a component is of one kind and has the accumulator of that kind, whatever  *)
(* was registered on collect; updateComponentsMetric dereferences metrics[id] unchecked.       *)
MeasuresInv ==
    \A i \in Registered :
        LET r == rawHealth[i]
            c == r.component
        IN  /\ \A m \in MeasureIds : r.metrics[m].aggregator = c.metrics[m]
            /\ r.counted \subseteq c.counterIDs \cup c.totalCounterIDs
            /\ MeasureCount(c) = Cardinality(Measures(c))
            /\ MeasureCount(c) <= MeasuresLimit

(* The registry never holds more than ComponentsLimit components, those AddComponents makes    *)
(* for targets and those registered on collect included.                                       *)
LimitInv == Cardinality(Registered) <= ComponentsLimit

(* Once Start has returned, the writer has been sent every registered component in its present *)
(* registration: neither the check of "started" in AddComponents nor sendComponentsInfo        *)
(* misses one that is added while the manager starts.                                          *)
NoRegistrationLost == start = "done" => Registered \subseteq announced

(* A target is pushed only when everything that impacts it has been: the order of the range    *)
(* over the map never lets a target's health ignore a component.                               *)
ImpactBeforeTarget ==
    [][\A t \in Ids : owner = "cycle" /\ pushes'[t] > pushes[t] =>
          \A i \in Registered : rawHealth[i].component.target = t => pushes[i] >= 1]_vars

(* buildAndPushHealthForTarget ends for every target graph, cycles included: the forwarder     *)
(* gives the registry mutex back.                                                              *)
CycleEnds == (owner = "cycle") ~> (owner = "free" \/ panicked)
=============================================================================
