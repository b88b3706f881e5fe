# zenoss-go-sdk in TLA+

A verification development for the Go SDK for Zenoss Cloud. It models the health monitoring
framework (`src/health`): its registry and reports, its goroutines and channels, its heartbeats; and
the data pipeline: the endpoint (`src/endpoint`, `src/internal/ttl`) and the receivers a program
stacks before it, the processor, splitter and proxy (`src/processor`, `src/splitter`, `src/proxy`).
TLC checks the models on small instances, and TLAPS proves for all of them the safety properties of
the health framework, of metric registration, of the endpoint and of most of what the receivers
promise, and that the health manager implements its abstract specification.

Contents: [inventory](#inventory) · [modules](#modules) · [health manager](#the-health-manager) ·
[framework](#the-framework) · [heartbeats](#heartbeats) · [metric
registration](#metric-registration) · [endpoint](#the-endpoint) · [receivers](#data-receivers) ·
[runs](#runs) · [fairness](#fairness) · [proofs](#proofs) · [findings](#findings) · [not
modelled](#not-modelled) · [plan](#plan)

## Inventory

A program uses the SDK in two ways. As a data pipeline it stacks clients of one interface,
`DataReceiverServiceClient`: a **proxy** serves gRPC and calls its output, a **splitter** calls
several outputs, a **processor** applies rules and calls its output, an **endpoint** buffers and
sends to Zenoss. As a health monitor it starts the **health framework**, whose **collector** hands
measurements to the **manager**, which reports once per cycle to the **writer** and its
**destinations**, one of which writes to an endpoint.

| component | state | operations | interacts with | hard behaviour | what makes it correct |
|---|---|---|---|---|---|
| health component, raw health (`health/component`, `registry.go`) | accumulators of one component: status, heartbeat, counters, total counters, metric values, messages | `New`, limits and uniqueness of measures, update, calculate, clean | held by the registry, shared with the program that registered it | int32, limits, aggregators, maps built in four places | each measurement is in one report; measures stay unique and within the limit |
| health manager (`manager.go`) | registry (raw health, targets, priorities) under one mutex, configuration | `AddComponents`, `DeleteComponents`, `SetPriority`, `UpdateConfig`, collected measurements, `writeHealthResult` with its recursion over targets | collector → `measureOut`; → `healthIn`, `componentIn` to the writer | any graph of targets, map ranges in any order, deletions, registration on collect | a cycle publishes each health once, a target's after those it is worked out from, and ends |
| framework lifecycle (`FrameworkStart`, `Start`, `Shutdown`) | `hm.mu`, `started`, `stopSig`, `stopWait`, `stopWg`, channels | start, stop, cancel | all goroutines | closing channels while others send, two mutexes, a stop at any point of the start | stop returns, nothing runs after it, no panic, no accepted measurement is lost |
| collector (`collector.go`) | singleton, `done`, heartbeat trackers, cycle duration | `AddToCounter`, `AddMetricValue`, `HealthMessage`, `ChangeHealth`, `HeartBeat`, `UpdateCycleDuration`, stop | `metricsIn` to the manager; `UpdateConfig` | heartbeat restarted while the old goroutine ends; duration changed before its tracker is stored | trackers are those of live goroutines; a goroutine told to end does; one per component, at the duration in force, if the program waits for the end of the one before |
| writer (`writer/writer.go`) | `stopSig` | forward health and components, stop | `healthIn`, `componentIn`, destinations | gone before the last report | reads until the manager has closed |
| destinations (`writer/*estination.go`) | configuration | `Register`, `Push` | endpoint | compact metrics fall back to canonical ones | every metric of a health goes out once |
| endpoint (`endpoint/endpoint.go`) | five bundlers, metric id cache, model tracker | `PutEvents/Metrics/Models`, `ConvertMetrics`, `Flush`, sends | gRPC receiver and registry | partial failure, retries, limits | accepted = sent + failed; identifiers go to their own metric |
| model tracker (`internal/ttl`) | map of hashes with time | `IsAlive`, `AgeAll` | endpoint | marked as sent before it is in a bundle | a model is sent again after its TTL |
| processor (`processor/`) | none but its rules | `PutMetrics/Models`, rules with actions and sub-rules | output | signals out of nested rules, side effects before an error, objects shared with other receivers | accounting; a drop or a send ends the rules of its item and no others |
| splitter (`splitter/`) | outputs | fan-out | outputs | partial failure of outputs | accounting |
| proxy (`proxy/`) | configuration, API keys, output | `SetConfig`, forward | output | configuration replaced field by field while it is read | no request is let through that no configuration in force allows; each is answered |
| metadata, tag, log, stats, utils | none that others wait on | conversions | all | – | – |

`PROJECT.json` lists the hazards, at their lines, and which property would catch each.

## Modules

    HealthComponent            one component's data and the functions on it
      HealthReport             abstract: what a reporting cycle promises
      HealthManager            the registry and all handlers of the manager
        HealthManagerReports   HealthManager implements HealthReport
          MCHealthManager
        HealthManagerLedger    history of measurements: what a report accounts for
          MCHealthLedger
        HealthManagerProofs    TLAPS: types, registry, cycle, announcements, the two limits;
                               HealthManager implements HealthReport; what it reports is
                               what HealthManagerLedger keeps
    HealthFramework            goroutines, mutexes, channels, start and stop
      MCHealthFramework
      HealthFrameworkProofs    TLAPS
    HealthHeartbeat            HeartBeat, its goroutines and trackers, UpdateCycleDuration
      MCHealthHeartbeat
      HealthHeartbeatProofs    TLAPS
    MetricRegistration         ConvertMetrics: cache of metric ids, two requests, retries
      MCMetricRegistration
      MetricRegistrationProofs TLAPS
    Endpoint                   Put calls, bundlers, sends, Flush, model tracker
      MCEndpoint
      EndpointProofs           TLAPS
      EndpointClaims           what a comment says and the code does not do
        MCEndpointClaims
    DataItems                  items as shared objects, rules, matches, actions
      DataReceivers            a request through proxies, splitters, processors, endpoints;
                               a report through the writer's destinations
        DataReceiversClaims    what a comment says and the code does not do
          MCDataReceivers
        DataReceiversProofs    TLAPS: types, admission, fields, answers, errors
          DataReceiversOnceProofs      TLAPS: where each item and each report ends
    Totals                     the sum of a function's values, for Endpoint and DataReceivers
      TotalsProofs             TLAPS: lemmas on totals and flattened sequences

HealthManager and HealthFramework cut the same file in two. HealthManager has the data and treats
the goroutines as a scheduler: any handler may take the registry mutex whenever it is free.
HealthFramework has the goroutines and reduces the data to which measurement is where. They meet at
the registry mutex (`owner` in one, `reg` in the other) and at the points where a handler that holds
it sends on a channel or reads `started`. HealthHeartbeat takes up one of the collector's calls:
HealthFramework has the channels and the closing of `done` in full and lets any call send one
measurement, HealthHeartbeat has the goroutine that sends one per tick and reduces the framework to
`listening` and `done`. MetricRegistration and Endpoint share no state: `ConvertMetrics` is a call
of its own, whose result a program, or `ZCDestination`, hands to `PutMetrics`. DataReceivers
composes the clients of `DataReceiverServiceClient`; what Endpoint has in detail it takes as any
answer an endpoint may give, and what MetricRegistration shows of `ConvertMetrics`, that its results
partition the batch, is what its `ConvertMetrics` does.

## The health manager

**State.** `rawHealth`, `targets` and `typePriorities` are the three maps of `memRegistry`; `config`
is `hm.config`; `start` says how far `Start` is, and with it whether `hm.started` is set. `owner` is
the holder of the registry mutex. `todo` is what the loop of `AddComponents` has still to do;
`visit`, `impact`, `own` and `stack` are the locals of a cycle: components still to calculate,
`targetsInfo` (split into the impacts and `ownHealth`) and the calls of
`buildAndPushHealthForTarget`, each with the targets its range has not come to. `pushes`, `report`
and `announced` are what went out on `healthIn` and `componentIn`.

**Actions.** Every handler is atomic except where it sends on a channel or ranges over a map whose
order matters. `AddComponents` is `BeginAdd` (the limit), `AddNext` per component,
`AddMissingTarget` per target not registered, `EndAdd`. A cycle is `BeginCycle`, `Calculate` per
component in any order, `BeginTargets`, then `Descend` into a target, `RangeDone` and `PushTarget`,
and `EndCycle`; `RangePanics` is the nil `ownHealth` at manager.go:571, where the program ends.
`Collect` is `updateComponentHealthData` as a whole, registration on collect included;
`CollectPanics` is the write to a nil `Metrics` map. `LaunchGoroutines`, `StoreStarted` and
`SendComponentsInfo` are the three steps of `Start` that others can see.

**Data.** Identifiers, types and messages are members of small sets. A mean is kept as a pair of sum
and count, for the division is exact then; metric values are integers. Counters wrap around at
`Int32Half`, 2^31 in the code. Messages of a target are kept as the pairs of component and status
they name, not as text. A configuration names its `TargetHealthFn`: "default", or one of `Customs`,
whose result is `CustomTargetHealth`, a constant operator.

**Properties.** `RegistryInv` relates the maps of the registry. `CycleInv` and `StackInv` say that
in the middle of a cycle nothing is forgotten: what has left a range has been pushed or is held by a
call under way. `ImpactBeforeTarget`: a target is pushed after all it is worked out from.
`CycleEnds`: the recursion ends for every graph. `NoRegistrationLost`: the writer learns of every
component, however registration and `Start` interleave. `LimitInv` and `MeasuresInv`: the two
limits, and each measure being of one kind with its accumulator in place. `ImplementsHealthReport`:
seen from outside, a cycle is one step that publishes what `HealthReport!Publish` says, without
ranges, stacks or accumulation order: of every component, and of every target in the least closed
set of them (`Rooted`), the health that the published healths of what impacts it give. The registry
and the report count as changed when the cycle ends; a history variable keeps what they were when it
began. `UpdateConfig` takes another mutex than a cycle, so the target health function may change in
the middle of one: `functions` of HealthReport collects those in force meanwhile, and a report is to
be what some choice among them, target by target, gives. `EveryMeasurementReportedOnce`: against a
second history variable that keeps the measurements themselves, each report accounts for exactly
those collected since the one before, and carries over status and totals.

## The framework

**State.** `pc` is where each goroutine is: `stopper` (the one that stops the collector when the
context is done), `mgr` (runs `Start`, then waits for the manager), `writer`, `listener`,
`forwarder`, `waiter` (of `hm.wg`) and `app`, the program as it calls FrameworkStop. `mu` and `reg`
are the holders of `hm.mu` and of the registry mutex. A measurement is named after the call that
sent it and is `held` by the listener, `pending` in the registry or `written` to the writer.
Channels are unbuffered, so a send and its receive are one action.

**Actions.** One per point at which a goroutine can block or another can see it: the channel
operations, the mutexes, the reads of `started`. Sending on a closed channel and closing a nil one
are actions that end the program with a reason in `panicked`. `Shutdown` holds `hm.mu` from its
first line to its last, as the code does. A goroutine of `UpdateConfig` that finds `configIn` nil is
`stuck`, for a send on a nil channel blocks for ever.

**When the program stops.** `Discipline` says when it may call FrameworkStop: at any time (`none`),
once `Start` is through (`started`), when also all its calls have returned (`returned`), when also
nothing of the framework is still handling them (`quiet`). A program can follow all but the last;
the runs show what each of them is worth.

**Properties.** With `quiet`: `StopReturns`, `AllStopped`, `AcceptedIsWritten`, `NoPanic`.
`AllStopped` has two halves. `ThreadsStopped`, that the goroutines FrameworkStart, Start and the
writer started have returned and no mutex is held, is proved of `returned` as well. That none of
UpdateConfig's goroutines (manager.go:207) is still to send needs `quiet`, for FrameworkStop waits
for none of them; and one that read a nil `configIn`, before Start had made it, is there for ever
whatever the program does. At any time: `MeasurementsConserved` (an accepted measurement is in one
place), `FlushHasReader` (the last report never waits, with the registry locked, for a writer that
has gone), `ClosedAfterUse` (channels are closed when their users in the manager have returned),
`CallHasWayOut` (a collector call is not left waiting for a listener that takes nothing more: the
collector is dead, or the goroutine that stops it is about to) and `ConfigApplied`: when no
goroutine of UpdateConfig is under way the forwarder has the configuration in force. For calls of
which each was made after the goroutine of the one before had ended that is the last; of calls that
overlap it may be any, for their goroutines reach the forwarder in any order (`InForce`).

## Heartbeats

**State.** A call of `HeartBeat` and the goroutine it leaves behind have one name: `hb` is where the
call is, `old` the tracker it has loaded, `gr` where the goroutine is, `ticker` the pace of its
ticker, `cancelled` the calls whose context is done. `trackers` is the `sync.Map`, `duration` the
collector's `cycleDuration`. `upd`, `toVisit`, `visited` are the calls of `UpdateCycleDuration` and
their `Range`.

**Actions.** One per atomic operation on the map and per point at which a goroutine can block:
`Load`, `StopOld`, `DeleteOld`, `Spawn` of a call; `NewTicker`, which reads the duration, `Store`,
`Tick`, `Beat`, which the listener takes, `Leave`, and the deferred `StopTicker` and `Delete` of a
goroutine; `SetDuration`, `Visit` per key and `Reset` of an update. The program cancels a heartbeat
when it likes. The listener may be gone before `done` is closed, as in the framework.

**What the program keeps to.** `discipline` is chosen at the start: with `any` it calls when it
likes; with `settled` it calls `HeartBeat` for a component when the goroutines of the calls before
are in their loop, or have ended if they were cancelled; with `spaced` when they have ended, and
`UpdateCycleDuration` when no other call of it is under way. It need not know where goroutines are:
an update may fall between a goroutine's reading the duration and its storing the tracker
(collector.go:115-121). `UpdatesOf` gives the updates a program of each discipline makes. The
history variable `overlooked` has the goroutines that a `Range` passed in that window with an older
pace, until a later one resets them.

**Properties.** Of every program: `TrackersAlive`, a tracker in the map is that of a goroutine of
its component that has not ended, though the deferred `Delete` of one goroutine may take out the
tracker of another; `EndsWhenTold`, a goroutine that was cancelled or whose collector was stopped
ends, also one that waits with a beat nobody takes. Of a spaced one: `SpacedIsOne`, one goroutine
per component and its tracker in the map, and `PaceInForce`: between updates all are at the duration
in force but those overlooked, and these only until an update finds them.
`OneHeartbeat` is the first half for all programs: finding 3.

## Metric registration

**State.** `cache` is the `ttlcache` of metric ids: id and metadata hash by cache key. `call` has
the locals of one `ConvertMetrics` call per goroutine: the batch, the compact metrics so far, the
`misses`, the ids got, the `FailedRegistrationContext` indices and the metrics given back as failed.
A metric is its cache key and its metadata; `Hash` leaves `ExcludedTags` out, as `GetMetadataHash`
does, and is otherwise injective (the code's is a 64-bit murmur hash of a concatenation). Timestamp
and value stand for themselves as the position in the batch.

**Actions.** `CheckNext` per metric of the batch (each `cache.Get` locks the cache by itself),
`EndCheck`, then the request for all misses: `Registered` when it is answered, with an error for any
of the metrics, or `CallFails`, which tries again until `NumberOfRetries` or ends the request, as
`backoff.Retry` does when its context ends. The failed part goes into a second request, `Retried` or
`CallFails` again, after which `Fill` hands out one result at a time and sets the cache. `Expire`
removes any entry at any time. The data registry is external; `acked` remembers which metadata it
has acknowledged for which id.

**Properties.** `ConvertCorrect`: what a call returns partitions its batch, in order, and every
compact metric has its own id: positions of the retry's answers are positions of its own request,
not of the first one. `CompactWasRegistered`: metadata is left out only when the registry has
acknowledged it for that id, whoever filled the cache. `NoAckForgotten`: a second request that fails
as a whole takes nothing from the first. `ConvertReturns`.

## The endpoint

**State.** `current` and `bundles` are the five bundlers: the bundle being filled, and the full ones
with whether a handler has them. `tracker` is the map of `ttl.Tracker` with ages in ticks. `call` is
what a Put call has still to do and what it will record. `flush` is the bundler a call of `Flush` is
at. `owed` is, per kind, received - failed - sent as recorded in the statistics, with models held
back left out: the code counts them as received and never as anything else.

**Actions.** A Put call handles one item at a time: `HoldBack` or `LetThrough` a model, which marks
it in the same step (`IsAlive` holds the tracker's lock), then `Add` or `AddRefused`, and `EndPut`
records. Goroutines of a bundler `BeginSend` and `EndSend`; a send fails as a whole or for any
number of its items. `Flush` goes through the bundlers in the order `FlushOrder`, a constant that
also says which bundlers there are. `Clock` and `AgeAll` are the ticker.
`google.golang.org/api/support/bundler` is external: it is modelled as `createBundler` configures it
and as the calls with size 1 use it.

**Properties.** `Accounted`: at every point, what the statistics owe is exactly what is buffered,
though the send of an item may be recorded before the Put call that accepted it. `WithinLimits`
counts items, as the code does: every item is added with size 1 (endpoint.go:668).
`FlushWaits` and `FlushReturns`: Flush waits for all that was accepted before it was called, of
every kind, and not for what comes after. `StatisticsSettle`: when the program puts no more, all it
put is in the end counted as failed or as sent, without a Flush and however small the last bundle.
`ModelIsRepeated`: a model put for ever is
let through for ever, for being held back does not renew its entry.

## Data receivers

**State.** A network of nodes, each with a `Role`: proxy, splitter, processor, endpoint, and for the
health framework writer, log destination and Zenoss destination. `heap` holds the items of the
request: metrics of all kinds, models, events, reports. They are objects that are handed on by
pointer, and so are the lists in their fields, which a model made by `create-model` shares with its
metric: of a list only the length matters. `stack` has a frame per call under way: what it has yet
to do (calls, items to process, rules, actions), and what it has counted. `allowed` and `output` are
the fields of the proxy that requests read, `setting` what `SetConfig` has yet to write of them.
`offers` keeps what endpoints were given, with what they read, and what became of it; `begun` and
`stopped` the items each processor took up, and those a rule ended.

**Actions.** `Receive` a request, of which there is one at a time: requests share nothing but what
`SetConfig` writes. `CheckAPIKey`, then `LookUpAPIKey` per key, reads the allowed keys anew each
time, as `checkAPIKey` does. `CallOutput`, `CallUnimplemented`, `CallEndpoint` (an error, or any
number of items taken, and of models any number held back) and `Return` are the calls of
`PutMetrics`, `PutModels` and `PutEvents`. A model held back is in no count of the answer
(endpoint.go:810-813); `held`, in frames and in the answer, is a ghost count of them.
`TakeItem`, `ApplyRule`, `FailAction`, `Signal`, `Change`, `Panic` and `Create` are the processor: a
rule that applies puts its actions, then its own rules, in front of what is left. `Panic` is the
write to the nil `Fields` map of an item that came without one (`bare`, actionType.go:169), which
ends the request. `ConvertMetrics` is the
destination with compact metrics. `SetConfig` writes its two fields in either order, between any two
steps of the request.

**Constants.** A network is any one in which nothing is before itself (`NetworkAssumption`: a
receiver is made with its outputs). `Rules` and `Actions` are all there are, rules within rules
included (`RulesAssumption`); a request names a node a program can call, with items whose lists are
its own or those of an item before (`RequestsAssumption`); each Zenoss destination has an endpoint
of its own (`DestinationsAssumption`: zcDestination.go:25 makes one). That a splitter reaches no
endpoint by two of its outputs, that a request lists no item twice and that a writer has no
destination twice is not assumed, for the code lets a program do otherwise: `OnePath`,
`DistinctItems` and `DestinationsOnce` name it for the theorems that need it, and `MCDataReceivers`
asserts them of its instances. `Worth` is what an item counts for at a
node, by kind: a processor answers for the items it processes, and passes on the answer for compact
metrics.

**Data.** A rule's match tells names, keys that must be there, values that must be strings, and
`blanks`: empty patterns, which match a list, whose string value is "" (match.go:170). Of a template
only the variables matter that it fails without. The dimensions of an item go with its name.

**Properties.** `AnswerAccounts`: failed, succeeded and the models held back are together every item
once for every output it was for, through splitters of splitters; without processors succeeded is
what endpoints took, and what is missing from the sum is what they held back. A caller who adds up
the two counts of the answer alone falls short by that.
`ErrorsReachCaller`: an error of an endpoint is in the answer, from whatever depth of rules and from
the models that a metric made. `EndsOnce`: a drop, a send or an error ends the rules of its item and
no others; what nothing ended goes to all outputs, once. `FieldsKept`: items change in place and
outputs share them, but no endpoint gets less of a field than came in. `Admission`: a request is let
through only if some key set in force while it was checked allows it, and one refused has reached no
output. `HealthSentOnce`: each Zenoss destination sends each measure of a report once, compact or
canonical, whichever destination before it failed. `RequestAnswered`: each request is answered, or
ends in the panic above.

## Runs

Passing runs:

| run | instance | shows |
|---|---|---|
| `ManagerReports` | a and b impact t, t impacts u; u comes to impact t; registered, re-registered and t deleted, before, during and after `Start`; a priority; two target health functions | `TypeOK RegistryInv CycleInv NoRegistrationLost ImpactBeforeTarget ImplementsHealthReport CycleEnds` |
| `ManagerLedger` | three components, one a target that AddComponents makes, measurements of every type, measures and a component registered on collect, limits of 3 measures and 2 components, the configuration switched, `Int32Half` 2 | `MeasuresInv LimitInv EveryMeasurementReportedOnce` |
| `FrameworkQuiet` | a collector call, an AddComponents, an UpdateConfig and a stop, `quiet` | `AllStopped AcceptedIsWritten NoPanic StopReturns` |
| `FrameworkAnyTime` | two collector calls, an AddComponents, two UpdateConfig, overlapping or not, the context cancelled, a stop at any time | `FlushHasReader MeasurementsConserved ClosedAfterUse CallHasWayOut ConfigApplied` |
| `Heartbeat` | two heartbeats of one component, cancels, the stop; an update with discipline `any`, two with `spaced`, the second taking back what the first sets | `TrackersAlive SpacedIsOne PaceInForce EndsWhenTold` |
| `Registration` | two goroutines, two keys; one batch has a key twice with its metadata changed, the other an excluded tag changed; two tries | `ConvertCorrect CompactWasRegistered NoAckForgotten ConvertReturns` |
| `Endpoint` | two goroutines, one model and events over and over, bundles of two, two items buffered per kind, one handler | `Accounted WithinLimits FlushWaits FlushReturns StatisticsSettle ModelIsRepeated` |
| `Receivers` | a proxy before a splitter or an endpoint, processors before and behind the splitter, three sets of rules, models held back, a metric without fields; a writer with a log and two Zenoss destinations | `AnswerAccounts ErrorsReachCaller EndsOnce FieldsKept Admission HealthSentOnce RequestAnswered` |

Runs that refute what the repository says: `ClaimStopReturns`, `ClaimModelWasSent`,
`ClaimOneHeartbeat`, `ClaimFailuresAreCounted`, each under [findings](#findings).

**Bounds.** `MaxPerCycle` caps the measurements between two reports; two, in `ManagerLedger`, are
enough for every pair of measurements, in both orders, and a third adds no new kind of interaction
to accumulators that are folds; in `ManagerReports`, where a report is compared as a whole, one is
enough, for a status stays. Four components reach the shapes the code tells apart: a leaf, a target
with several leaves, a target of a target, a cycle through two, an orphan. `Int32Half` 2 makes two
increments wrap. In `ManagerLedger` a call that adds one component with a target nobody registers
takes two places of a limit of two: the loop that makes targets (manager.go:275-288) runs, fills the
registry, and a further registration, by a call or on collect, is refused. In the framework one or
two calls of each kind are enough for each pair of goroutines to meet; each call is made once, and
goroutines of the framework do not come in numbers. `MaxUpdates` caps the calls of `UpdateConfig`:
one in `FrameworkQuiet`, and two in `FrameworkAnyTime`, so that goroutines of two calls meet. In
`Registration` a batch of three has a hit, a success and a failure at once, with the failures not a
prefix of the misses; two tries tell a retry from the last one; calls repeat without bound. In
`Endpoint` two items fill a bundle and a buffer, so that a bundle becomes full, the delay passes and
an item is refused, all while another call adds; `ModelTTL` 0 means that an entry expires at the
tick after it was made and lives until `AgeAll`; two of the five kinds are there, as bundlers have
nothing in common but the order of `Flush`. Two values of a model are in `ClaimModelWasSent`, with
all five kinds. Nothing is capped in either: buffers are bounded by the code's own limit. In
`Heartbeat` two calls are enough for one to take out what another has stored, with an update and the
stop between them, and two updates for one to find what the other overlooked; `ClaimOneHeartbeat`
takes three. In `Receivers` a request has one or two items, of one kind or two: enough for a partial
failure, for a rule that ends one item and not the next, for a splitter whose first output changes
what its second gets. The proxy's two configurations differ in both fields, and are switched any
number of times.

**Deadlock.** `CHECK_DEADLOCK FALSE` stands where the program may end: after a panic the Go program
is gone (`ManagerReports`, `ManagerLedger`, `FrameworkAnyTime`), in `FrameworkAnyTime` and
`ClaimStopReturns` the framework may also hang, which is finding 1, and in `Heartbeat` and
`ClaimOneHeartbeat` all calls may have been made and all goroutines have ended. The other runs check
for deadlock; in `FrameworkQuiet` the end of a stop is a self-loop (`Terminated`).

## Fairness

`HealthManager!Fairness` asks only that a cycle under way goes on: the forwarder's goroutine is
runnable, for the writer reads, and Go runs what is runnable. In `HealthFramework` each step of a
goroutine of the framework is fair. Strong fairness stands where a step waits for a mutex or is a
case of a select: a Go mutex is handed to a waiter in the end (starvation mode) and a select picks
among its ready cases at random. Calls of the program, the cancelling of its context and its
stopping the framework are not fair: it need not make them.

In `MetricRegistration` a call under way goes on: it runs in its caller's goroutine, and a request
is answered or fails in the end. In `Endpoint` Put calls under way, the delay of a bundler, its
handlers, whose sends end within `config.Timeout`, a call of Flush, and the tracker's ticker go on;
nobody has to call Put or Flush. In `HealthHeartbeat` a goroutine goes on, and a select that finds a
case ready again and again takes it in the end (strong fairness of `Beat` and `Leave`);
FrameworkStart's goroutine closes `done` once the framework has been stopped. Ticks, cancels and the
stop are not fair. In `DataReceivers` the goroutine that serves a request goes on, whatever
`SetConfig` does meanwhile: its loops are over the request's own keys and items.

## Proofs

`HealthManagerProofs`, for every value of the constants that satisfies `HealthComponentAssumption`
and `HealthManagerAssumption`:

| theorem | statement |
|---|---|
| `TypeCorrect` | `Spec => []TypeOK` |
| `RegistryCorrect` | `Spec => []RegistryInv` |
| `CycleCorrect` | `Spec => [](CycleInv /\ StackInv)` |
| `ImpactFirst` | `Spec => ImpactBeforeTarget` |
| `AllAnnounced` | `Spec => []NoRegistrationLost`, when nothing registers on collect |
| `ComponentsWithinLimit` | `Spec => []LimitInv`, under `TargetsStay` |
| `MeasuresStaySound` | `Spec => []MeasuresInv`, under `MeasuresAreFinite` |

All rest on `CustomsReturnStatuses`: a custom `TargetHealthFn` returns a health status (Go's type
allows any integer). `AllAnnounced` also assumes `NeverOnCollect`; without it the theorem is false:
a component registered on collect is not announced. `TargetsStay`: no component is deleted by name
that another may have as its target; without it `LimitInv` is false, see the findings.
`MeasuresAreFinite`: finitely many measure ids, and a limit of at least one.

The inductive invariant is `IInv == TypeOK /\ RegistryInv /\ CycleInv /\ StackInv` (`Invariance`).
`ImpactBeforeTarget` is not inductive as it stands: when a target is pushed, that all which impacts
it has been pushed follows from where the ranges of the calls under way have got to, and that takes
`StackInv` (what has left a call's range has been pushed, or is the next call of the stack), which
in turn takes `CycleInv` (what has left the first range is pushed, or is a target with an entry in
both halves of `targetsInfo`) and `RegistryInv` (the target of a registered component is known as a
target, so it is never pushed in the first range). The proof that a step keeps `IInv` has a lemma
per handler; the lemmas about operators (`PutIsMap`, `UpdatedMetricType`, ...) say what each keeps
of a raw health.

`LimitInv` counts what is registered; the invariant `ExpectedInv` counts what will be once the call
of `AddComponents` under way has ended (what is registered, the targets known, and what the rest of
the call names), which the check at the start of the call was made for. `SoundInv` says of each raw
health what `MeasuresInv` says, and of the components a call has yet to register that they are
within the limit.

Of what is reported, in the same module and with `CustomsReturnStatuses`:

| theorem | statement |
|---|---|
| `ReportsImplementHealthReport` | `ReportsSpec => ImplementsHealthReport` |
| `LedgerIsReported` | `LedgerSpec => EveryMeasurementReportedOnce` |

`EndCycle` is `Publish`, the two panics are `Panic`, every other step is `Change`, and most of those
are stutters. What it takes is `ReportsInv`, which relates a cycle under way to the registry it
began with, the history variable `before`. `MomentInv`: a raw health is what it was, cleaned if it
has been calculated, and the health function is one of those in force meanwhile. `OnceInv` and
`OwnInv`: nothing is pushed twice, and what a target has in `ownHealth` is calculated of its
beginning. `ToldInv`: the impacts a target has been told of are those of the components pushed that
impact it, counted by status and priority, as a set and not as the sum of increments in some order.
`ReportInv`: what is published of a target is the health that all of those give, with one function.
`ChainInv`: the targets pushed or being built are `Rooted`, each below the one it impacts, so a call
of the recursion never comes to a target twice. At `EndCycle` the outermost range is done: a target
that impacts nothing has been pushed (`StackInv`), and one that was pushed was told of all that
impact it (`ReportInv`), so what was pushed is a closed set and holds every target that is `Rooted`;
by `ChainInv` no other was pushed. `RangePanics` shows that `HealthReport` is `Broken`: a target
with impacts and no health of its own has been told by a component that is not a target (`ToldInv`),
and is not registered.

`LedgerIsReported` compares accumulators with a history of the measurements themselves. `LedgerInv`
says of every raw health that it is what its ledger makes of what was carried over: the values of a
metric are those measured, in their order (`MatchesMeasure`), a counter is the sum of its changes
wrapped around, a total counter that sum on top of the total carried, and status, heartbeat and
messages are those of the entries that set them (`Matches`). With `IInv` it is inductive: one more
measurement changes a raw health and what its ledger says alike (`RecordKeeps`), a cycle that
calculates a health begins its ledger anew (`CleanMatches`), and a registration keeps a raw health
with its ledger or makes both anew (`SettleKeeps`). What the definitions compute over sequences is
proved for every length: sums, extremes and flattened sequences by `NatSetInduction` on the set of
lengths at which they are what they should be (`SumOfMore`, `ExtremesExist`, `ChosenMore`). The code
wraps a counter at each increment and the property wraps it once, at the end: `WrapAgain` says that
the two agree, for any `Int32Half`.

`MetricRegistrationProofs`, for every value of the constants that satisfies
`MetricRegistrationAssumption` (any number of goroutines, metrics, batches and tries):

| theorem | statement |
|---|---|
| `RegistrationTypeCorrect` | `Spec => []TypeOK` |
| `ConversionCorrect` | `Spec => []ConvertCorrect` |
| `CompactsAreRegistered` | `Spec => []CompactWasRegistered` |
| `AcksAreKept` | `Spec => []NoAckForgotten` |

They follow from one `Invariance` as well. None is inductive as it stands: `ConvertCorrect` speaks
of calls that have returned, so the invariant says for each value of `pc` how far the results have
got (which positions are in which result, that `misses` is the increasing rest, that an id in `ids`
is that of its own miss, that `failed` are exactly the indices without one), and
`CompactWasRegistered` needs that every cache entry, and every id not handed out yet, has been
acknowledged with its hash.

`HealthFrameworkProofs`, for any number of components, calls and updates and any discipline:

| theorem | statement | assumes |
|---|---|---|
| `FrameworkTypeCorrect` | `Spec => []TypeOK` | |
| `FlushIsRead` | `Spec => []FlushHasReader` | |
| `ClosingIsLast` | `Spec => []ClosedAfterUse` | |
| `CallsGetOut` | `Spec => []CallHasWayOut` | |
| `NothingIsLost` | `Spec => []MeasurementsConserved` | `AddsNew`: no component is registered anew |
| `UpdatesApply` | `Spec => []ConfigApplied` | |
| `StopEndsThreads` | `Spec => []ThreadsStopped` | discipline `returned` or `quiet` |
| `StopIsComplete` | `Spec => []AllStopped` | `quiet` |
| `QuietStopIsSafe` | `Spec => []NoPanic` | `quiet` |
| `QuietStopReportsAll` | `Spec => []AcceptedIsWritten` | `quiet`, `AddsNew`, the context not cancelled |

`IInv` is `Lifecycle /\ ReturnedInv /\ QuietInv`. `Lifecycle` says, of every program, what each
place in the code implies for the other goroutines: `StartInv` what exists at which step of `Start`;
`OrderInv` the order of the ends (the writer after the forwarder after the listener) and what is
closed by when; `StopInv` how far a stop has come; `LockInv` who holds which mutex where.
`ReturnedInv` and `QuietInv` add what a disciplined program may rely on. `HeldInv`, `ReportInv` and
`ConfigInv` are about the data: a measurement is held only while the listener is at it, the last
report begins when all of them are in the registry, and of the updates that none was called after,
one is on its way or the forwarder has applied it; those called before have ended.

`HealthHeartbeatProofs`, for any number of components, heartbeats and updates:

| theorem | statement |
|---|---|
| `HeartbeatTypeCorrect` | `Spec => []TypeOK` |
| `TrackersCorrect` | `Spec => []TrackersAlive` |
| `SpacedCorrect` | `Spec => []SpacedIsOne` |
| `PaceCorrect` | `Spec => []PaceInForce` |

The invariant adds to them how a call and its goroutine go together (a goroutine runs only after its
call has spawned it; what a call has loaded is another call's), and, for a spaced program, that an
update has yet to visit, or is resetting, whatever heartbeat is not at the duration in force and not
overlooked.

`EndpointProofs`, for any bundlers in any order, any number of callers, and any limits (counts of
items, in the model as in the code):

| theorem | statement |
|---|---|
| `EndpointTypeCorrect` | `Spec => []TypeOK` |
| `FlushWaitsForAll` | `Spec => FlushWaits` |
| `EndpointWithinLimits` | `Spec => []WithinLimits` |
| `EndpointAccounted` | `Spec => []Accounted` |

`FlushWaits` compares the end of a call of `Flush` with its beginning; `FlushInv` says in between:
of the bundlers `Flush` is through with nothing is left that was there at the beginning, of the one
it is at it waits for at least what is left of it, and those it has not come to still have theirs,
behind which nothing newer can get.

`WithinLimits` is inductive with the types. For `Accounted`, `AccountedAt` says of one bundler that
what is owed and what the calls under way have put and not recorded are together what it keeps: a
step moves an item between at most two of these, of one call.

`DataReceiversProofs`, for any network, rules, configurations and requests:

| theorem | statement | assumes |
|---|---|---|
| `ReceiversTypeCorrect` | `Spec => []TypeOK` | |
| `ReceiversAdmission` | `Spec => []Admission` | |
| `ReceiversKeepFields` | `Spec => []FieldsKept` | |
| `ReceiversAnswerAccounts` | `Spec => []AnswerAccounts` | |
| `ReceiversErrorsReachCaller` | `Spec => []ErrorsReachCaller` | |
| `ReceiversEndOnce` (`DataReceiversOnceProofs`) | `Spec => []EndsOnce` | `OnePath`, `DistinctItems` |
| `ReceiversSendHealthOnce` (`DataReceiversOnceProofs`) | `Spec => []HealthSentOnce` | `DestinationsOnce` |

Types are not inductive by themselves. `Shape` adds which tasks a frame of each kind of node may
have, that the heap is one (lists are those of the item or of one before it), and that each call on
the stack is in the middle of what the one below it has next (`Linked`); `TypeInv` is both.
`AdmissionInv`: the keys allowed now are among those in force since the request came, and while keys
are looked up nothing has been offered. `KeptInv`: the heap has, at each field, at least what the
request came with. `DueInv` keeps the books of a stack of any depth: what a frame has counted and
its agenda will count (`Balance`) is what the call that made it is worth (`Chain`), and the books of
the bottom frame (`Base`) are what the answer must account for; a proxy, whose output may change
between two of its calls, owes what it has called so far. `TakenInv` and `BegunInv`: as long as no
processor has begun with an item, what the frames have counted as succeeded is what endpoints took,
and what they have as held is what endpoints held back.
`ErrorsInv`: an error of an endpoint is `Held` by a frame on the stack that fails and from which
that endpoint can be reached, until it is in the answer.

`OnceInv` follows an item on its way to an endpoint. Its `Spots` are the places from which it comes
there: the entries of a frame's agenda that will bring it, and the offers made of it. There is at
most one at any time (`Sole`), none once a rule has stopped the item at a processor before that
endpoint (`Barred`), and one from the moment a processor has begun with it, as long as none stops it
and no panic ends the request (`Promised`). Each step of a processor, splitter or proxy takes an
item from one spot to the next. The hypotheses are what makes this so: where a splitter reaches an
endpoint by two outputs, an item comes to it twice by design, and a drop on one branch does not end
it on the other.

`ReportInv` is about the writer's loop: the endpoint of a Zenoss destination has been given each
measure of the report once if the writer is through with that destination, and none before; what
the destination has to do meanwhile is with one metric of every measure, compact or canonical.

Sums over sequences are `Total`: the cardinality of a set of pairs. Its lemmas in `TotalsProofs`
(the total of a tail, of an append, of a function changed at one place) follow from the library's
facts on finite sets, with `NatSetInduction` where a fact is about every length.

`HealthManager.TypeOK` is also a property of a run; the types of the other modules are proved and
their runs leave them out.

Only model-checked: liveness (`CycleEnds`, `StopReturns`, `ConvertReturns`, `FlushReturns`,
`StatisticsSettle`, `ModelIsRepeated`, `EndsWhenTold`, `RequestAnswered`), for it needs fairness.
Every invariant and every action property of a passing run is a theorem.

## Findings

Each of the following runs refutes what a doc or a comment says of the program.

1. `ClaimStopReturns`: manager.go:32, "FrameworkStop synchronously terminates all framework
   subprocesses". `Shutdown` waits for the listener with `hm.mu` held, and the listener takes
   `hm.mu` for the measurement it has just received: deadlock, though every call of the program had
   returned.
2. `ClaimModelWasSent`: endpoint.go:811, of a model held back, "We've sent this exact model within
   the last ModelTTL." The tracker marks a model before the bundler has taken it: one that a full
   bundler refuses is reported as failed, and held back, with success, when it is put again. A model
   whose send fails is held back likewise.
3. `ClaimOneHeartbeat`: collector.go:21, "HeartBeat runs a new goroutine that sends heartbeat data
   once per collection cycle"; collector_test.go:45, "should restart active heartbeat goroutine for
   existing component". The goroutine that HeartBeat cancels deletes its component's key when it
   ends (collector.go:124), by which time the key may hold its successor's tracker: a third call
   then finds none, and two goroutines go on.
4. `ClaimFailuresAreCounted`: stats.go:34, "FailedMetrics is the number of metrics unsuccessfully
   sent". A processor looks at the error of its output alone (processor.go:262): what the output
   answers as failed counts as succeeded.

The models show more of the kind, without a run of their own. `AcceptedIsWritten` fails with
`Discipline` `returned`, against manager.go:94, "Make sure to close measureOut before manager
shutdown to not lose any data": a measurement whose call had returned is lost when the listener
stores it after the last report (manager.go:508). A target named in `DeleteComponents` is deleted,
against manager.go:310, "targets that have impacting components left should not be deleted" (the
test is at manager.go:306), and the next cycle dereferences nil. `NoPanic` of HealthFramework fails
with `Discipline` `none` (FrameworkStop before `Start` has made `stopSig`, manager.go:238) and
`started` or `returned` (AddComponents or the goroutine of UpdateConfig sends on a channel
`Shutdown` has closed, manager.go:270 and 208); of two calls of UpdateConfig that overlap the
earlier may be the one in force, for their goroutines reach the forwarder in either order
(manager.go:207); a goroutine of UpdateConfig outlives FrameworkStop when it read a nil `configIn`;
a heartbeat overlooked by `UpdateCycleDuration` keeps its old pace (collector.go:115-121, 161);
`LimitInv` fails when a target deleted by name is made anew (manager.go:283); `NoRegistrationLost`
fails with registration on collect (manager.go:397); `CollectPanics` is reachable for a target that
AddComponents made (manager.go:437). A target whose own target was deleted, or that is in a cycle of
targets, is never sent, though manager.go:10 says the manager "calculates every component health
once per cycle and sends calculated data to writer". Two degraded components of two do not make a
target unhealthy (manager.go:701, which begins at three), which health/README.md:15 says of "half or
more". A target keeps its heartbeat when the one component that had one is deleted (manager.go:336),
against health/README.md:18.

Of the endpoint, from reading and from a variant of the model: the cached hash may differ from what
the registry has, after a request whose answer was lost or two calls that registered one key with
different metadata, and later hits are then on metadata the registry has replaced (endpoint.go:467);
`BundlerConfig.BundleByteThreshold` is documented and never applied (endpoint.go:174, 357-385), and
the limits in bytes count items, for every item is added with size 1; two calls of `PutModels` with
different values of one model may send them in the other order than the tracker marked them;
`rand.Intn` panics when `MinTTL` and `MaxTTL` are the same (endpoint.go:232).

Of the receivers: `checkAPIKey` reads the allowed keys twice (proxy.go:296 and 312), so that a
request may be refused though no key is asked for any more; outputs of a splitter are given the same
objects, and what a processor appends to one in place is in what the next output gets
(actionType.go:162); appending to a field of an item that has no `Fields` map panics
(actionType.go:169); a model held back is in neither count of an answer (endpoint.go:810-813), so
that the two do not add up to the request, at the endpoint or at any receiver before it.

## Not modelled

One framework per program: `Start` called twice on a manager, a second FrameworkStop and the
collector singleton of a second framework (collector.go:50) are left out. The `Metrics` map that
several components may share when the program passes the same map to them. Of the endpoint: `New`,
its defaults and dialling, the streaming calls, which answer "unimplemented", the counters of
registrations, backoff times, the capacity of the cache (an entry may go at any time), and what the
data registry holds in the order it stored it (endpoint.go:510), which the SDK cannot know. Of the
receivers: the lists of failed items in a detailed response, which go with the counts, templates and
dimensions beyond what a match or an action tells apart, several requests at once, which share no
more than the fields of the proxy.

`src/metadata` and `src/tag` convert maps, `src/log` and `src/health/log` write log lines,
`src/stats` declares measures and views: they keep no state others wait on. `src/health/mocks` is
generated, `src/example` and `src/integration` are programs that use the SDK.

## Plan

1. A second framework in the program: the singleton of the collector replaced while the first one
   stops.
2. `DataReceivers` with the buffers of `Endpoint` behind it: models that a processor creates again
   and again are held back by the tracker of the endpoint behind.
