--------------------------- MODULE HealthFramework ---------------------------
(***************************************************************************)
(* The life of the health framework as FrameworkStart starts it and the    *)
(* function it returns (FrameworkStop) ends it: the goroutines of          *)
(* FrameworkStart, of the manager and of the writer, the mutex of the      *)
(* manager (hm.mu) and of the registry, the channels between them, and the *)
(* program around: goroutines that call the collector, AddComponents and   *)
(* UpdateConfig, and one that calls FrameworkStop.                         *)
(*                                                                         *)
(* Channels are unbuffered: a send and its receive are one joint action.   *)
(* Sending on or closing a closed channel, and closing a nil one, panics,  *)
(* which ends the program.  What a cycle calculates is HealthManager's     *)
(* subject: here a measurement is the call that sent it, "pending" once    *)
(* the registry has it and "written" once the writer was handed the health *)
(* that accounts for it.                                                   *)
(***************************************************************************)
EXTENDS Naturals, Sequences, FiniteSets, SequencesExt

CONSTANTS
    Components,     \* IDs of components
    Before,         \* those registered before FrameworkStart
    Callers,        \* calls of the collector, one measurement each
    Adders,         \* calls of AddComponents
    MeasureOf,      \* the component a call measures
    AddOf,          \* the component a call adds
    Durations,      \* cycle durations given to UpdateConfig
    FirstDuration,  \* the one of the first configuration
    MaxUpdates,     \* bound: calls of UpdateConfig
    MayCancel,      \* the context given to FrameworkStart may be cancelled
    Discipline      \* when the program calls FrameworkStop

(* "none": at any time.  "started": once Start is through.  "returned": in addition when every *)
(* call of its own has returned, and it makes none afterwards.  "quiet": in addition when no    *)
(* goroutine of the framework is left with what those calls asked for.                          *)
Disciplines == {"none", "started", "returned", "quiet"}

ASSUME HealthFrameworkAssumption ==
    /\ Before \subseteq Components
    /\ MeasureOf \in [Callers -> Components]
    /\ AddOf \in [Adders -> Components]
    /\ FirstDuration \in Durations
    /\ MaxUpdates \in Nat
    /\ MayCancel \in BOOLEAN
    /\ Discipline \in Disciplines

Threads == {"stopper", "mgr", "writer", "listener", "forwarder", "waiter", "app"}

VARIABLES
    pc,             \* where each goroutine is
    call,           \* state of each collector call: idle, sending, ok, refused
    add,            \* state of each AddComponents call: idle, locking, sending, returned
    cancelled,      \* the context of FrameworkStart is done
    collectorDone,  \* channel done of the collector is closed
    stopSig,        \* channel of the manager: nil until Start, open, closed
    stopWait,       \* channel of the manager is closed
    writerStop,     \* channel of the writer is closed
    closed,         \* which of healthCh, componentCh, configCh are closed
    started,        \* hm.started
    mu,             \* holder of hm.mu
    reg,            \* holder of the registry mutex
    registered,     \* registry: components
    pending,        \* registry: measurements not reported yet
    written,        \* measurements in the healths the writer received
    held,           \* the measurement the listener received and has not stored
    left,           \* what the holder of the registry mutex still has to send to the writer
    final,          \* the forwarder is at its last report
    config,         \* cycle duration of the configuration in force
    ticker,         \* cycle duration of the forwarder's ticker
    updates,        \* goroutines of UpdateConfig: duration, state, and (history) whether it was
                    \* called with no other one under way
    panicked        \* why the program died, or "no"

channels == <<cancelled, collectorDone, stopSig, stopWait, writerStop, closed>>
locks    == <<mu, reg>>
data     == <<registered, pending, written, held, left, final>>
configs  == <<config, ticker, updates>>
vars     == <<pc, call, add, channels, started, locks, data, configs, panicked>>

Init ==
    /\ pc = [t \in Threads |->
               CASE t = "stopper" -> "wait" [] t = "mgr" -> "setFields" [] t = "writer" -> "select"
                 [] t = "app" -> "running" [] OTHER -> "off"]
    /\ call = [c \in Callers |-> "idle"] /\ add = [a \in Adders |-> "idle"]
    /\ cancelled = FALSE /\ collectorDone = FALSE
    /\ stopSig = "nil" /\ stopWait = FALSE /\ writerStop = FALSE /\ closed = {}
    /\ started = FALSE
    /\ mu = "free" /\ reg = "free"
    /\ registered = Before
    /\ pending = {} /\ written = {} /\ held = {} /\ left = {} /\ final = FALSE
    /\ config = FirstDuration /\ ticker = FirstDuration /\ updates = << >>
    /\ panicked = "no"

(* Thread t goes on from one label to another. *)
At(t, label) == panicked = "no" /\ pc[t] = label
Goto(t, label) == pc' = [pc EXCEPT ![t] = label]
Panic(why) == panicked' = why

-----------------------------------------------------------------------------
(* Goroutines of FrameworkStart *)

(* Bug: the collector is left as it is when the context is done. *)
StopperForgets ==
    /\ At("stopper", "wait") /\ cancelled
    /\ Goto("stopper", "done")
    /\ UNCHANGED <<call, add, channels, started, locks, data, configs, panicked>>

StopperStops ==
    /\ At("stopper", "wait") /\ cancelled
    /\ collectorDone' = TRUE
    /\ Goto("stopper", "done")
    /\ UNCHANGED <<call, add, cancelled, stopSig, stopWait, writerStop, closed, started, locks,
                   data, configs, panicked>>

(* Bug: stopSig is left nil. *)
SetFieldsNoStopSig ==
    /\ At("mgr", "setFields") /\ mu = "free"
    /\ Goto("mgr", "launch")
    /\ UNCHANGED <<call, add, channels, started, locks, data, configs, panicked>>

(* Start *)
SetFields ==
    /\ At("mgr", "setFields") /\ mu = "free"
    /\ stopSig' = "open"
    /\ Goto("mgr", "launch")
    /\ UNCHANGED <<call, add, cancelled, collectorDone, stopWait, writerStop, closed, started,
                   locks, data, configs, panicked>>

(* Bug: the ticker takes the configuration the manager was made with. *)
LaunchWithFirst ==
    /\ At("mgr", "launch")
    /\ pc' = [pc EXCEPT !["mgr"] = "store", !["listener"] = "select", !["forwarder"] = "select"]
    /\ ticker' = FirstDuration
    /\ UNCHANGED <<call, add, channels, started, locks, data, config, updates, panicked>>

(* NewTicker reads the configuration in force. *)
Launch ==
    /\ At("mgr", "launch")
    /\ pc' = [pc EXCEPT !["mgr"] = "store", !["listener"] = "select", !["forwarder"] = "select"]
    /\ ticker' = config
    /\ UNCHANGED <<call, add, channels, started, locks, data, config, updates, panicked>>

StoreStarted ==
    /\ At("mgr", "store")
    /\ started' = TRUE
    /\ pc' = [pc EXCEPT !["mgr"] = "infoLock", !["waiter"] = "wait"]
    /\ UNCHANGED <<call, add, channels, locks, data, configs, panicked>>

(* sendComponentsInfo *)
InfoLock ==
    /\ At("mgr", "infoLock") /\ reg = "free"
    /\ reg' = "mgr" /\ left' = registered
    /\ Goto("mgr", "info")
    /\ UNCHANGED <<call, add, channels, started, mu, registered, pending, written, held, final,
                   configs, panicked>>

InfoSend ==
    /\ At("mgr", "info") /\ pc["writer"] = "select" /\ "component" \notin closed
    /\ \E c \in left : left' = left \ {c}
    /\ Goto("writer", "busy")
    /\ UNCHANGED <<call, add, channels, started, locks, registered, pending, written, held, final,
                   configs, panicked>>

InfoPanics ==
    /\ At("mgr", "info") /\ left # {} /\ "component" \in closed
    /\ Panic("send on closed componentIn")
    /\ UNCHANGED <<pc, call, add, channels, started, locks, data, configs>>

InfoEnd ==
    /\ At("mgr", "info") /\ left = {}
    /\ reg' = "free"
    /\ Goto("mgr", "waitDone")
    /\ UNCHANGED <<call, add, channels, started, mu, data, configs, panicked>>

ManagerDone ==
    /\ At("mgr", "waitDone") /\ stopWait
    /\ cancelled' = TRUE
    /\ Goto("mgr", "done")
    /\ UNCHANGED <<call, add, collectorDone, stopSig, stopWait, writerStop, closed, started, locks,
                   data, configs, panicked>>

(* The goroutine Start leaves to wait for the listener and the forwarder. *)
(* Bug: the waiter waits for the manager, which waits for it. *)
WaiterWaitsForManager ==
    /\ At("waiter", "wait") /\ pc["listener"] = "done" /\ pc["forwarder"] = "done"
    /\ pc["mgr"] = "done"
    /\ started' = FALSE
    /\ Goto("waiter", "close")
    /\ UNCHANGED <<call, add, channels, locks, data, configs, panicked>>

WaiterClears ==
    /\ At("waiter", "wait") /\ pc["listener"] = "done" /\ pc["forwarder"] = "done"
    /\ started' = FALSE
    /\ Goto("waiter", "close")
    /\ UNCHANGED <<call, add, channels, locks, data, configs, panicked>>

WaiterCloses ==
    /\ At("waiter", "close")
    /\ stopWait' = TRUE
    /\ Goto("waiter", "done")
    /\ UNCHANGED <<call, add, cancelled, collectorDone, stopSig, writerStop, closed, started, locks,
                   data, configs, panicked>>

-----------------------------------------------------------------------------
(* writer.Start: a destination is called for every health and component received *)

WriterWrites ==
    /\ At("writer", "busy")
    /\ Goto("writer", "select")
    /\ UNCHANGED <<call, add, channels, started, locks, data, configs, panicked>>

(* Bug: the writer returns as soon as its context is done. *)
WriterReturnsOnCancel ==
    /\ At("writer", "select")
    /\ closed \cap {"health", "component"} # {} \/ writerStop \/ cancelled
    /\ cancelled' = TRUE
    /\ Goto("writer", "done")
    /\ UNCHANGED <<call, add, collectorDone, stopSig, stopWait, writerStop, closed, started, locks,
                   data, configs, panicked>>

WriterReturns ==
    /\ At("writer", "select")
    /\ closed \cap {"health", "component"} # {} \/ writerStop
    /\ cancelled' = TRUE
    /\ Goto("writer", "done")
    /\ UNCHANGED <<call, add, collectorDone, stopSig, stopWait, writerStop, closed, started, locks,
                   data, configs, panicked>>

-----------------------------------------------------------------------------
(* listenMeasurements *)

ListenerLock ==
    /\ At("listener", "lock") /\ mu = "free"
    /\ mu' = "listener"
    /\ Goto("listener", "update")
    /\ UNCHANGED <<call, add, channels, started, reg, data, configs, panicked>>

(* updateComponentHealthData: a measurement of a component nobody registered is dropped. *)
ListenerUpdate ==
    /\ At("listener", "update") /\ reg = "free"
    /\ pending' = pending \cup {c \in held : MeasureOf[c] \in registered}
    /\ held' = {}
    /\ mu' = "free"
    /\ Goto("listener", "select")
    /\ UNCHANGED <<call, add, channels, started, reg, registered, written, left, final, configs,
                   panicked>>

Stopping == cancelled \/ stopSig = "closed"

ListenerReturns ==
    /\ At("listener", "select") /\ Stopping
    /\ Goto("listener", "done")
    /\ UNCHANGED <<call, add, channels, started, locks, data, configs, panicked>>

-----------------------------------------------------------------------------
(* healthForwarder and writeHealthResult *)

Tick ==
    /\ At("forwarder", "select")
    /\ Goto("forwarder", "lock")
    /\ UNCHANGED <<call, add, channels, started, locks, data, configs, panicked>>

(* Bug: the forwarder returns without a last report. *)
LastTickWithoutReport ==
    /\ At("forwarder", "select") /\ Stopping
    /\ closed' = closed \cup {"health"}
    /\ Goto("forwarder", "done")
    /\ UNCHANGED <<call, add, cancelled, collectorDone, stopSig, stopWait, writerStop, started,
                   locks, data, configs, panicked>>

LastTick ==
    /\ At("forwarder", "select") /\ Stopping
    /\ final' = TRUE
    /\ Goto("forwarder", "lock")
    /\ UNCHANGED <<call, add, channels, started, locks, registered, pending, written, held, left,
                   configs, panicked>>

ForwarderLock ==
    /\ At("forwarder", "lock") /\ reg = "free"
    /\ reg' = "forwarder" /\ left' = registered
    /\ Goto("forwarder", "push")
    /\ UNCHANGED <<call, add, channels, started, mu, registered, pending, written, held, final,
                   configs, panicked>>

(* Bug: the first health sent clears what was measured of every component. *)
PushHealthClearsAll ==
    /\ At("forwarder", "push") /\ pc["writer"] = "select"
    /\ \E c \in left :
         /\ left' = left \ {c}
         /\ pending' = {}
         /\ written' = written \cup {m \in pending : MeasureOf[m] = c}
    /\ Goto("writer", "busy")
    /\ UNCHANGED <<call, add, channels, started, locks, registered, held, final, configs, panicked>>

PushHealth ==
    /\ At("forwarder", "push") /\ pc["writer"] = "select"
    /\ \E c \in left :
         LET reported == {m \in pending : MeasureOf[m] = c}
         IN  /\ left' = left \ {c}
             /\ pending' = pending \ reported
             /\ written' = written \cup reported
    /\ Goto("writer", "busy")
    /\ UNCHANGED <<call, add, channels, started, locks, registered, held, final, configs, panicked>>

PushEnd ==
    /\ At("forwarder", "push") /\ left = {}
    /\ reg' = "free"
    /\ closed' = IF final THEN closed \cup {"health"} ELSE closed
    /\ Goto("forwarder", IF final THEN "done" ELSE "select")
    /\ UNCHANGED <<call, add, cancelled, collectorDone, stopSig, stopWait, writerStop, started, mu,
                   data, configs, panicked>>

-----------------------------------------------------------------------------
(* The program: collector calls (AddToCounter and its like) *)

Running == panicked = "no" /\ (Discipline \in {"none", "started"} \/ pc["app"] = "running")

BeginCall(c) ==
    /\ Running /\ call[c] = "idle"
    /\ call' = [call EXCEPT ![c] = "sending"]
    /\ UNCHANGED <<pc, add, channels, started, locks, data, configs, panicked>>

Measure(c) ==
    /\ At("listener", "select") /\ call[c] = "sending"
    /\ call' = [call EXCEPT ![c] = "ok"]
    /\ held' = {c}
    /\ Goto("listener", "lock")
    /\ UNCHANGED <<add, channels, started, locks, registered, pending, written, left, final,
                   configs, panicked>>

DeadCollector(c) ==
    /\ panicked = "no" /\ call[c] = "sending" /\ collectorDone
    /\ call' = [call EXCEPT ![c] = "refused"]
    /\ UNCHANGED <<pc, add, channels, started, locks, data, configs, panicked>>

(* The program: AddComponents *)

BeginAdd(a) ==
    /\ Running /\ add[a] = "idle"
    /\ add' = [add EXCEPT ![a] = "locking"]
    /\ UNCHANGED <<pc, call, channels, started, locks, data, configs, panicked>>

(* A component registered anew starts afresh; it is announced only if the manager has started. *)
AddLock(a) ==
    /\ panicked = "no" /\ add[a] = "locking" /\ reg = "free"
    /\ registered' = registered \cup {AddOf[a]}
    /\ pending' = {m \in pending : MeasureOf[m] # AddOf[a]}
    /\ IF started THEN add' = [add EXCEPT ![a] = "sending"] /\ reg' = "add"
                  ELSE add' = [add EXCEPT ![a] = "returned"] /\ UNCHANGED reg
    /\ UNCHANGED <<pc, call, channels, started, mu, written, held, left, final, configs, panicked>>

AddSend(a) ==
    /\ At("writer", "select") /\ add[a] = "sending" /\ "component" \notin closed
    /\ add' = [add EXCEPT ![a] = "returned"]
    /\ reg' = "free"
    /\ Goto("writer", "busy")
    /\ UNCHANGED <<call, channels, started, mu, data, configs, panicked>>

AddPanics(a) ==
    /\ panicked = "no" /\ add[a] = "sending" /\ "component" \in closed
    /\ Panic("send on closed componentIn")
    /\ UNCHANGED <<pc, call, add, channels, started, locks, data, configs>>

-----------------------------------------------------------------------------
(* The program: UpdateConfig leaves a goroutine that sends on configIn *)

(* The goroutine has handed its configuration over, or blocks for ever. *)
Ended(k) == updates[k].state \in {"done", "stuck"}
UpdatesEnded == \A k \in DOMAIN updates : Ended(k)

UpdateConfig(d) ==
    /\ Running /\ Len(updates) < MaxUpdates /\ d # config
    /\ config' = d
    /\ updates' = Append(updates, [duration |-> d, state |-> "spawned", alone |-> UpdatesEnded])
    /\ UNCHANGED <<pc, call, add, channels, started, locks, data, ticker, panicked>>

(* The goroutine reads hm.configIn: nil before Start, and a send on nil blocks for ever. *)
UpdateReads(k) ==
    /\ panicked = "no" /\ updates[k].state = "spawned"
    /\ updates' = [updates EXCEPT ![k].state = IF stopSig = "nil" THEN "stuck" ELSE "sending"]
    /\ UNCHANGED <<pc, call, add, channels, started, locks, data, config, ticker, panicked>>

UpdateSend(k) ==
    /\ At("forwarder", "select") /\ updates[k].state = "sending" /\ "config" \notin closed
    /\ updates' = [updates EXCEPT ![k].state = "done"]
    /\ ticker' = updates[k].duration
    /\ UNCHANGED <<pc, call, add, channels, started, locks, data, config, panicked>>

UpdatePanics(k) ==
    /\ panicked = "no" /\ updates[k].state = "sending" /\ "config" \in closed
    /\ Panic("send on closed configIn")
    /\ UNCHANGED <<pc, call, add, channels, started, locks, data, configs>>

-----------------------------------------------------------------------------
(* The program: the context it gave FrameworkStart, and FrameworkStop *)

Cancel ==
    /\ panicked = "no" /\ MayCancel /\ ~cancelled
    /\ cancelled' = TRUE
    /\ UNCHANGED <<pc, call, add, collectorDone, stopSig, stopWait, writerStop, closed, started,
                   locks, data, configs, panicked>>

Returned ==
    /\ \A c \in Callers : call[c] # "sending"
    /\ \A a \in Adders : add[a] \notin {"locking", "sending"}

Quiet == pc["listener"] \in {"select", "done"} /\ UpdatesEnded

MayStop ==
    /\ Discipline # "none" => pc["mgr"] \in {"waitDone", "done"}
    /\ Discipline \in {"returned", "quiet"} => Returned
    /\ Discipline = "quiet" => Quiet

Stop ==
    /\ At("app", "running") /\ MayStop
    /\ cancelled' = TRUE
    /\ Goto("app", "stopCollector")
    /\ UNCHANGED <<call, add, collectorDone, stopSig, stopWait, writerStop, closed, started, locks,
                   data, configs, panicked>>

StopCollector ==
    /\ At("app", "stopCollector")
    /\ collectorDone' = TRUE
    /\ Goto("app", "shutdown")
    /\ UNCHANGED <<call, add, cancelled, stopSig, stopWait, writerStop, closed, started, locks,
                   data, configs, panicked>>

(* Manager.Shutdown: from here to ShutdownCloses hm.mu is held. *)
Shutdown ==
    /\ At("app", "shutdown") /\ mu = "free" /\ stopSig # "nil"
    /\ mu' = "app"
    /\ stopSig' = "closed"
    /\ Goto("app", "waitStop")
    /\ UNCHANGED <<call, add, cancelled, collectorDone, stopWait, writerStop, closed, started, reg,
                   data, configs, panicked>>

ShutdownPanics ==
    /\ At("app", "shutdown") /\ mu = "free" /\ stopSig = "nil"
    /\ Panic("close of nil stopSig")
    /\ UNCHANGED <<pc, call, add, channels, started, locks, data, configs>>

(* Bug: the channels are closed without waiting for the goroutines. *)
ShutdownClosesAtOnce ==
    /\ At("app", "waitStop")
    /\ closed' = closed \cup {"component", "config"}
    /\ mu' = "free"
    /\ Goto("app", "stopWriter")
    /\ UNCHANGED <<call, add, cancelled, collectorDone, stopSig, stopWait, writerStop, started, reg,
                   data, configs, panicked>>

ShutdownCloses ==
    /\ At("app", "waitStop") /\ stopWait
    /\ closed' = closed \cup {"component", "config"}
    /\ mu' = "free"
    /\ Goto("app", "stopWriter")
    /\ UNCHANGED <<call, add, cancelled, collectorDone, stopSig, stopWait, writerStop, started, reg,
                   data, configs, panicked>>

StopWriter ==
    /\ At("app", "stopWriter")
    /\ writerStop' = TRUE
    /\ Goto("app", "waitAll")
    /\ UNCHANGED <<call, add, cancelled, collectorDone, stopSig, stopWait, closed, started, locks,
                   data, configs, panicked>>

(* Bug: FrameworkStop waits for the writer only. *)
StopReturnEarly ==
    /\ At("app", "waitAll") /\ pc["writer"] = "done"
    /\ Goto("app", "returned")
    /\ UNCHANGED <<call, add, channels, started, locks, data, configs, panicked>>

StopReturn ==
    /\ At("app", "waitAll")
    /\ \A t \in {"stopper", "mgr", "writer"} : pc[t] = "done"
    /\ Goto("app", "returned")
    /\ UNCHANGED <<call, add, channels, started, locks, data, configs, panicked>>

-----------------------------------------------------------------------------
StartSteps == SetFields \/ Launch \/ StoreStarted \/ InfoLock \/ InfoEnd \/ ManagerDone
WaiterSteps == WaiterClears \/ WaiterCloses
StopSteps ==
    StopCollector \/ Shutdown \/ ShutdownPanics \/ ShutdownCloses \/ StopWriter \/ StopReturn
ListenerSteps == ListenerLock \/ ListenerUpdate
CallerSteps(c) == Measure(c) \/ DeadCollector(c)
AddSteps(a) == AddLock(a) \/ AddSend(a) \/ AddPanics(a)
UpdateSteps(k) == UpdateReads(k) \/ UpdateSend(k) \/ UpdatePanics(k)

(* FrameworkStop has returned: nothing is left to do. *)
Terminated == pc["app"] = "returned" /\ UNCHANGED vars

Next ==
    \/ StopperStops
    \/ StartSteps \/ InfoSend \/ InfoPanics
    \/ WaiterSteps
    \/ WriterWrites \/ WriterReturns
    \/ ListenerSteps \/ ListenerReturns
    \/ Tick \/ LastTick \/ ForwarderLock \/ PushHealth \/ PushEnd
    \/ \E c \in Callers : BeginCall(c) \/ CallerSteps(c)
    \/ \E a \in Adders : BeginAdd(a) \/ AddSteps(a)
    \/ \E d \in Durations : UpdateConfig(d)
    \/ \E k \in DOMAIN updates : UpdateSteps(k)
    \/ Cancel \/ Stop \/ StopSteps
    \/ Terminated

Spec == Init /\ [][Next]_vars

(* Goroutines that can go on do.  A mutex is handed over in the end and a select picks among   *)
(* its ready cases at random, so what is enabled again and again is taken (SF).  The program's *)
(* calls, its cancelling its context and its stopping the framework are its own business.      *)
Fairness ==
    /\ WF_vars(StopperStops) /\ SF_vars(StartSteps) /\ SF_vars(InfoSend)
    /\ WF_vars(WaiterSteps) /\ WF_vars(WriterWrites) /\ WF_vars(WriterReturns)
    /\ SF_vars(ListenerSteps) /\ SF_vars(ListenerReturns)
    /\ SF_vars(LastTick) /\ SF_vars(ForwarderLock) /\ SF_vars(PushHealth) /\ WF_vars(PushEnd)
    /\ SF_vars(StopSteps) /\ WF_vars(Tick)
    /\ \A c \in Callers : WF_vars(CallerSteps(c))
    /\ \A a \in Adders : SF_vars(AddSteps(a))

FairSpec == Spec /\ Fairness

-----------------------------------------------------------------------------
(* Labels, states of calls and holders of mutexes are those of the actions above. *)
TypeOK ==
    /\ pc \in [Threads -> {"off", "wait", "setFields", "launch", "store", "infoLock", "info",
                           "waitDone", "select", "busy", "lock", "update", "push", "close",
                           "running", "stopCollector", "shutdown", "waitStop", "stopWriter",
                           "waitAll", "returned", "done"}]
    /\ call \in [Callers -> {"idle", "sending", "ok", "refused"}]
    /\ add \in [Adders -> {"idle", "locking", "sending", "returned"}]
    /\ cancelled \in BOOLEAN /\ collectorDone \in BOOLEAN
    /\ stopSig \in {"nil", "open", "closed"} /\ stopWait \in BOOLEAN /\ writerStop \in BOOLEAN
    /\ closed \subseteq {"health", "component", "config"}
    /\ started \in BOOLEAN
    /\ mu \in {"free", "listener", "app"} /\ reg \in {"free", "mgr", "forwarder", "add"}
    /\ registered \subseteq Components
    /\ pending \subseteq Callers /\ written \subseteq Callers /\ held \subseteq Callers
    /\ left \subseteq Components /\ final \in BOOLEAN
    /\ config \in Durations /\ ticker \in Durations
    /\ updates \in Seq([duration : Durations, state : {"spawned", "sending", "stuck", "done"},
                        alone : BOOLEAN])
    /\ panicked \in {"no", "close of nil stopSig", "send on closed componentIn",
                     "send on closed configIn"}

(* The writer outlives the forwarder's last report, whoever stops what and when: the forwarder *)
(* never waits, with the registry locked, for a reader that is gone.                           *)
FlushHasReader == pc["forwarder"] = "push" /\ left # {} => pc["writer"] # "done"

(* A collector call that returned nil for a registered component has its measurement with the  *)
(* listener, in the registry or in a report, and in one of them only, at every moment.         *)
MeasurementsConserved ==
    /\ \A c \in Callers : call[c] = "ok" /\ MeasureOf[c] \in Before
                            => c \in held \cup pending \cup written
    /\ held \cap pending = {} /\ held \cap written = {} /\ pending \cap written = {}

(* The channels FrameworkStop closes have no reader or writer left in the manager: when        *)
(* Shutdown closes them the listener and the forwarder have returned and IsStarted is false.   *)
ClosedAfterUse ==
    "component" \in closed =>
        pc["listener"] = "done" /\ pc["forwarder"] = "done" /\ ~started /\ "health" \in closed

(* When FrameworkStop has returned, the goroutines FrameworkStart, Start and the writer started *)
(* have too, and no mutex is held.                                                             *)
ThreadsStopped ==
    pc["app"] = "returned" =>
        /\ \A t \in Threads \ {"app"} : pc[t] = "done"
        /\ mu = "free" /\ reg = "free"

(* The framework leaves nothing running when FrameworkStop has returned: in addition, none of   *)
(* the goroutines UpdateConfig started is still to read configIn or to send on it.  The one     *)
(* exception is a goroutine that read it before Start had made it (manager.go:207-208): a send  *)
(* on a nil channel, it is there for ever, as it was before FrameworkStop.                      *)
AllStopped == ThreadsStopped /\ (pc["app"] = "returned" => UpdatesEnded)

(* Every measurement accepted before FrameworkStop is in a report the writer received before   *)
(* FrameworkStop returns.                                                                      *)
AcceptedIsWritten ==
    pc["app"] = "returned" =>
        \A c \in Callers : call[c] = "ok" /\ MeasureOf[c] \in Before => c \in written

(* FrameworkStop returns. *)
StopReturns == (pc["app"] = "stopCollector") ~> (pc["app"] = "returned" \/ panicked # "no")

(* A collector call is not left waiting, whatever is stopped or cancelled when: once the       *)
(* listener takes no more measurements, having returned or because Shutdown holds hm.mu, the   *)
(* collector is dead or StopCollectorSingleton is about to be called (collector.go:184).       *)
CallHasWayOut ==
    \A c \in Callers :
        /\ call[c] = "sending"
        /\ pc["listener"] = "done" \/ (pc["listener"] = "lock" /\ mu = "app")
        => collectorDone \/ (cancelled /\ pc["stopper"] = "wait")

(* The program never dies of the framework. *)
NoPanic == panicked = "no"

(* The updates no later one was called after: those whose goroutine had ended when a later      *)
(* UpdateConfig was called are out of date, of those still under way any may come last.        *)
InForce == {k \in DOMAIN updates : \A j \in DOMAIN updates : j > k => ~updates[j].alone}

(* With no UpdateConfig goroutine under way, the forwarder reports at the pace of the           *)
(* configuration in force: that of the only call, if calls do not overlap, and of one of the    *)
(* last overlapping ones otherwise, whether they came before, during or after Start.  A         *)
(* configuration the program has replaced is never used again, and none is lost.                *)
ConfigApplied ==
    UpdatesEnded /\ pc["forwarder"] # "off" =>
        IF updates = << >> THEN ticker = FirstDuration
                           ELSE \E k \in InForce : ticker = updates[k].duration
=============================================================================
