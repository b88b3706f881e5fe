------------------------ MODULE HealthFrameworkProofs ------------------------
(***************************************************************************)
(* Proofs about HealthFramework, for every set of components and calls,    *)
(* and for every discipline the program may keep to.                       *)
(***************************************************************************)
EXTENDS HealthFramework, SequenceTheorems, TLAPS

(* Which labels each goroutine has. *)
LabelsInv ==
    /\ pc = [t \in Threads |-> pc[t]]
    /\ pc["stopper"] \in {"wait", "done"}
    /\ pc["mgr"] \in {"setFields", "launch", "store", "infoLock", "info", "waitDone", "done"}
    /\ pc["writer"] \in {"select", "busy", "done"}
    /\ pc["listener"] \in {"off", "select", "lock", "update", "done"}
    /\ pc["forwarder"] \in {"off", "select", "lock", "push", "done"}
    /\ pc["waiter"] \in {"off", "wait", "close", "done"}
    /\ pc["app"] \in {"running", "stopCollector", "shutdown", "waitStop", "stopWriter", "waitAll",
                      "returned"}

Started == {"infoLock", "info", "waitDone", "done"}

(* What Start has made, and when. *)
StartInv ==
    /\ stopSig = "nil" <=> pc["mgr"] = "setFields"
    /\ pc["listener"] = "off" <=> pc["mgr"] \in {"setFields", "launch"}
    /\ pc["forwarder"] = "off" <=> pc["mgr"] \in {"setFields", "launch"}
    /\ pc["waiter"] = "off" <=> pc["mgr"] \notin Started
    /\ started <=> pc["waiter"] = "wait"

(* Who returns after whom: the listener and the forwarder, then the waiter, then Shutdown, then *)
(* FrameworkStop; the writer after the forwarder.                                               *)
ShutDown == {"stopWriter", "waitAll", "returned"}

OrderInv ==
    /\ pc["waiter"] \in {"close", "done"} => pc["listener"] = "done" /\ pc["forwarder"] = "done"
    /\ stopWait <=> pc["waiter"] = "done"
    /\ "health" \in closed <=> pc["forwarder"] = "done"
    /\ "component" \in closed <=> pc["app"] \in ShutDown
    /\ "config" \in closed <=> pc["app"] \in ShutDown
    /\ pc["app"] \in ShutDown => stopWait
    /\ writerStop <=> pc["app"] \in {"waitAll", "returned"}
    /\ pc["writer"] = "done" => pc["forwarder"] = "done"
    /\ pc["mgr"] = "done" => stopWait
    /\ pc["app"] = "returned" => \A t \in {"stopper", "mgr", "writer"} : pc[t] = "done"

(* Who is told to stop before whom. *)
StopInv ==
    /\ stopSig = "closed" <=> pc["app"] \in ShutDown \cup {"waitStop"}
    /\ pc["app"] # "running" => cancelled
    /\ pc["app"] \notin {"running", "stopCollector"} => collectorDone
    /\ pc["stopper"] = "done" => collectorDone
    /\ pc["listener"] = "done" \/ pc["forwarder"] = "done" \/ final => Stopping

(* Mutexes and their holders. *)
LockInv ==
    /\ mu = "app" <=> pc["app"] = "waitStop"
    /\ mu = "listener" <=> pc["listener"] = "update"
    /\ reg = "mgr" <=> pc["mgr"] = "info"
    /\ reg = "forwarder" <=> pc["forwarder"] = "push"
    /\ reg = "add" <=> \E a \in Adders : add[a] = "sending"
    /\ \A a, b \in Adders : add[a] = "sending" /\ add[b] = "sending" => a = b

(* TypeOK in parts: labels are LabelsInv's. *)
ChannelTypes ==
    /\ cancelled \in BOOLEAN /\ collectorDone \in BOOLEAN
    /\ stopSig \in {"nil", "open", "closed"} /\ stopWait \in BOOLEAN /\ writerStop \in BOOLEAN
    /\ closed \subseteq {"health", "component", "config"}
    /\ started \in BOOLEAN /\ final \in BOOLEAN
    /\ mu \in {"free", "listener", "app"} /\ reg \in {"free", "mgr", "forwarder", "add"}
    /\ panicked \in {"no", "close of nil stopSig", "send on closed componentIn",
                     "send on closed configIn"}

DataTypes ==
    /\ call \in [Callers -> {"idle", "sending", "ok", "refused"}]
    /\ add \in [Adders -> {"idle", "locking", "sending", "returned"}]
    /\ registered \subseteq Components
    /\ pending \subseteq Callers /\ written \subseteq Callers /\ held \subseteq Callers
    /\ left \subseteq Components

Update ==
    [duration : Durations, state : {"spawned", "sending", "stuck", "done"}, alone : BOOLEAN]

ConfigTypes == config \in Durations /\ ticker \in Durations /\ updates \in Seq(Update)

TypeInv == LabelsInv /\ ChannelTypes /\ DataTypes /\ ConfigTypes

Lifecycle == TypeInv /\ StartInv /\ OrderInv /\ StopInv /\ LockInv

(* No component registered before is registered anew. *)
AddsNew == \A a \in Adders : AddOf[a] \notin Before

(* Where measurements are. *)
HeldInv ==
    /\ held # {} => pc["listener"] \in {"lock", "update"}
    /\ \A c \in held \cup pending \cup written : call[c] = "ok"
    /\ Before \subseteq registered

(* A program that calls FrameworkStop when its calls have returned. *)
ReturnedInv ==
    /\ Discipline # "none" /\ pc["app"] # "running" => pc["mgr"] \in {"waitDone", "done"}
    /\ Discipline \in {"returned", "quiet"} /\ pc["app"] # "running" => Returned

(* A program that calls it when nothing is left of those calls. *)
QuietInv ==
    /\ Discipline = "quiet" /\ pc["app"] # "running" => Quiet
    /\ Discipline = "quiet" => panicked = "no"

(* Measurements of components that are there all the time, waiting to be reported. *)
Waiting == {c \in pending : MeasureOf[c] \in Before}

(* If nobody else cancels the context, the last report begins when the measurements are all in  *)
(* the registry, and what of them it has not reported is yet to come to.                        *)
ReportInv ==
    Discipline = "quiet" /\ ~MayCancel =>
        /\ cancelled => pc["app"] # "running"
        /\ final /\ pc["forwarder"] = "push" => \A c \in Waiting : MeasureOf[c] \in left
        /\ pc["forwarder"] = "done" => Waiting = {}

(* Each update the forwarder may have had last is in force, or one that is has yet to reach it. *)
ConfigInv ==
    /\ config = IF updates = << >> THEN FirstDuration ELSE updates[Len(updates)].duration
    /\ \A j, k \in DOMAIN updates : k < j /\ updates[j].alone => Ended(k)
    /\ pc["forwarder"] # "off" =>
         IF updates = << >> THEN ticker = FirstDuration
                            ELSE \E k \in InForce : ~Ended(k) \/ ticker = updates[k].duration

(* All of it. *)
IInv == Lifecycle /\ ReturnedInv /\ QuietInv

LEMMA TypeInvIsTypeOK == TypeInv => TypeOK
<1>. SUFFICES ASSUME TypeInv PROVE TypeOK
  OBVIOUS
<1>. DEFINE Labels == {"off", "wait", "setFields", "launch", "store", "infoLock", "info",
                       "waitDone", "select", "busy", "lock", "update", "push", "close",
                       "running", "stopCollector", "shutdown", "waitStop", "stopWriter",
                       "waitAll", "returned", "done"}
<1>1. \A t \in Threads : pc[t] \in Labels
  BY DEF TypeInv, LabelsInv, Threads
<1>2. pc \in [Threads -> Labels]
  <2>. HIDE DEF Labels
  <2>. QED
    BY <1>1 DEF TypeInv, LabelsInv
<1>. QED
  BY <1>2 DEF TypeInv, ChannelTypes, DataTypes, ConfigTypes, Update, TypeOK

LEMMA InitInv == Init => IInv
<1>. SUFFICES ASSUME Init PROVE IInv
  OBVIOUS
<1>1. LabelsInv
  BY DEF Init, LabelsInv, Threads
<1>2. ChannelTypes /\ DataTypes
  BY HealthFrameworkAssumption DEF Init, ChannelTypes, DataTypes
<1>3. ConfigTypes
  BY HealthFrameworkAssumption DEF Init, ConfigTypes
<1>4. StartInv /\ OrderInv
  BY DEF Init, StartInv, Started, OrderInv, ShutDown, Threads
<1>5. StopInv
  BY DEF Init, StopInv, ShutDown, Threads
<1>6. LockInv
  BY DEF Init, LockInv, Threads
<1>7. ReturnedInv /\ QuietInv
  BY DEF Init, ReturnedInv, QuietInv, Threads
<1>. QED
  BY <1>1, <1>2, <1>3, <1>4, <1>5, <1>6, <1>7 DEF IInv, Lifecycle, TypeInv

LEMMA LabelsStep ==
    ASSUME LabelsInv, [Next]_vars PROVE LabelsInv'
<1>1. CASE StopperStops
  BY <1>1 DEF StopperStops, At, Goto, LabelsInv, Threads
<1>2. CASE SetFields
  BY <1>2 DEF SetFields, At, Goto, LabelsInv, Threads
<1>3. CASE Launch
  BY <1>3 DEF Launch, At, LabelsInv, Threads
<1>4. CASE StoreStarted
  BY <1>4 DEF StoreStarted, At, LabelsInv, Threads
<1>5. CASE InfoLock
  BY <1>5 DEF InfoLock, At, Goto, LabelsInv, Threads
<1>6. CASE InfoEnd
  BY <1>6 DEF InfoEnd, At, Goto, LabelsInv, Threads
<1>7. CASE ManagerDone
  BY <1>7 DEF ManagerDone, At, Goto, LabelsInv, Threads
<1>8. CASE InfoSend
  BY <1>8 DEF InfoSend, At, Goto, LabelsInv, Threads
<1>9. CASE WaiterClears
  BY <1>9 DEF WaiterClears, At, Goto, LabelsInv, Threads
<1>10. CASE WaiterCloses
  BY <1>10 DEF WaiterCloses, At, Goto, LabelsInv, Threads
<1>11. CASE WriterWrites
  BY <1>11 DEF WriterWrites, At, Goto, LabelsInv, Threads
<1>12. CASE WriterReturns
  BY <1>12 DEF WriterReturns, At, Goto, LabelsInv, Threads
<1>13. CASE ListenerLock
  BY <1>13 DEF ListenerLock, At, Goto, LabelsInv, Threads
<1>14. CASE ListenerUpdate
  BY <1>14 DEF ListenerUpdate, At, Goto, LabelsInv, Threads
<1>15. CASE ListenerReturns
  BY <1>15 DEF ListenerReturns, At, Goto, LabelsInv, Threads
<1>16. CASE Tick
  BY <1>16 DEF Tick, At, Goto, LabelsInv, Threads
<1>17. CASE LastTick
  BY <1>17 DEF LastTick, At, Goto, LabelsInv, Threads
<1>18. CASE ForwarderLock
  BY <1>18 DEF ForwarderLock, At, Goto, LabelsInv, Threads
<1>19. CASE PushHealth
  BY <1>19 DEF PushHealth, At, Goto, LabelsInv, Threads
<1>20. CASE PushEnd
  BY <1>20 DEF PushEnd, At, Goto, LabelsInv, Threads
<1>21. CASE Stop
  BY <1>21 DEF Stop, At, Goto, MayStop, LabelsInv, Threads
<1>22. CASE StopCollector
  BY <1>22 DEF StopCollector, At, Goto, LabelsInv, Threads
<1>23. CASE Shutdown
  BY <1>23 DEF Shutdown, At, Goto, LabelsInv, Threads
<1>24. CASE ShutdownCloses
  BY <1>24 DEF ShutdownCloses, At, Goto, LabelsInv, Threads
<1>25. CASE StopWriter
  BY <1>25 DEF StopWriter, At, Goto, LabelsInv, Threads
<1>26. CASE StopReturn
  BY <1>26 DEF StopReturn, At, Goto, LabelsInv, Threads
<1>27. ASSUME NEW c \in Callers, Measure(c) PROVE LabelsInv'
  BY <1>27 DEF Measure, At, Goto, LabelsInv, Threads
<1>28. ASSUME NEW a \in Adders, AddSend(a) PROVE LabelsInv'
  BY <1>28 DEF AddSend, At, Goto, LabelsInv, Threads
<1>29. CASE UNCHANGED pc
  BY <1>29 DEF LabelsInv, Threads
<1>. QED
  BY <1>1, <1>2, <1>3, <1>4, <1>5, <1>6, <1>7, <1>8, <1>9, <1>10, <1>11, <1>12, <1>13,
     <1>14, <1>15, <1>16, <1>17, <1>18, <1>19, <1>20, <1>21, <1>22, <1>23, <1>24, <1>25,
     <1>26, <1>27, <1>28, <1>29 DEF Next, Terminated, StartSteps, WaiterSteps,
     ListenerSteps, CallerSteps, AddSteps, UpdateSteps, StopSteps, InfoPanics, Cancel,
     ShutdownPanics, BeginCall, DeadCollector, BeginAdd, AddLock, AddPanics, UpdateConfig,
     UpdateReads, UpdateSend, UpdatePanics, vars

LEMMA ChannelTypesStep ==
    ASSUME ChannelTypes, [Next]_vars PROVE
           ChannelTypes'
<1>1. CASE StopperStops
  BY <1>1 DEF StopperStops, At, Goto, ChannelTypes, locks, data
<1>2. CASE SetFields
  BY <1>2 DEF SetFields, At, Goto, ChannelTypes, locks, data
<1>3. CASE StoreStarted
  BY <1>3 DEF StoreStarted, At, ChannelTypes, channels, locks, data
<1>4. CASE InfoLock
  BY <1>4 DEF InfoLock, At, Goto, ChannelTypes, channels
<1>5. CASE InfoEnd
  BY <1>5 DEF InfoEnd, At, Goto, ChannelTypes, channels, data
<1>6. CASE ManagerDone
  BY <1>6 DEF ManagerDone, At, Goto, ChannelTypes, locks, data
<1>7. CASE InfoPanics
  BY <1>7 DEF InfoPanics, At, Panic, ChannelTypes, channels, locks, data
<1>8. CASE WaiterClears
  BY <1>8 DEF WaiterClears, At, Goto, ChannelTypes, channels, locks, data
<1>9. CASE WaiterCloses
  BY <1>9 DEF WaiterCloses, At, Goto, ChannelTypes, locks, data
<1>10. CASE WriterReturns
  BY <1>10 DEF WriterReturns, At, Goto, ChannelTypes, locks, data
<1>11. CASE ListenerLock
  BY <1>11 DEF ListenerLock, At, Goto, ChannelTypes, channels, data
<1>12. CASE ListenerUpdate
  BY <1>12 DEF ListenerUpdate, At, Goto, ChannelTypes, channels
<1>13. CASE LastTick
  BY <1>13 DEF LastTick, At, Goto, ChannelTypes, channels, locks
<1>14. CASE ForwarderLock
  BY <1>14 DEF ForwarderLock, At, Goto, ChannelTypes, channels
<1>15. CASE PushEnd
  BY <1>15 DEF PushEnd, At, Goto, ChannelTypes, data
<1>16. CASE Cancel
  BY <1>16 DEF Cancel, ChannelTypes, locks, data
<1>17. CASE Stop
  BY <1>17 DEF Stop, At, Goto, MayStop, ChannelTypes, locks, data
<1>18. CASE StopCollector
  BY <1>18 DEF StopCollector, At, Goto, ChannelTypes, locks, data
<1>19. CASE Shutdown
  BY <1>19 DEF Shutdown, At, Goto, ChannelTypes, data
<1>20. CASE ShutdownPanics
  BY <1>20 DEF ShutdownPanics, At, Panic, ChannelTypes, channels, locks, data
<1>21. CASE ShutdownCloses
  BY <1>21 DEF ShutdownCloses, At, Goto, ChannelTypes, data
<1>22. CASE StopWriter
  BY <1>22 DEF StopWriter, At, Goto, ChannelTypes, locks, data
<1>23. ASSUME NEW a \in Adders, AddLock(a) PROVE ChannelTypes'
  BY <1>23 DEF AddLock, ChannelTypes, channels
<1>24. ASSUME NEW a \in Adders, AddSend(a) PROVE ChannelTypes'
  BY <1>24 DEF AddSend, At, Goto, ChannelTypes, channels, data
<1>25. ASSUME NEW a \in Adders, AddPanics(a) PROVE ChannelTypes'
  BY <1>25 DEF AddPanics, Panic, ChannelTypes, channels, locks, data
<1>26. ASSUME NEW k \in DOMAIN updates, UpdatePanics(k) PROVE ChannelTypes'
  BY <1>26 DEF UpdatePanics, Panic, ChannelTypes, channels, locks, data
<1>27. CASE UNCHANGED <<started, final, panicked, channels, locks>>
  BY <1>27 DEF ChannelTypes, Panic, channels, locks
<1>. QED
  BY <1>1, <1>2, <1>3, <1>4, <1>5, <1>6, <1>7, <1>8, <1>9, <1>10, <1>11, <1>12, <1>13,
     <1>14, <1>15, <1>16, <1>17, <1>18, <1>19, <1>20, <1>21, <1>22, <1>23, <1>24, <1>25,
     <1>26, <1>27 DEF Next, Terminated, StartSteps, WaiterSteps, ListenerSteps, CallerSteps,
     AddSteps, UpdateSteps, StopSteps, Launch, InfoSend, WriterWrites, ListenerReturns,
     Tick, PushHealth, StopReturn, BeginCall, Measure, DeadCollector, BeginAdd,
     UpdateConfig, UpdateReads, UpdateSend, vars, channels, locks, data

LEMMA DataTypesStep ==
    ASSUME DataTypes, [Next]_vars PROVE DataTypes'
<1>1. CASE InfoLock
  BY <1>1 DEF InfoLock, At, Goto, DataTypes
<1>2. CASE InfoSend
  BY <1>2 DEF InfoSend, At, Goto, DataTypes
<1>3. CASE ListenerUpdate
  BY <1>3 DEF ListenerUpdate, At, Goto, DataTypes
<1>4. CASE ForwarderLock
  BY <1>4 DEF ForwarderLock, At, Goto, DataTypes
<1>5. CASE PushHealth
  BY <1>5 DEF PushHealth, At, Goto, DataTypes
<1>6. ASSUME NEW c \in Callers, BeginCall(c) PROVE DataTypes'
  BY <1>6 DEF BeginCall, Running, DataTypes, data
<1>7. ASSUME NEW c \in Callers, Measure(c) PROVE DataTypes'
  BY <1>7 DEF Measure, At, Goto, DataTypes
<1>8. ASSUME NEW c \in Callers, DeadCollector(c) PROVE DataTypes'
  BY <1>8 DEF DeadCollector, DataTypes, data
<1>9. ASSUME NEW a \in Adders, BeginAdd(a) PROVE DataTypes'
  BY <1>9 DEF BeginAdd, Running, DataTypes, data
<1>10. ASSUME NEW a \in Adders, AddLock(a) PROVE DataTypes'
  BY <1>10, HealthFrameworkAssumption DEF AddLock, DataTypes
<1>11. ASSUME NEW a \in Adders, AddSend(a) PROVE DataTypes'
  BY <1>11 DEF AddSend, At, Goto, DataTypes, data
<1>12. CASE UNCHANGED <<call, add, registered, pending, written, held, left>>
  BY <1>12 DEF DataTypes
<1>. QED
  BY <1>1, <1>2, <1>3, <1>4, <1>5, <1>6, <1>7, <1>8, <1>9, <1>10, <1>11, <1>12 DEF Next,
     Terminated, StartSteps, WaiterSteps, ListenerSteps, CallerSteps, AddSteps, UpdateSteps,
     StopSteps, StopperStops, SetFields, Launch, StoreStarted, InfoEnd, ManagerDone,
     InfoPanics, WaiterClears, WaiterCloses, WriterWrites, WriterReturns, ListenerLock,
     ListenerReturns, Tick, LastTick, PushEnd, Cancel, Stop, StopCollector, Shutdown,
     ShutdownPanics, ShutdownCloses, StopWriter, StopReturn, AddPanics, UpdateConfig,
     UpdateReads, UpdateSend, UpdatePanics, vars, data

LEMMA ConfigTypesStep ==
    ASSUME ConfigTypes, [Next]_vars PROVE ConfigTypes'
<1>1. CASE Launch
  BY <1>1 DEF Launch, At, ConfigTypes
<1>2. ASSUME NEW d \in Durations, UpdateConfig(d) PROVE ConfigTypes'
  <2>1. UpdatesEnded \in BOOLEAN
    BY DEF UpdatesEnded
  <2>2. [duration |-> d, state |-> "spawned", alone |-> UpdatesEnded] \in Update
    BY <2>1 DEF Update
  <2>. QED
    BY <1>2, <2>2 DEF UpdateConfig, ConfigTypes
<1>3. ASSUME NEW k \in DOMAIN updates, UpdateReads(k) PROVE ConfigTypes'
  <2>. DEFINE changed ==
         [updates[k] EXCEPT !.state = IF stopSig = "nil" THEN "stuck" ELSE "sending"]
  <2>1. updates[k] \in Update
    BY DEF ConfigTypes
  <2>2. changed \in Update
    BY <2>1 DEF Update
  <2>3. updates' = [updates EXCEPT ![k] = changed]
    BY <1>3 DEF UpdateReads
  <2>4. updates' \in Seq(Update)
    BY <2>2, <2>3, ExceptSeq DEF ConfigTypes
  <2>5. config' \in Durations /\ ticker' \in Durations
    BY <1>3, <2>1 DEF UpdateReads, ConfigTypes, Update, configs
  <2>. QED
    BY <2>4, <2>5 DEF ConfigTypes
<1>4. ASSUME NEW k \in DOMAIN updates, UpdateSend(k) PROVE ConfigTypes'
  <2>. DEFINE changed ==
         [updates[k] EXCEPT !.state = "done"]
  <2>1. updates[k] \in Update
    BY DEF ConfigTypes
  <2>2. changed \in Update
    BY <2>1 DEF Update
  <2>3. updates' = [updates EXCEPT ![k] = changed]
    BY <1>4 DEF UpdateSend
  <2>4. updates' \in Seq(Update)
    BY <2>2, <2>3, ExceptSeq DEF ConfigTypes
  <2>5. config' \in Durations /\ ticker' \in Durations
    BY <1>4, <2>1 DEF UpdateSend, ConfigTypes, Update, configs
  <2>. QED
    BY <2>4, <2>5 DEF ConfigTypes
<1>5. CASE UNCHANGED configs
  BY <1>5 DEF ConfigTypes, Update, configs
<1>. QED
  BY <1>1, <1>2, <1>3, <1>4, <1>5 DEF Next, Terminated, StartSteps, WaiterSteps,
     ListenerSteps, CallerSteps, AddSteps, UpdateSteps, StopSteps, StopperStops, SetFields,
     StoreStarted, InfoLock, InfoEnd, ManagerDone, InfoSend, InfoPanics, WaiterClears,
     WaiterCloses, WriterWrites, WriterReturns, ListenerLock, ListenerUpdate,
     ListenerReturns, Tick, LastTick, ForwarderLock, PushHealth, PushEnd, Cancel, Stop,
     StopCollector, Shutdown, ShutdownPanics, ShutdownCloses, StopWriter, StopReturn,
     BeginCall, Measure, DeadCollector, BeginAdd, AddLock, AddSend, AddPanics, UpdatePanics,
     vars, configs

LEMMA StartStep ==
    ASSUME LabelsInv, StartInv, OrderInv, StopInv, [Next]_vars
           PROVE StartInv'
<1>1. CASE StopperStops
  BY <1>1 DEF StopperStops, At, Goto, StartInv, Threads
<1>2. CASE SetFields
  BY <1>2 DEF SetFields, At, Goto, StartInv, Started, LabelsInv, Threads
<1>3. CASE Launch
  BY <1>3 DEF Launch, At, StartInv, Started, LabelsInv, Threads, channels
<1>4. CASE StoreStarted
  BY <1>4 DEF StoreStarted, At, StartInv, Started, LabelsInv, Threads, channels
<1>5. CASE InfoLock
  BY <1>5 DEF InfoLock, At, Goto, StartInv, Started, Threads, channels
<1>6. CASE InfoEnd
  BY <1>6 DEF InfoEnd, At, Goto, StartInv, Started, Threads, channels
<1>7. CASE ManagerDone
  BY <1>7 DEF ManagerDone, At, Goto, StartInv, Started, Threads
<1>8. CASE InfoSend
  BY <1>8 DEF InfoSend, At, Goto, StartInv, Threads, channels
<1>9. CASE WaiterClears
  BY <1>9 DEF WaiterClears, At, Goto, StartInv, LabelsInv, Threads, channels
<1>10. CASE WaiterCloses
  BY <1>10 DEF WaiterCloses, At, Goto, StartInv, Threads
<1>11. CASE WriterWrites
  BY <1>11 DEF WriterWrites, At, Goto, StartInv, Threads, channels
<1>12. CASE WriterReturns
  BY <1>12 DEF WriterReturns, At, Goto, StartInv, Threads
<1>13. CASE ListenerLock
  BY <1>13 DEF ListenerLock, At, Goto, StartInv, Threads, channels
<1>14. CASE ListenerUpdate
  BY <1>14 DEF ListenerUpdate, At, Goto, StartInv, Threads, channels
<1>15. CASE ListenerReturns
  BY <1>15 DEF ListenerReturns, At, Goto, StartInv, Threads, channels
<1>16. CASE Tick
  BY <1>16 DEF Tick, At, Goto, StartInv, Threads, channels
<1>17. CASE LastTick
  BY <1>17 DEF LastTick, At, Goto, StartInv, Threads, channels
<1>18. CASE ForwarderLock
  BY <1>18 DEF ForwarderLock, At, Goto, StartInv, Threads, channels
<1>19. CASE PushHealth
  BY <1>19 DEF PushHealth, At, Goto, StartInv, Threads, channels
<1>20. CASE PushEnd
  BY <1>20 DEF PushEnd, At, Goto, StartInv, Threads
<1>21. CASE Stop
  BY <1>21 DEF Stop, At, Goto, MayStop, StartInv, Threads
<1>22. CASE StopCollector
  BY <1>22 DEF StopCollector, At, Goto, StartInv, Threads
<1>23. CASE Shutdown
  BY <1>23 DEF Shutdown, At, Goto, StartInv, Threads
<1>24. CASE ShutdownCloses
  BY <1>24 DEF ShutdownCloses, At, Goto, StartInv, Threads
<1>25. CASE StopWriter
  BY <1>25 DEF StopWriter, At, Goto, StartInv, Threads
<1>26. CASE StopReturn
  BY <1>26 DEF StopReturn, At, Goto, StartInv, Threads, channels
<1>27. ASSUME NEW c \in Callers, Measure(c) PROVE StartInv'
  BY <1>27 DEF Measure, At, Goto, StartInv, Threads, channels
<1>28. ASSUME NEW a \in Adders, AddSend(a) PROVE StartInv'
  BY <1>28 DEF AddSend, At, Goto, StartInv, Threads, channels
<1>29. CASE UNCHANGED <<pc, stopSig, started>>
  BY <1>29 DEF StartInv, Started, OrderInv, StopInv, ShutDown, LabelsInv, Threads
<1>. QED
  BY <1>1, <1>2, <1>3, <1>4, <1>5, <1>6, <1>7, <1>8, <1>9, <1>10, <1>11, <1>12, <1>13,
     <1>14, <1>15, <1>16, <1>17, <1>18, <1>19, <1>20, <1>21, <1>22, <1>23, <1>24, <1>25,
     <1>26, <1>27, <1>28, <1>29 DEF Next, Terminated, StartSteps, WaiterSteps,
     ListenerSteps, CallerSteps, AddSteps, UpdateSteps, StopSteps, InfoPanics, Cancel,
     ShutdownPanics, BeginCall, DeadCollector, BeginAdd, AddLock, AddPanics, UpdateConfig,
     UpdateReads, UpdateSend, UpdatePanics, vars, channels

LEMMA OrderStep ==
    ASSUME LabelsInv, LabelsInv', StartInv, OrderInv,
           [Next]_vars PROVE OrderInv'
<1>1. CASE StopperStops
  BY <1>1 DEF StopperStops, At, Goto, OrderInv, Threads
<1>2. CASE SetFields
  BY <1>2 DEF SetFields, At, Goto, OrderInv, Threads
<1>3. CASE Launch
  BY <1>3 DEF Launch, At, OrderInv, StartInv, LabelsInv, Threads, channels
<1>4. CASE StoreStarted
  BY <1>4 DEF StoreStarted, At, OrderInv, StartInv, Started, LabelsInv, Threads, channels
<1>5. CASE InfoLock
  BY <1>5 DEF InfoLock, At, Goto, OrderInv, Threads, channels
<1>6. CASE InfoEnd
  BY <1>6 DEF InfoEnd, At, Goto, OrderInv, Threads, channels
<1>7. CASE ManagerDone
  BY <1>7 DEF ManagerDone, At, Goto, OrderInv, Threads
<1>8. CASE InfoSend
  BY <1>8 DEF InfoSend, At, Goto, OrderInv, Threads, channels
<1>9. CASE WaiterClears
  BY <1>9 DEF WaiterClears, At, Goto, OrderInv, Threads, channels
<1>10. CASE WaiterCloses
  BY <1>10 DEF WaiterCloses, At, Goto, OrderInv, LabelsInv, Threads
<1>11. CASE WriterWrites
  BY <1>11 DEF WriterWrites, At, Goto, OrderInv, Threads, channels
<1>12. CASE WriterReturns
  BY <1>12 DEF WriterReturns, At, Goto, OrderInv, ShutDown, Threads
<1>13. CASE ListenerLock
  BY <1>13 DEF ListenerLock, At, Goto, OrderInv, Threads, channels
<1>14. CASE ListenerUpdate
  BY <1>14 DEF ListenerUpdate, At, Goto, OrderInv, Threads, channels
<1>15. CASE ListenerReturns
  BY <1>15 DEF ListenerReturns, At, Goto, OrderInv, Threads, channels
<1>16. CASE Tick
  BY <1>16 DEF Tick, At, Goto, OrderInv, Threads, channels
<1>17. CASE LastTick
  BY <1>17 DEF LastTick, At, Goto, OrderInv, Threads, channels
<1>18. CASE ForwarderLock
  BY <1>18 DEF ForwarderLock, At, Goto, OrderInv, Threads, channels
<1>19. CASE PushHealth
  BY <1>19 DEF PushHealth, At, Goto, OrderInv, Threads, channels
<1>20. CASE PushEnd
  BY <1>20 DEF PushEnd, At, Goto, OrderInv, LabelsInv, Threads
<1>21. CASE Stop
  BY <1>21 DEF Stop, At, Goto, MayStop, OrderInv, ShutDown, Threads
<1>22. CASE StopCollector
  BY <1>22 DEF StopCollector, At, Goto, OrderInv, ShutDown, Threads
<1>23. CASE Shutdown
  BY <1>23 DEF Shutdown, At, Goto, OrderInv, ShutDown, Threads
<1>24. CASE ShutdownCloses
  BY <1>24 DEF ShutdownCloses, At, Goto, OrderInv, ShutDown, LabelsInv, Threads
<1>25. CASE StopWriter
  BY <1>25 DEF StopWriter, At, Goto, OrderInv, ShutDown, LabelsInv, Threads
<1>26. CASE StopReturn
  BY <1>26 DEF StopReturn, At, Goto, OrderInv, ShutDown, Threads, channels
<1>27. ASSUME NEW c \in Callers, Measure(c) PROVE OrderInv'
  BY <1>27 DEF Measure, At, Goto, OrderInv, Threads, channels
<1>28. ASSUME NEW a \in Adders, AddSend(a) PROVE OrderInv'
  BY <1>28 DEF AddSend, At, Goto, OrderInv, Threads, channels
<1>29. CASE UNCHANGED <<pc, stopWait, writerStop, closed>>
  BY <1>29 DEF OrderInv, StartInv, Started, ShutDown, LabelsInv, Threads
<1>. QED
  BY <1>1, <1>2, <1>3, <1>4, <1>5, <1>6, <1>7, <1>8, <1>9, <1>10, <1>11, <1>12, <1>13,
     <1>14, <1>15, <1>16, <1>17, <1>18, <1>19, <1>20, <1>21, <1>22, <1>23, <1>24, <1>25,
     <1>26, <1>27, <1>28, <1>29 DEF Next, Terminated, StartSteps, WaiterSteps,
     ListenerSteps, CallerSteps, AddSteps, UpdateSteps, StopSteps, InfoPanics, Cancel,
     ShutdownPanics, BeginCall, DeadCollector, BeginAdd, AddLock, AddPanics, UpdateConfig,
     UpdateReads, UpdateSend, UpdatePanics, vars, channels

LEMMA StopStep ==
    ASSUME LabelsInv, StartInv, OrderInv, StopInv, [Next]_vars
           PROVE StopInv'
<1>1. CASE StopperStops
  BY <1>1 DEF StopperStops, At, Goto, StopInv, Stopping, Threads, data
<1>2. CASE SetFields
  BY <1>2 DEF SetFields, At, Goto, StopInv, StartInv, Stopping, Threads, data
<1>3. CASE Launch
  BY <1>3 DEF Launch, At, StopInv, Stopping, LabelsInv, Threads, channels, data
<1>4. CASE StoreStarted
  BY <1>4 DEF StoreStarted, At, StopInv, Stopping, LabelsInv, Threads, channels, data
<1>5. CASE InfoLock
  BY <1>5 DEF InfoLock, At, Goto, StopInv, Stopping, Threads, channels
<1>6. CASE InfoEnd
  BY <1>6 DEF InfoEnd, At, Goto, StopInv, Stopping, Threads, channels, data
<1>7. CASE ManagerDone
  BY <1>7 DEF ManagerDone, At, Goto, StopInv, Stopping, Threads, data
<1>8. CASE InfoSend
  BY <1>8 DEF InfoSend, At, Goto, StopInv, Stopping, Threads, channels
<1>9. CASE WaiterClears
  BY <1>9 DEF WaiterClears, At, Goto, StopInv, Stopping, Threads, channels, data
<1>10. CASE WaiterCloses
  BY <1>10 DEF WaiterCloses, At, Goto, StopInv, Stopping, Threads, data
<1>11. CASE WriterWrites
  BY <1>11 DEF WriterWrites, At, Goto, StopInv, Stopping, Threads, channels, data
<1>12. CASE WriterReturns
  BY <1>12 DEF WriterReturns, At, Goto, StopInv, Stopping, Threads, data
<1>13. CASE ListenerLock
  BY <1>13 DEF ListenerLock, At, Goto, StopInv, Stopping, Threads, channels, data
<1>14. CASE ListenerUpdate
  BY <1>14 DEF ListenerUpdate, At, Goto, StopInv, Stopping, Threads, channels
<1>15. CASE ListenerReturns
  BY <1>15 DEF ListenerReturns, At, Goto, StopInv, Stopping, Threads, channels, data
<1>16. CASE Tick
  BY <1>16 DEF Tick, At, Goto, StopInv, Stopping, Threads, channels, data
<1>17. CASE LastTick
  BY <1>17 DEF LastTick, At, Goto, StopInv, Stopping, Threads, channels
<1>18. CASE ForwarderLock
  BY <1>18 DEF ForwarderLock, At, Goto, StopInv, Stopping, Threads, channels
<1>19. CASE PushHealth
  BY <1>19 DEF PushHealth, At, Goto, StopInv, Stopping, Threads, channels
<1>20. CASE PushEnd
  BY <1>20 DEF PushEnd, At, Goto, StopInv, Stopping, Threads, data
<1>21. CASE Cancel
  BY <1>21 DEF Cancel, StopInv, Stopping, Threads, data
<1>22. CASE Stop
  BY <1>22 DEF Stop, At, Goto, MayStop, StopInv, ShutDown, Stopping, Threads, data
<1>23. CASE StopCollector
  BY <1>23 DEF StopCollector, At, Goto, StopInv, ShutDown, Stopping, Threads, data
<1>24. CASE Shutdown
  BY <1>24 DEF Shutdown, At, Goto, StopInv, Stopping, LabelsInv, Threads, data
<1>25. CASE ShutdownCloses
  BY <1>25 DEF ShutdownCloses, At, Goto, StopInv, ShutDown, Stopping, Threads, data
<1>26. CASE StopWriter
  BY <1>26 DEF StopWriter, At, Goto, StopInv, ShutDown, Stopping, Threads, data
<1>27. CASE StopReturn
  BY <1>27 DEF StopReturn, At, Goto, StopInv, ShutDown, Stopping, Threads, channels, data
<1>28. ASSUME NEW c \in Callers, Measure(c) PROVE StopInv'
  BY <1>28 DEF Measure, At, Goto, StopInv, Stopping, Threads, channels
<1>29. ASSUME NEW a \in Adders, AddSend(a) PROVE StopInv'
  BY <1>29 DEF AddSend, At, Goto, StopInv, Stopping, Threads, channels, data
<1>30. CASE UNCHANGED <<pc, cancelled, collectorDone, stopSig, final>>
  BY <1>30 DEF StopInv, OrderInv, StartInv, Started, ShutDown, Stopping, LabelsInv, Threads
<1>. QED
  BY <1>1, <1>2, <1>3, <1>4, <1>5, <1>6, <1>7, <1>8, <1>9, <1>10, <1>11, <1>12, <1>13,
     <1>14, <1>15, <1>16, <1>17, <1>18, <1>19, <1>20, <1>21, <1>22, <1>23, <1>24, <1>25,
     <1>26, <1>27, <1>28, <1>29, <1>30 DEF Next, Terminated, StartSteps, WaiterSteps,
     ListenerSteps, CallerSteps, AddSteps, UpdateSteps, StopSteps, InfoPanics,
     ShutdownPanics, BeginCall, DeadCollector, BeginAdd, AddLock, AddPanics, UpdateConfig,
     UpdateReads, UpdateSend, UpdatePanics, vars, channels, data

LEMMA LockStep ==
    ASSUME DataTypes, LabelsInv, StartInv, LockInv, [Next]_vars
           PROVE LockInv'
<1>1. CASE StopperStops
  BY <1>1 DEF StopperStops, At, Goto, LockInv, Threads, locks
<1>2. CASE SetFields
  BY <1>2 DEF SetFields, At, Goto, LockInv, Threads, locks
<1>3. CASE Launch
  BY <1>3 DEF Launch, At, LockInv, StartInv, LabelsInv, Threads, locks
<1>4. CASE StoreStarted
  BY <1>4 DEF StoreStarted, At, LockInv, LabelsInv, Threads, locks
<1>5. CASE InfoLock
  BY <1>5 DEF InfoLock, At, Goto, LockInv, LabelsInv, Threads
<1>6. CASE InfoEnd
  BY <1>6 DEF InfoEnd, At, Goto, LockInv, LabelsInv, Threads
<1>7. CASE ManagerDone
  BY <1>7 DEF ManagerDone, At, Goto, LockInv, Threads, locks
<1>8. CASE InfoSend
  BY <1>8 DEF InfoSend, At, Goto, LockInv, Threads, locks
<1>9. CASE WaiterClears
  BY <1>9 DEF WaiterClears, At, Goto, LockInv, Threads, locks
<1>10. CASE WaiterCloses
  BY <1>10 DEF WaiterCloses, At, Goto, LockInv, Threads, locks
<1>11. CASE WriterWrites
  BY <1>11 DEF WriterWrites, At, Goto, LockInv, Threads, locks
<1>12. CASE WriterReturns
  BY <1>12 DEF WriterReturns, At, Goto, LockInv, Threads, locks
<1>13. CASE ListenerLock
  BY <1>13 DEF ListenerLock, At, Goto, LockInv, LabelsInv, Threads
<1>14. CASE ListenerUpdate
  BY <1>14 DEF ListenerUpdate, At, Goto, LockInv, LabelsInv, Threads
<1>15. CASE ListenerReturns
  BY <1>15 DEF ListenerReturns, At, Goto, LockInv, Threads, locks
<1>16. CASE Tick
  BY <1>16 DEF Tick, At, Goto, LockInv, Threads, locks
<1>17. CASE LastTick
  BY <1>17 DEF LastTick, At, Goto, LockInv, Threads, locks
<1>18. CASE ForwarderLock
  BY <1>18 DEF ForwarderLock, At, Goto, LockInv, LabelsInv, Threads
<1>19. CASE PushHealth
  BY <1>19 DEF PushHealth, At, Goto, LockInv, Threads, locks
<1>20. CASE PushEnd
  BY <1>20 DEF PushEnd, At, Goto, LockInv, LabelsInv, Threads
<1>21. CASE Stop
  BY <1>21 DEF Stop, At, Goto, MayStop, LockInv, Threads, locks
<1>22. CASE StopCollector
  BY <1>22 DEF StopCollector, At, Goto, LockInv, Threads, locks
<1>23. CASE Shutdown
  BY <1>23 DEF Shutdown, At, Goto, LockInv, LabelsInv, Threads
<1>24. CASE ShutdownCloses
  BY <1>24 DEF ShutdownCloses, At, Goto, LockInv, LabelsInv, Threads
<1>25. CASE StopWriter
  BY <1>25 DEF StopWriter, At, Goto, LockInv, Threads, locks
<1>26. CASE StopReturn
  BY <1>26 DEF StopReturn, At, Goto, LockInv, Threads, locks
<1>27. ASSUME NEW c \in Callers, Measure(c) PROVE LockInv'
  BY <1>27 DEF Measure, At, Goto, LockInv, Threads, locks
<1>28. ASSUME NEW a \in Adders, BeginAdd(a) PROVE LockInv'
  BY <1>28 DEF BeginAdd, Running, LockInv, Threads, locks
<1>29. ASSUME NEW a \in Adders, AddLock(a) PROVE LockInv'
  BY <1>29 DEF AddLock, LockInv, DataTypes, Threads
<1>30. ASSUME NEW a \in Adders, AddSend(a) PROVE LockInv'
  BY <1>30 DEF AddSend, At, Goto, LockInv, DataTypes, Threads
<1>31. CASE UNCHANGED <<pc, add, locks>>
  BY <1>31 DEF LockInv, StartInv, DataTypes, LabelsInv, Threads, locks
<1>. QED
  BY <1>1, <1>2, <1>3, <1>4, <1>5, <1>6, <1>7, <1>8, <1>9, <1>10, <1>11, <1>12, <1>13,
     <1>14, <1>15, <1>16, <1>17, <1>18, <1>19, <1>20, <1>21, <1>22, <1>23, <1>24, <1>25,
     <1>26, <1>27, <1>28, <1>29, <1>30, <1>31 DEF Next, Terminated, StartSteps, WaiterSteps,
     ListenerSteps, CallerSteps, AddSteps, UpdateSteps, StopSteps, InfoPanics, Cancel,
     ShutdownPanics, BeginCall, DeadCollector, AddPanics, UpdateConfig, UpdateReads,
     UpdateSend, UpdatePanics, vars, locks

LEMMA ReturnedStep ==
    ASSUME ReturnedInv, LabelsInv, DataTypes, [Next]_vars
           PROVE ReturnedInv'
<1>1. CASE StopperStops
  BY <1>1 DEF StopperStops, At, Goto, ReturnedInv, Returned, Threads
<1>2. CASE SetFields
  BY <1>2 DEF SetFields, At, Goto, ReturnedInv, Threads
<1>3. CASE Launch
  BY <1>3 DEF Launch, At, ReturnedInv, LabelsInv, Threads
<1>4. CASE StoreStarted
  BY <1>4 DEF StoreStarted, At, ReturnedInv, LabelsInv, Threads
<1>5. CASE InfoLock
  BY <1>5 DEF InfoLock, At, Goto, ReturnedInv, Threads
<1>6. CASE InfoEnd
  BY <1>6 DEF InfoEnd, At, Goto, ReturnedInv, Threads
<1>7. CASE ManagerDone
  BY <1>7 DEF ManagerDone, At, Goto, ReturnedInv, Returned, Threads
<1>8. CASE InfoSend
  BY <1>8 DEF InfoSend, At, Goto, ReturnedInv, Threads
<1>9. CASE WaiterClears
  BY <1>9 DEF WaiterClears, At, Goto, ReturnedInv, Returned, Threads
<1>10. CASE WaiterCloses
  BY <1>10 DEF WaiterCloses, At, Goto, ReturnedInv, Returned, Threads
<1>11. CASE WriterWrites
  BY <1>11 DEF WriterWrites, At, Goto, ReturnedInv, Returned, Threads
<1>12. CASE WriterReturns
  BY <1>12 DEF WriterReturns, At, Goto, ReturnedInv, Returned, Threads
<1>13. CASE ListenerLock
  BY <1>13 DEF ListenerLock, At, Goto, ReturnedInv, Returned, Threads
<1>14. CASE ListenerUpdate
  BY <1>14 DEF ListenerUpdate, At, Goto, ReturnedInv, Returned, Threads
<1>15. CASE ListenerReturns
  BY <1>15 DEF ListenerReturns, At, Goto, ReturnedInv, Returned, Threads
<1>16. CASE Tick
  BY <1>16 DEF Tick, At, Goto, ReturnedInv, Returned, Threads
<1>17. CASE LastTick
  BY <1>17 DEF LastTick, At, Goto, ReturnedInv, Returned, Threads
<1>18. CASE ForwarderLock
  BY <1>18 DEF ForwarderLock, At, Goto, ReturnedInv, Returned, Threads
<1>19. CASE PushHealth
  BY <1>19 DEF PushHealth, At, Goto, ReturnedInv, Returned, Threads
<1>20. CASE PushEnd
  BY <1>20 DEF PushEnd, At, Goto, ReturnedInv, Returned, Threads
<1>21. CASE Stop
  BY <1>21 DEF Stop, At, Goto, MayStop, ReturnedInv, Returned, Threads
<1>22. CASE StopCollector
  BY <1>22 DEF StopCollector, At, Goto, ReturnedInv, Returned, Threads
<1>23. CASE Shutdown
  BY <1>23 DEF Shutdown, At, Goto, ReturnedInv, Returned, Threads
<1>24. CASE ShutdownCloses
  BY <1>24 DEF ShutdownCloses, At, Goto, ReturnedInv, Returned, Threads
<1>25. CASE StopWriter
  BY <1>25 DEF StopWriter, At, Goto, ReturnedInv, Returned, Threads
<1>26. CASE StopReturn
  BY <1>26 DEF StopReturn, At, Goto, ReturnedInv, Returned, Threads
<1>27. ASSUME NEW c \in Callers, BeginCall(c) PROVE ReturnedInv'
  BY <1>27 DEF BeginCall, Running, ReturnedInv, Threads
<1>28. ASSUME NEW c \in Callers, Measure(c) PROVE ReturnedInv'
  BY <1>28 DEF Measure, At, Goto, ReturnedInv, Returned, Threads
<1>29. ASSUME NEW c \in Callers, DeadCollector(c) PROVE ReturnedInv'
  BY <1>29 DEF DeadCollector, ReturnedInv, Returned, Threads
<1>30. ASSUME NEW a \in Adders, BeginAdd(a) PROVE ReturnedInv'
  BY <1>30 DEF BeginAdd, Running, ReturnedInv, Threads
<1>31. ASSUME NEW a \in Adders, AddLock(a) PROVE ReturnedInv'
  BY <1>31 DEF AddLock, ReturnedInv, Returned, Threads
<1>32. ASSUME NEW a \in Adders, AddSend(a) PROVE ReturnedInv'
  BY <1>32 DEF AddSend, At, Goto, ReturnedInv, Returned, Threads
<1>33. CASE UNCHANGED <<pc, call, add>>
  BY <1>33 DEF ReturnedInv, Returned, MayStop, DataTypes, LabelsInv, Threads
<1>. QED
  BY <1>1, <1>2, <1>3, <1>4, <1>5, <1>6, <1>7, <1>8, <1>9, <1>10, <1>11, <1>12, <1>13,
     <1>14, <1>15, <1>16, <1>17, <1>18, <1>19, <1>20, <1>21, <1>22, <1>23, <1>24, <1>25,
     <1>26, <1>27, <1>28, <1>29, <1>30, <1>31, <1>32, <1>33 DEF Next, Terminated,
     StartSteps, WaiterSteps, ListenerSteps, CallerSteps, AddSteps, UpdateSteps, StopSteps,
     InfoPanics, Cancel, ShutdownPanics, AddPanics, UpdateConfig, UpdateReads, UpdateSend,
     UpdatePanics, vars

LEMMA QuietStep ==
    ASSUME ReturnedInv, QuietInv, Lifecycle, [Next]_vars PROVE
           QuietInv'
<1>1. CASE StopperStops
  BY <1>1 DEF StopperStops, At, Goto, QuietInv, Quiet, UpdatesEnded, Ended, Threads, configs
<1>2. CASE SetFields
  BY <1>2 DEF SetFields, At, Goto, QuietInv, Quiet, UpdatesEnded, Ended, Threads, configs
<1>3. CASE Launch
  BY <1>3 DEF Launch, At, QuietInv, Quiet, UpdatesEnded, Ended, Lifecycle, TypeInv,
     LabelsInv, Threads
<1>4. CASE StoreStarted
  BY <1>4 DEF StoreStarted, At, QuietInv, Quiet, UpdatesEnded, Ended, Lifecycle, TypeInv,
     LabelsInv, Threads, configs
<1>5. CASE InfoLock
  BY <1>5 DEF InfoLock, At, Goto, QuietInv, Quiet, UpdatesEnded, Ended, Threads, configs
<1>6. CASE InfoEnd
  BY <1>6 DEF InfoEnd, At, Goto, QuietInv, Quiet, UpdatesEnded, Ended, Threads, configs
<1>7. CASE ManagerDone
  BY <1>7 DEF ManagerDone, At, Goto, QuietInv, Quiet, UpdatesEnded, Ended, Threads, configs
<1>8. CASE InfoSend
  BY <1>8 DEF InfoSend, At, Goto, QuietInv, Quiet, UpdatesEnded, Ended, Threads, configs
<1>9. CASE InfoPanics
  BY <1>9 DEF InfoPanics, At, Panic, QuietInv, ReturnedInv, Lifecycle, OrderInv, ShutDown,
     Threads, configs
<1>10. CASE WaiterClears
  BY <1>10 DEF WaiterClears, At, Goto, QuietInv, Quiet, UpdatesEnded, Ended, Threads, configs
<1>11. CASE WaiterCloses
  BY <1>11 DEF WaiterCloses, At, Goto, QuietInv, Quiet, UpdatesEnded, Ended, Threads, configs
<1>12. CASE WriterWrites
  BY <1>12 DEF WriterWrites, At, Goto, QuietInv, Quiet, UpdatesEnded, Ended, Threads, configs
<1>13. CASE WriterReturns
  BY <1>13 DEF WriterReturns, At, Goto, QuietInv, Quiet, UpdatesEnded, Ended, Threads, configs
<1>14. CASE ListenerLock
  BY <1>14 DEF ListenerLock, At, Goto, QuietInv, Quiet, UpdatesEnded, Ended, Threads, configs
<1>15. CASE ListenerUpdate
  BY <1>15 DEF ListenerUpdate, At, Goto, QuietInv, Quiet, UpdatesEnded, Ended, Threads, configs
<1>16. CASE ListenerReturns
  BY <1>16 DEF ListenerReturns, At, Goto, QuietInv, Quiet, UpdatesEnded, Ended, Threads, configs
<1>17. CASE Tick
  BY <1>17 DEF Tick, At, Goto, QuietInv, Quiet, UpdatesEnded, Ended, Threads, configs
<1>18. CASE LastTick
  BY <1>18 DEF LastTick, At, Goto, QuietInv, Quiet, UpdatesEnded, Ended, Threads, configs
<1>19. CASE ForwarderLock
  BY <1>19 DEF ForwarderLock, At, Goto, QuietInv, Quiet, UpdatesEnded, Ended, Threads, configs
<1>20. CASE PushHealth
  BY <1>20 DEF PushHealth, At, Goto, QuietInv, Quiet, UpdatesEnded, Ended, Threads, configs
<1>21. CASE PushEnd
  BY <1>21 DEF PushEnd, At, Goto, QuietInv, Quiet, UpdatesEnded, Ended, Threads, configs
<1>22. CASE Stop
  BY <1>22 DEF Stop, At, Goto, MayStop, QuietInv, Quiet, UpdatesEnded, Ended, Threads, configs
<1>23. CASE StopCollector
  BY <1>23 DEF StopCollector, At, Goto, QuietInv, Quiet, UpdatesEnded, Ended, Threads, configs
<1>24. CASE Shutdown
  BY <1>24 DEF Shutdown, At, Goto, QuietInv, Quiet, UpdatesEnded, Ended, Threads, configs
<1>25. CASE ShutdownPanics
  BY <1>25 DEF ShutdownPanics, At, Panic, QuietInv, Quiet, UpdatesEnded, Ended, Lifecycle,
     StartInv, Threads, configs
<1>26. CASE ShutdownCloses
  BY <1>26 DEF ShutdownCloses, At, Goto, QuietInv, Quiet, UpdatesEnded, Ended, Threads, configs
<1>27. CASE StopWriter
  BY <1>27 DEF StopWriter, At, Goto, QuietInv, Quiet, UpdatesEnded, Ended, Threads, configs
<1>28. CASE StopReturn
  BY <1>28 DEF StopReturn, At, Goto, QuietInv, Quiet, UpdatesEnded, Ended, Threads, configs
<1>29. ASSUME NEW c \in Callers, Measure(c) PROVE QuietInv'
  BY <1>29 DEF Measure, At, Goto, QuietInv, ReturnedInv, Returned, Threads, configs
<1>30. ASSUME NEW a \in Adders, AddSend(a) PROVE QuietInv'
  BY <1>30 DEF AddSend, At, Goto, QuietInv, Quiet, UpdatesEnded, Ended, Threads, configs
<1>31. ASSUME NEW a \in Adders, AddPanics(a) PROVE QuietInv'
  BY <1>31 DEF AddPanics, Panic, QuietInv, ReturnedInv, Returned, Lifecycle, OrderInv,
     ShutDown, Threads, configs
<1>32. ASSUME NEW d \in Durations, UpdateConfig(d) PROVE QuietInv'
  BY <1>32 DEF UpdateConfig, Running, QuietInv, Threads
<1>33. ASSUME NEW k \in DOMAIN updates, UpdateReads(k) PROVE QuietInv'
  BY <1>33 DEF UpdateReads, QuietInv, Quiet, UpdatesEnded, Ended, Threads
<1>34. ASSUME NEW k \in DOMAIN updates, UpdateSend(k) PROVE QuietInv'
  BY <1>34 DEF UpdateSend, At, QuietInv, Quiet, UpdatesEnded, Ended, Threads
<1>35. ASSUME NEW k \in DOMAIN updates, UpdatePanics(k) PROVE QuietInv'
  BY <1>35 DEF UpdatePanics, Panic, QuietInv, Quiet, UpdatesEnded, Ended, Lifecycle,
     OrderInv, ShutDown, Threads, configs
<1>36. CASE UNCHANGED <<pc, updates, panicked>>
  BY <1>36 DEF QuietInv, ReturnedInv, Returned, Quiet, UpdatesEnded, Ended, MayStop,
     Lifecycle, TypeInv, ConfigTypes, Update, DataTypes, OrderInv, StartInv, ShutDown,
     Panic, LabelsInv, Threads
<1>. QED
  BY <1>1, <1>2, <1>3, <1>4, <1>5, <1>6, <1>7, <1>8, <1>9, <1>10, <1>11, <1>12, <1>13,
     <1>14, <1>15, <1>16, <1>17, <1>18, <1>19, <1>20, <1>21, <1>22, <1>23, <1>24, <1>25,
     <1>26, <1>27, <1>28, <1>29, <1>30, <1>31, <1>32, <1>33, <1>34, <1>35, <1>36 DEF Next,
     Terminated, StartSteps, WaiterSteps, ListenerSteps, CallerSteps, AddSteps, UpdateSteps,
     StopSteps, Cancel, BeginCall, DeadCollector, BeginAdd, AddLock, vars, configs

THEOREM Invariance == Spec => []IInv
<1>1. ASSUME IInv, [Next]_vars PROVE IInv'
  <2>1. TypeInv'
    BY <1>1, LabelsStep, ChannelTypesStep, DataTypesStep, ConfigTypesStep
       DEF IInv, Lifecycle, TypeInv
  <2>2. StartInv' /\ OrderInv' /\ StopInv' /\ LockInv'
    BY <1>1, <2>1, StartStep, OrderStep, StopStep, LockStep DEF IInv, Lifecycle, TypeInv
  <2>3. ReturnedInv' /\ QuietInv'
    BY <1>1, ReturnedStep, QuietStep DEF IInv, Lifecycle, TypeInv
  <2>. QED
    BY <2>1, <2>2, <2>3 DEF IInv, Lifecycle
<1>. QED
  BY InitInv, <1>1, PTL DEF Spec

(* The variables keep their types, whatever the discipline. *)
THEOREM FrameworkTypeCorrect == Spec => []TypeOK
  BY Invariance, TypeInvIsTypeOK, PTL DEF IInv, Lifecycle

(* Whoever stops and cancels what and when, the forwarder's last report has a reader. *)
THEOREM FlushIsRead == Spec => []FlushHasReader
<1>1. IInv => FlushHasReader
  BY DEF IInv, Lifecycle, OrderInv, FlushHasReader
<1>. QED
  BY Invariance, <1>1, PTL

(* When Shutdown closes its channels their users in the manager have returned. *)
THEOREM ClosingIsLast == Spec => []ClosedAfterUse
<1>1. IInv => ClosedAfterUse
  BY DEF IInv, Lifecycle, OrderInv, StartInv, ClosedAfterUse
<1>. QED
  BY Invariance, <1>1, PTL

(* No collector call is left waiting for a listener that takes nothing more. *)
THEOREM CallsGetOut == Spec => []CallHasWayOut
<1>1. IInv => CallHasWayOut
  BY DEF IInv, Lifecycle, TypeInv, LabelsInv, StopInv, LockInv, ShutDown, Stopping, CallHasWayOut
<1>. QED
  BY Invariance, <1>1, PTL

(* When FrameworkStop, called after the other calls have returned, returns, the goroutines of    *)
(* FrameworkStart, the manager and the writer have returned and the mutexes are free.            *)
THEOREM StopEndsThreads ==
    ASSUME Discipline \in {"returned", "quiet"}
    PROVE  Spec => []ThreadsStopped
<1>1. IInv => ThreadsStopped
  BY DEF IInv, Lifecycle, TypeInv, ChannelTypes, LabelsInv, OrderInv, LockInv, ShutDown, Threads,
         ReturnedInv, Returned, ThreadsStopped
<1>. QED
  BY Invariance, <1>1, PTL

(* A program that in addition waits for what its calls have started finds nothing of the         *)
(* framework left when FrameworkStop returns, the goroutines of UpdateConfig included, but one   *)
(* that found configIn nil.                                                                      *)
THEOREM StopIsComplete ==
    ASSUME Discipline = "quiet"
    PROVE  Spec => []AllStopped
<1>1. IInv => (pc["app"] = "returned" => UpdatesEnded)
  BY DEF IInv, QuietInv, Quiet
<1>2. IInv => ThreadsStopped
  BY DEF IInv, Lifecycle, TypeInv, ChannelTypes, LabelsInv, OrderInv, LockInv, ShutDown, Threads,
         ReturnedInv, Returned, ThreadsStopped
<1>. QED
  BY Invariance, <1>1, <1>2, PTL DEF AllStopped

(* The framework never panics in a program that waits for what its calls have started. *)
THEOREM QuietStopIsSafe ==
    ASSUME Discipline = "quiet"
    PROVE  Spec => []NoPanic
<1>1. IInv => NoPanic
  BY DEF IInv, QuietInv, NoPanic
<1>. QED
  BY Invariance, <1>1, PTL

LEMMA HeldStep ==
    ASSUME DataTypes, LabelsInv, StartInv, HeldInv, [Next]_vars
           PROVE HeldInv'
<1>1. CASE StopperStops
  BY <1>1 DEF StopperStops, At, Goto, HeldInv, Threads, data
<1>2. CASE SetFields
  BY <1>2 DEF SetFields, At, Goto, HeldInv, Threads, data
<1>3. CASE Launch
  BY <1>3 DEF Launch, At, HeldInv, StartInv, Threads, data
<1>4. CASE StoreStarted
  BY <1>4 DEF StoreStarted, At, HeldInv, LabelsInv, Threads, data
<1>5. CASE InfoLock
  BY <1>5 DEF InfoLock, At, Goto, HeldInv, Threads
<1>6. CASE InfoEnd
  BY <1>6 DEF InfoEnd, At, Goto, HeldInv, Threads, data
<1>7. CASE ManagerDone
  BY <1>7 DEF ManagerDone, At, Goto, HeldInv, Threads, data
<1>8. CASE InfoSend
  BY <1>8 DEF InfoSend, At, Goto, HeldInv, Threads
<1>9. CASE WaiterClears
  BY <1>9 DEF WaiterClears, At, Goto, HeldInv, Threads, data
<1>10. CASE WaiterCloses
  BY <1>10 DEF WaiterCloses, At, Goto, HeldInv, Threads, data
<1>11. CASE WriterWrites
  BY <1>11 DEF WriterWrites, At, Goto, HeldInv, Threads, data
<1>12. CASE WriterReturns
  BY <1>12 DEF WriterReturns, At, Goto, HeldInv, Threads, data
<1>13. CASE ListenerLock
  BY <1>13 DEF ListenerLock, At, Goto, HeldInv, Threads, data
<1>14. CASE ListenerUpdate
  BY <1>14 DEF ListenerUpdate, At, Goto, HeldInv, Threads
<1>15. CASE ListenerReturns
  BY <1>15 DEF ListenerReturns, At, Goto, HeldInv, Threads, data
<1>16. CASE Tick
  BY <1>16 DEF Tick, At, Goto, HeldInv, Threads, data
<1>17. CASE LastTick
  BY <1>17 DEF LastTick, At, Goto, HeldInv, Threads
<1>18. CASE ForwarderLock
  BY <1>18 DEF ForwarderLock, At, Goto, HeldInv, Threads
<1>19. CASE PushHealth
  BY <1>19 DEF PushHealth, At, Goto, HeldInv, Threads
<1>20. CASE PushEnd
  BY <1>20 DEF PushEnd, At, Goto, HeldInv, Threads, data
<1>21. CASE Stop
  BY <1>21 DEF Stop, At, Goto, MayStop, HeldInv, Threads, data
<1>22. CASE StopCollector
  BY <1>22 DEF StopCollector, At, Goto, HeldInv, Threads, data
<1>23. CASE Shutdown
  BY <1>23 DEF Shutdown, At, Goto, HeldInv, Threads, data
<1>24. CASE ShutdownCloses
  BY <1>24 DEF ShutdownCloses, At, Goto, HeldInv, Threads, data
<1>25. CASE StopWriter
  BY <1>25 DEF StopWriter, At, Goto, HeldInv, Threads, data
<1>26. CASE StopReturn
  BY <1>26 DEF StopReturn, At, Goto, HeldInv, Threads, data
<1>27. ASSUME NEW c \in Callers, BeginCall(c) PROVE HeldInv'
  BY <1>27 DEF BeginCall, Running, HeldInv, Threads, data
<1>28. ASSUME NEW c \in Callers, Measure(c) PROVE HeldInv'
  BY <1>28 DEF Measure, At, Goto, HeldInv, DataTypes, LabelsInv, Threads
<1>29. ASSUME NEW c \in Callers, DeadCollector(c) PROVE HeldInv'
  BY <1>29 DEF DeadCollector, HeldInv, Threads, data
<1>30. ASSUME NEW a \in Adders, AddLock(a) PROVE HeldInv'
  BY <1>30 DEF AddLock, HeldInv, Threads
<1>31. ASSUME NEW a \in Adders, AddSend(a) PROVE HeldInv'
  BY <1>31 DEF AddSend, At, Goto, HeldInv, Threads, data
<1>32. CASE UNCHANGED <<pc, call, registered, pending, written, held>>
  BY <1>32 DEF HeldInv, StartInv, DataTypes, LabelsInv, Threads
<1>. QED
  BY <1>1, <1>2, <1>3, <1>4, <1>5, <1>6, <1>7, <1>8, <1>9, <1>10, <1>11, <1>12, <1>13,
     <1>14, <1>15, <1>16, <1>17, <1>18, <1>19, <1>20, <1>21, <1>22, <1>23, <1>24, <1>25,
     <1>26, <1>27, <1>28, <1>29, <1>30, <1>31, <1>32 DEF Next, Terminated, StartSteps,
     WaiterSteps, ListenerSteps, CallerSteps, AddSteps, UpdateSteps, StopSteps, InfoPanics,
     Cancel, ShutdownPanics, BeginAdd, AddPanics, UpdateConfig, UpdateReads, UpdateSend,
     UpdatePanics, vars, data

LEMMA ConservedStep ==
    ASSUME AddsNew, DataTypes, LabelsInv, HeldInv,
           MeasurementsConserved, [Next]_vars PROVE MeasurementsConserved'
<1>1. CASE ListenerUpdate
  BY <1>1 DEF ListenerUpdate, At, Goto, MeasurementsConserved, HeldInv
<1>2. CASE PushHealth
  BY <1>2 DEF PushHealth, At, Goto, MeasurementsConserved
<1>3. ASSUME NEW c \in Callers, BeginCall(c) PROVE MeasurementsConserved'
  BY <1>3 DEF BeginCall, Running, MeasurementsConserved, data
<1>4. ASSUME NEW c \in Callers, Measure(c) PROVE MeasurementsConserved'
  BY <1>4 DEF Measure, At, Goto, MeasurementsConserved, HeldInv
<1>5. ASSUME NEW c \in Callers, DeadCollector(c) PROVE MeasurementsConserved'
  BY <1>5 DEF DeadCollector, MeasurementsConserved, data
<1>6. ASSUME NEW a \in Adders, AddLock(a) PROVE MeasurementsConserved'
  BY <1>6 DEF AddLock, AddsNew, MeasurementsConserved
<1>7. CASE UNCHANGED <<call, pending, written, held>>
  BY <1>7 DEF AddsNew, MeasurementsConserved, HeldInv, DataTypes, LabelsInv, Threads
<1>. QED
  BY <1>1, <1>2, <1>3, <1>4, <1>5, <1>6, <1>7 DEF Next, Terminated, StartSteps, WaiterSteps,
     ListenerSteps, CallerSteps, AddSteps, UpdateSteps, StopSteps, StopperStops, SetFields,
     Launch, StoreStarted, InfoLock, InfoEnd, ManagerDone, InfoSend, InfoPanics,
     WaiterClears, WaiterCloses, WriterWrites, WriterReturns, ListenerLock, ListenerReturns,
     Tick, LastTick, ForwarderLock, PushEnd, Cancel, Stop, StopCollector, Shutdown,
     ShutdownPanics, ShutdownCloses, StopWriter, StopReturn, BeginAdd, AddSend, AddPanics,
     UpdateConfig, UpdateReads, UpdateSend, UpdatePanics, vars, data

(* An accepted measurement is in one place, if no component is registered anew. *)
THEOREM NothingIsLost ==
    ASSUME AddsNew
    PROVE  Spec => []MeasurementsConserved
<1>. DEFINE Inv == IInv /\ HeldInv /\ MeasurementsConserved
<1>1. Init => Inv
  BY InitInv DEF Init, HeldInv, MeasurementsConserved
<1>2. ASSUME Inv, [Next]_vars, IInv' PROVE Inv'
  BY <1>2, HeldStep, ConservedStep DEF IInv, Lifecycle, TypeInv
<1>. QED
  BY Invariance, <1>1, <1>2, PTL DEF Spec

LEMMA ReportStep ==
    ASSUME AddsNew, HeldInv, Lifecycle, ReturnedInv,
           QuietInv, ReportInv, [Next]_vars PROVE ReportInv'
<1>1. CASE StopperStops
  BY <1>1 DEF StopperStops, At, Goto, ReportInv, Waiting, Threads, data
<1>2. CASE SetFields
  BY <1>2 DEF SetFields, At, Goto, ReportInv, Lifecycle, StartInv, Threads, data
<1>3. CASE Launch
  BY <1>3 DEF Launch, At, ReportInv, Lifecycle, TypeInv, LabelsInv, Threads, channels, data
<1>4. CASE StoreStarted
  BY <1>4 DEF StoreStarted, At, ReportInv, ReturnedInv, Lifecycle, TypeInv, StopInv,
     Stopping, ShutDown, LabelsInv, Threads, channels, data
<1>5. CASE InfoLock
  BY <1>5 DEF InfoLock, At, Goto, ReportInv, ReturnedInv, Lifecycle, StopInv, Stopping,
     ShutDown, Threads, channels
<1>6. CASE InfoEnd
  BY <1>6 DEF InfoEnd, At, Goto, ReportInv, ReturnedInv, Lifecycle, StopInv, Stopping,
     ShutDown, Threads, channels, data
<1>7. CASE ManagerDone
  BY <1>7 DEF ManagerDone, At, Goto, ReportInv, Waiting, Lifecycle, OrderInv, StopInv,
     Stopping, ShutDown, Threads, data
<1>8. CASE InfoSend
  BY <1>8 DEF InfoSend, At, Goto, ReportInv, ReturnedInv, Lifecycle, StopInv, Stopping,
     ShutDown, Threads, channels
<1>9. CASE WaiterClears
  BY <1>9 DEF WaiterClears, At, Goto, ReportInv, Waiting, Threads, channels, data
<1>10. CASE WaiterCloses
  BY <1>10 DEF WaiterCloses, At, Goto, ReportInv, Waiting, Threads, data
<1>11. CASE WriterWrites
  BY <1>11 DEF WriterWrites, At, Goto, ReportInv, Waiting, Threads, channels, data
<1>12. CASE WriterReturns
  BY <1>12 DEF WriterReturns, At, Goto, ReportInv, Waiting, Lifecycle, OrderInv, StopInv,
     Stopping, ShutDown, Threads, data
<1>13. CASE ListenerLock
  BY <1>13 DEF ListenerLock, At, Goto, ReportInv, QuietInv, Quiet, Lifecycle, StopInv,
     Stopping, ShutDown, Threads, channels, data
<1>14. CASE ListenerUpdate
  BY <1>14 DEF ListenerUpdate, At, Goto, ReportInv, QuietInv, Quiet, Lifecycle, StopInv,
     Stopping, ShutDown, Threads, channels
<1>15. CASE ListenerReturns
  BY <1>15 DEF ListenerReturns, At, Goto, ReportInv, Waiting, Threads, channels, data
<1>16. CASE Tick
  BY <1>16 DEF Tick, At, Goto, ReportInv, Threads, channels, data
<1>17. CASE LastTick
  BY <1>17 DEF LastTick, At, Goto, ReportInv, Threads, channels
<1>18. CASE ForwarderLock
  BY <1>18 DEF ForwarderLock, At, Goto, ReportInv, Waiting, HeldInv, Threads, channels
<1>19. CASE PushHealth
  BY <1>19 DEF PushHealth, At, Goto, ReportInv, Waiting, Threads, channels
<1>20. CASE PushEnd
  BY <1>20 DEF PushEnd, At, Goto, ReportInv, Waiting, Threads, data
<1>21. CASE Cancel
  BY <1>21 DEF Cancel, ReportInv, Threads, data
<1>22. CASE Stop
  BY <1>22 DEF Stop, At, Goto, MayStop, ReportInv, Lifecycle, TypeInv, StopInv, Stopping,
     ShutDown, LabelsInv, Threads, data
<1>23. CASE StopCollector
  BY <1>23 DEF StopCollector, At, Goto, ReportInv, Waiting, Threads, data
<1>24. CASE Shutdown
  BY <1>24 DEF Shutdown, At, Goto, ReportInv, Waiting, Threads, data
<1>25. CASE ShutdownCloses
  BY <1>25 DEF ShutdownCloses, At, Goto, ReportInv, Waiting, Threads, data
<1>26. CASE StopWriter
  BY <1>26 DEF StopWriter, At, Goto, ReportInv, Waiting, Threads, data
<1>27. CASE StopReturn
  BY <1>27 DEF StopReturn, At, Goto, ReportInv, Waiting, Threads, channels, data
<1>28. ASSUME NEW c \in Callers, Measure(c) PROVE ReportInv'
  BY <1>28 DEF Measure, At, Goto, ReportInv, ReturnedInv, Returned, Lifecycle, StopInv,
     Stopping, ShutDown, Threads, channels
<1>29. ASSUME NEW a \in Adders, AddLock(a) PROVE ReportInv'
  BY <1>29 DEF AddLock, ReportInv, ReturnedInv, Returned, Lifecycle, StopInv, Stopping,
     ShutDown, Threads, channels
<1>30. ASSUME NEW a \in Adders, AddSend(a) PROVE ReportInv'
  BY <1>30 DEF AddSend, At, Goto, ReportInv, ReturnedInv, Returned, Lifecycle, StopInv,
     Stopping, ShutDown, Threads, channels, data
<1>31. CASE UNCHANGED <<pc, cancelled, pending, left, final>>
  BY <1>31 DEF ReportInv, Waiting, AddsNew, HeldInv, ReturnedInv, Returned, QuietInv, Quiet,
     MayStop, Lifecycle, TypeInv, DataTypes, OrderInv, StopInv, LockInv, Stopping, StartInv,
     ShutDown, LabelsInv, Threads
<1>. QED
  BY <1>1, <1>2, <1>3, <1>4, <1>5, <1>6, <1>7, <1>8, <1>9, <1>10, <1>11, <1>12, <1>13,
     <1>14, <1>15, <1>16, <1>17, <1>18, <1>19, <1>20, <1>21, <1>22, <1>23, <1>24, <1>25,
     <1>26, <1>27, <1>28, <1>29, <1>30, <1>31 DEF Next, Terminated, StartSteps, WaiterSteps,
     ListenerSteps, CallerSteps, AddSteps, UpdateSteps, StopSteps, InfoPanics,
     ShutdownPanics, BeginCall, DeadCollector, BeginAdd, AddPanics, UpdateConfig,
     UpdateReads, UpdateSend, UpdatePanics, vars, channels, data

LEMMA ConfigStep ==
    ASSUME ConfigTypes, LabelsInv, StartInv, ConfigInv, [Next]_vars PROVE ConfigInv'
<1>0. /\ DOMAIN updates = 1 .. Len(updates) /\ Len(updates) \in Nat
      /\ updates = << >> <=> Len(updates) = 0
  BY DEF ConfigTypes
<1>1. CASE Launch
  <2>1. updates' = updates /\ config' = config /\ ticker' = config
    BY <1>1 DEF Launch, At
  <2>2. updates # << >> => Len(updates) \in InForce
    BY <1>0 DEF InForce
  <2>. QED
    BY <1>0, <2>1, <2>2 DEF ConfigInv, InForce, Ended
<1>2. ASSUME NEW d \in Durations, UpdateConfig(d) PROVE ConfigInv'
  <2>. DEFINE n == Len(updates) + 1
  <2>1. /\ updates' = Append(updates, [duration |-> d, state |-> "spawned", alone |-> UpdatesEnded])
        /\ config' = d
    BY <1>2 DEF UpdateConfig
  <2>2. /\ Len(updates') = n /\ DOMAIN updates' = 1 .. n
        /\ \A k \in 1 .. Len(updates) : updates'[k] = updates[k]
        /\ updates'[n] = [duration |-> d, state |-> "spawned", alone |-> UpdatesEnded]
    BY <2>1, <1>0 DEF ConfigTypes
  <2>3. updates' # << >> /\ n \in InForce'
    BY <2>2, <1>0 DEF InForce
  <2>6. updates'[n].state = "spawned"
    BY <2>2
  <2>4. config' = updates'[Len(updates')].duration
    BY <2>1, <2>2
  <2>5. ASSUME NEW i \in DOMAIN updates', NEW k \in DOMAIN updates', k < i, updates'[i].alone
        PROVE  Ended(k)'
    <3>1. k \in 1 .. Len(updates) /\ updates'[k] = updates[k]
      BY <2>2, <2>5, <1>0
    <3>2. CASE i = n
      BY <3>1, <3>2, <2>2, <2>5, <1>0 DEF UpdatesEnded, Ended
    <3>3. CASE i # n
      BY <3>1, <3>3, <2>2, <2>5, <1>0 DEF ConfigInv, Ended
    <3>. QED
      BY <3>2, <3>3
  <2>7. \E k \in InForce' : ~Ended(k)'
    BY <2>3, <2>6 DEF Ended
  <2>. QED
    BY <2>3, <2>4, <2>5, <2>7 DEF ConfigInv
<1>3. ASSUME NEW k \in DOMAIN updates, UpdateReads(k) PROVE ConfigInv'
  <2>1. /\ UNCHANGED <<pc, config, ticker>>
        /\ DOMAIN updates' = DOMAIN updates /\ Len(updates') = Len(updates)
        /\ updates # << >> /\ updates' # << >>
        /\ \A i \in DOMAIN updates :
             /\ updates'[i].duration = updates[i].duration
             /\ updates'[i].alone = updates[i].alone
             /\ i # k => updates'[i] = updates[i]
        /\ updates[k].state = "spawned"
        /\ updates'[k].state = IF stopSig = "nil" THEN "stuck" ELSE "sending"
    BY <1>0, <1>3 DEF UpdateReads, ConfigTypes, Update
  <2>2. stopSig = "nil" => pc["forwarder"] = "off"
    BY DEF StartInv, LabelsInv
  <2>3. InForce' = InForce
    BY <2>1 DEF InForce
  <2>4. \A i \in DOMAIN updates : Ended(i) => Ended(i)'
    BY <2>1 DEF Ended
  <2>5. pc["forwarder"] # "off" => \A i \in DOMAIN updates : ~Ended(i) => ~Ended(i)'
    BY <2>1, <2>2 DEF Ended
  <2>. QED
    BY <1>0, <2>1, <2>3, <2>4, <2>5 DEF ConfigInv, InForce
<1>4. ASSUME NEW k \in DOMAIN updates, UpdateSend(k) PROVE ConfigInv'
  <2>1. /\ UNCHANGED <<pc, config>> /\ ticker' = updates[k].duration
        /\ DOMAIN updates' = DOMAIN updates /\ Len(updates') = Len(updates)
        /\ updates # << >> /\ updates' # << >>
        /\ \A i \in DOMAIN updates :
             /\ updates'[i].duration = updates[i].duration
             /\ updates'[i].alone = updates[i].alone
             /\ i # k => updates'[i] = updates[i]
        /\ updates[k].state = "sending"
        /\ updates'[k].state = "done"
    BY <1>0, <1>4 DEF UpdateSend, At, ConfigTypes, Update
  <2>2. InForce' = InForce
    BY <2>1 DEF InForce
  <2>3. k \in InForce
    BY <2>1 DEF InForce, ConfigInv, Ended
  <2>4. \A i \in DOMAIN updates : Ended(i) => Ended(i)'
    BY <2>1 DEF Ended
  <2>. QED
    BY <1>0, <2>1, <2>2, <2>3, <2>4 DEF ConfigInv, InForce
<1>5. ASSUME UNCHANGED configs, pc["forwarder"] = "off" <=> pc'["forwarder"] = "off"
      PROVE  ConfigInv'
  BY <1>5 DEF ConfigInv, InForce, Ended, configs
<1>6. CASE StopperStops
  BY <1>6, <1>5 DEF StopperStops, At, Goto, Threads, LabelsInv, StartInv, configs
<1>7. CASE SetFields
  BY <1>7, <1>5 DEF SetFields, At, Goto, Threads, LabelsInv, StartInv, configs
<1>8. CASE StoreStarted
  BY <1>8, <1>5 DEF StoreStarted, At, Goto, Threads, LabelsInv, StartInv, configs
<1>9. CASE InfoLock
  BY <1>9, <1>5 DEF InfoLock, At, Goto, Threads, LabelsInv, StartInv, configs
<1>10. CASE InfoEnd
  BY <1>10, <1>5 DEF InfoEnd, At, Goto, Threads, LabelsInv, StartInv, configs
<1>11. CASE ManagerDone
  BY <1>11, <1>5 DEF ManagerDone, At, Goto, Threads, LabelsInv, StartInv, configs
<1>12. CASE InfoSend
  BY <1>12, <1>5 DEF InfoSend, At, Goto, Threads, LabelsInv, StartInv, configs
<1>13. CASE WaiterClears
  BY <1>13, <1>5 DEF WaiterClears, At, Goto, Threads, LabelsInv, StartInv, configs
<1>14. CASE WaiterCloses
  BY <1>14, <1>5 DEF WaiterCloses, At, Goto, Threads, LabelsInv, StartInv, configs
<1>15. CASE WriterWrites
  BY <1>15, <1>5 DEF WriterWrites, At, Goto, Threads, LabelsInv, StartInv, configs
<1>16. CASE WriterReturns
  BY <1>16, <1>5 DEF WriterReturns, At, Goto, Threads, LabelsInv, StartInv, configs
<1>17. CASE ListenerLock
  BY <1>17, <1>5 DEF ListenerLock, At, Goto, Threads, LabelsInv, StartInv, configs
<1>18. CASE ListenerUpdate
  BY <1>18, <1>5 DEF ListenerUpdate, At, Goto, Threads, LabelsInv, StartInv, configs
<1>19. CASE ListenerReturns
  BY <1>19, <1>5 DEF ListenerReturns, At, Goto, Threads, LabelsInv, StartInv, configs
<1>20. CASE Tick
  BY <1>20, <1>5 DEF Tick, At, Goto, Threads, LabelsInv, StartInv, configs
<1>21. CASE LastTick
  BY <1>21, <1>5 DEF LastTick, At, Goto, Threads, LabelsInv, StartInv, configs
<1>22. CASE ForwarderLock
  BY <1>22, <1>5 DEF ForwarderLock, At, Goto, Threads, LabelsInv, StartInv, configs
<1>23. CASE PushHealth
  BY <1>23, <1>5 DEF PushHealth, At, Goto, Threads, LabelsInv, StartInv, configs
<1>24. CASE PushEnd
  BY <1>24, <1>5 DEF PushEnd, At, Goto, Threads, LabelsInv, StartInv, configs
<1>25. CASE Stop
  BY <1>25, <1>5 DEF Stop, At, Goto, Threads, LabelsInv, StartInv, configs, MayStop
<1>26. CASE StopCollector
  BY <1>26, <1>5 DEF StopCollector, At, Goto, Threads, LabelsInv, StartInv, configs
<1>27. CASE Shutdown
  BY <1>27, <1>5 DEF Shutdown, At, Goto, Threads, LabelsInv, StartInv, configs
<1>28. CASE ShutdownCloses
  BY <1>28, <1>5 DEF ShutdownCloses, At, Goto, Threads, LabelsInv, StartInv, configs
<1>29. CASE StopWriter
  BY <1>29, <1>5 DEF StopWriter, At, Goto, Threads, LabelsInv, StartInv, configs
<1>30. CASE StopReturn
  BY <1>30, <1>5 DEF StopReturn, At, Goto, Threads, LabelsInv, StartInv, configs
<1>31. ASSUME NEW c \in Callers, Measure(c) PROVE ConfigInv'
  BY <1>31, <1>5 DEF Measure, At, Goto, Threads, LabelsInv, configs
<1>32. ASSUME NEW a \in Adders, AddSend(a) PROVE ConfigInv'
  BY <1>32, <1>5 DEF AddSend, At, Goto, Threads, LabelsInv, configs
<1>33. CASE UNCHANGED <<pc, configs>>
  BY <1>33, <1>5 DEF configs
<1>. QED
  BY <1>1, <1>2, <1>3, <1>4, <1>5, <1>6, <1>7, <1>8, <1>9, <1>10, <1>11, <1>12, <1>13,
     <1>14, <1>15, <1>16, <1>17, <1>18, <1>19, <1>20, <1>21, <1>22, <1>23, <1>24, <1>25,
     <1>26, <1>27, <1>28, <1>29, <1>30, <1>31, <1>32, <1>33 DEF Next, Terminated,
     StartSteps, WaiterSteps, ListenerSteps, CallerSteps, AddSteps, UpdateSteps, StopSteps,
     InfoPanics, Cancel, ShutdownPanics, BeginCall, DeadCollector, BeginAdd, AddLock,
     AddPanics, UpdatePanics, vars, configs

(* A program that waits for what its calls have started, and leaves the context alone, gets all  *)
(* accepted measurements reported before FrameworkStop returns.                                  *)
THEOREM QuietStopReportsAll ==
    ASSUME AddsNew, Discipline = "quiet", MayCancel = FALSE
    PROVE  Spec => []AcceptedIsWritten
<1>. DEFINE Inv == IInv /\ HeldInv /\ MeasurementsConserved /\ ReportInv
<1>1. Init => Inv
  BY InitInv DEF Init, HeldInv, MeasurementsConserved, ReportInv, Waiting, Threads
<1>2. ASSUME Inv, [Next]_vars, IInv' PROVE Inv'
  BY <1>2, HeldStep, ConservedStep, ReportStep DEF IInv, Lifecycle, TypeInv
<1>3. Inv => AcceptedIsWritten
  BY DEF IInv, Lifecycle, TypeInv, DataTypes, HeldInv, MeasurementsConserved, ReportInv, Waiting,
         OrderInv, ShutDown, QuietInv, Quiet, AcceptedIsWritten
<1>. QED
  BY Invariance, <1>1, <1>2, <1>3, PTL DEF Spec

(* However many updates there are and wherever Start is when they come: the pace is that of the  *)
(* last update, or, if several overlap, of one of those.                                         *)
THEOREM UpdatesApply == Spec => []ConfigApplied
<1>. DEFINE Inv == IInv /\ ConfigInv
<1>1. Init => Inv
  BY InitInv DEF Init, ConfigInv, Threads
<1>2. ASSUME Inv, [Next]_vars, IInv' PROVE Inv'
  BY <1>2, ConfigStep DEF IInv, Lifecycle, TypeInv
<1>3. Inv => ConfigApplied
  BY DEF ConfigInv, ConfigApplied, InForce, UpdatesEnded
<1>. QED
  BY Invariance, <1>1, <1>2, <1>3, PTL DEF Spec
=============================================================================
