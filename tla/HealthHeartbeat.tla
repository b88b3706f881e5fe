--------------------------- MODULE HealthHeartbeat ---------------------------
(***************************************************************************)
(* The heartbeats of the collector: calls of HeartBeat, the goroutine each *)
(* of them leaves behind, the cancel it returns, UpdateCycleDuration, and  *)
(* the stop of the collector.                                              *)
(*                                                                         *)
(* A call and its goroutine have one name.  The trackers are a sync.Map:   *)
(* Load, Store and Delete are atomic, Range reads one key at a time.  The  *)
(* listener and the closing of "done" are HealthFramework's: here the      *)
(* listener reads until the framework is told to stop, and "done" is       *)
(* closed some time after that.                                            *)
(***************************************************************************)
EXTENDS Naturals, FiniteSets

CONSTANTS
    Components,     \* IDs of components
    Beats,          \* calls of HeartBeat
    ComponentOf,    \* the component a call is for
    Durations,      \* cycle durations, positive
    FirstDuration,  \* the one NewCollector is given
    Updates,        \* calls of UpdateCycleDuration
    NewDuration,    \* the duration a call sets
    Allowed,        \* which disciplines the program may follow
    UpdatesOf       \* the calls of UpdateCycleDuration a program of each of them makes

(* "any": it calls when it likes.  "settled": HeartBeat is called for a component when the     *)
(* goroutines of the calls before are in their loop, or gone if they were cancelled.           *)
(* "spaced": when they are all gone; and UpdateCycleDuration when no other call of it is under *)
(* way.                                                                                        *)
Disciplines == {"any", "settled", "spaced"}

Stopped   == 0
NoTracker == "none"

ASSUME HealthHeartbeatAssumption ==
    /\ ComponentOf \in [Beats -> Components]
    /\ Durations \subseteq Nat \ {Stopped} /\ FirstDuration \in Durations
    /\ NoTracker \notin Beats
    /\ NewDuration \in [Updates -> Durations]
    /\ Allowed \subseteq Disciplines
    /\ UpdatesOf \in [Allowed -> SUBSET Updates]

VARIABLES
    hb,         \* where each call of HeartBeat is
    old,        \* the tracker it has loaded
    gr,         \* where its goroutine is
    ticker,     \* the pace of that goroutine's ticker, or Stopped
    cancelled,  \* calls whose context is done
    trackers,   \* hc.heartbeats
    duration,   \* hc.cycleDuration
    upd,        \* where each call of UpdateCycleDuration is
    toVisit,    \* components its Range has not come to
    visited,    \* the tracker it has come to
    overlooked, \* history: goroutines a Range has missed and none has come to since
    stopping,   \* the framework has been told to stop
    listening,  \* the manager's listener reads metricsIn
    done,       \* channel done of the collector is closed
    discipline  \* what the program keeps to

goroutines == <<gr, ticker>>
updates    == <<upd, toVisit, visited, overlooked>>
stops      == <<stopping, listening, done, discipline>>
vars       == <<hb, old, goroutines, cancelled, trackers, duration, updates, stops>>

Init ==
    /\ hb = [g \in Beats |-> "idle"] /\ old = [g \in Beats |-> NoTracker]
    /\ gr = [g \in Beats |-> "off"] /\ ticker = [g \in Beats |-> Stopped]
    /\ cancelled = {}
    /\ trackers = [c \in Components |-> NoTracker]
    /\ duration = FirstDuration
    /\ upd = [u \in Updates |-> "idle"] /\ toVisit = [u \in Updates |-> {}]
    /\ visited = [u \in Updates |-> NoTracker] /\ overlooked = {}
    /\ stopping = FALSE /\ listening = TRUE /\ done = FALSE
    /\ discipline \in Allowed

Goto(g, label) == hb' = [hb EXCEPT ![g] = label]
Run(g, label)  == gr' = [gr EXCEPT ![g] = label]

-----------------------------------------------------------------------------
(* HeartBeat *)

Earlier(g) == {h \in Beats : ComponentOf[h] = ComponentOf[g] /\ hb[h] \notin {"idle", "refused"}}

Settled(h) ==
    /\ hb[h] = "returned"
    /\ gr[h] \in (IF h \in cancelled THEN {"ended"} ELSE {"select", "send", "ended"})

MayBeat(g) ==
    /\ discipline = "settled" => \A h \in Earlier(g) : Settled(h)
    /\ discipline = "spaced"  => \A h \in Earlier(g) : gr[h] = "ended"

HeartBeat(g) ==
    /\ hb[g] = "idle" /\ MayBeat(g)
    /\ Goto(g, IF done THEN "refused" ELSE "load")
    /\ UNCHANGED <<old, goroutines, cancelled, trackers, duration, updates, stops>>

Load(g) ==
    /\ hb[g] = "load"
    /\ old' = [old EXCEPT ![g] = trackers[ComponentOf[g]]]
    /\ Goto(g, IF old'[g] = NoTracker THEN "spawn" ELSE "stopOld")
    /\ UNCHANGED <<goroutines, cancelled, trackers, duration, updates, stops>>

StopOld(g) ==
    /\ hb[g] = "stopOld"
    /\ ticker' = [ticker EXCEPT ![old[g]] = Stopped]
    /\ cancelled' = cancelled \cup {old[g]}
    /\ Goto(g, "deleteOld")
    /\ UNCHANGED <<old, gr, trackers, duration, updates, stops>>

DeleteOld(g) ==
    /\ hb[g] = "deleteOld"
    /\ trackers' = [trackers EXCEPT ![ComponentOf[g]] = NoTracker]
    /\ Goto(g, "spawn")
    /\ UNCHANGED <<old, goroutines, cancelled, duration, updates, stops>>

Spawn(g) ==
    /\ hb[g] = "spawn"
    /\ Run(g, "new")
    /\ Goto(g, "returned")
    /\ UNCHANGED <<old, ticker, cancelled, trackers, duration, updates, stops>>

(* The program calls the cancel that HeartBeat has returned. *)
Cancel(g) ==
    /\ hb[g] = "returned" /\ g \notin cancelled
    /\ cancelled' = cancelled \cup {g}
    /\ UNCHANGED <<hb, old, goroutines, trackers, duration, updates, stops>>

-----------------------------------------------------------------------------
(* The goroutine of a heartbeat *)

(* Bug: it takes the duration the collector was made with. *)
NewTickerWithFirst(g) ==
    /\ gr[g] = "new"
    /\ ticker' = [ticker EXCEPT ![g] = FirstDuration]
    /\ Run(g, "store")
    /\ UNCHANGED <<hb, old, cancelled, trackers, duration, updates, stops>>

NewTicker(g) ==
    /\ gr[g] = "new"
    /\ ticker' = [ticker EXCEPT ![g] = duration]
    /\ Run(g, "store")
    /\ UNCHANGED <<hb, old, cancelled, trackers, duration, updates, stops>>

(* Bug: the call, not the goroutine, was to store the tracker, and does not. *)
StoreForgotten(g) ==
    /\ gr[g] = "store"
    /\ Run(g, "select")
    /\ UNCHANGED <<hb, old, ticker, cancelled, trackers, duration, updates, stops>>

Store(g) ==
    /\ gr[g] = "store"
    /\ trackers' = [trackers EXCEPT ![ComponentOf[g]] = g]
    /\ Run(g, "select")
    /\ UNCHANGED <<hb, old, ticker, cancelled, duration, updates, stops>>

(* A Ticker stopped or reset leaves no tick of before behind (go 1.23). *)
Tick(g) ==
    /\ gr[g] = "select" /\ ticker[g] # Stopped
    /\ Run(g, "send")
    /\ UNCHANGED <<hb, old, ticker, cancelled, trackers, duration, updates, stops>>

Beat(g) ==
    /\ gr[g] = "send" /\ listening
    /\ Run(g, "select")
    /\ UNCHANGED <<hb, old, ticker, cancelled, trackers, duration, updates, stops>>

(* Bug: a beat that nobody takes waits without regard to "done". *)
LeaveSelectOnly(g) ==
    /\ gr[g] = "select" /\ (done \/ g \in cancelled)
    /\ Run(g, "return")
    /\ UNCHANGED <<hb, old, ticker, cancelled, trackers, duration, updates, stops>>

Leave(g) ==
    /\ \/ gr[g] = "select" /\ (done \/ g \in cancelled)
       \/ gr[g] = "send" /\ done
    /\ Run(g, "return")
    /\ UNCHANGED <<hb, old, ticker, cancelled, trackers, duration, updates, stops>>

(* What the goroutine has deferred: the ticker is stopped, the key deleted. *)
StopTicker(g) ==
    /\ gr[g] = "return"
    /\ ticker' = [ticker EXCEPT ![g] = Stopped]
    /\ Run(g, "delete")
    /\ UNCHANGED <<hb, old, cancelled, trackers, duration, updates, stops>>

(* Bug: the tracker stays. *)
DeleteNothing(g) ==
    /\ gr[g] = "delete"
    /\ Run(g, "ended")
    /\ UNCHANGED <<hb, old, ticker, cancelled, trackers, duration, updates, stops>>

Delete(g) ==
    /\ gr[g] = "delete"
    /\ trackers' = [trackers EXCEPT ![ComponentOf[g]] = NoTracker]
    /\ Run(g, "ended")
    /\ UNCHANGED <<hb, old, ticker, cancelled, duration, updates, stops>>

-----------------------------------------------------------------------------
(* UpdateCycleDuration *)

MayUpdate(u) ==
    /\ u \in UpdatesOf[discipline]
    /\ discipline = "spaced" => \A v \in Updates : upd[v] \in {"idle", "returned"}

SetDuration(u) ==
    /\ upd[u] = "idle" /\ MayUpdate(u)
    /\ duration' = NewDuration[u]
    /\ upd' = [upd EXCEPT ![u] = "range"]
    /\ toVisit' = [toVisit EXCEPT ![u] = Components]
    /\ UNCHANGED <<hb, old, goroutines, cancelled, trackers, visited, overlooked, stops>>

(* Goroutines of component c that have read the duration of before and not stored a tracker.   *)
NotStored(c) == {g \in Beats : ComponentOf[g] = c /\ gr[g] = "store" /\ ticker[g] # duration}

Visit(u, c) ==
    /\ upd[u] = "range" /\ c \in toVisit[u]
    /\ toVisit' = [toVisit EXCEPT ![u] = @ \ {c}]
    /\ visited' = [visited EXCEPT ![u] = trackers[c]]
    /\ upd' = [upd EXCEPT ![u] = IF trackers[c] = NoTracker THEN "range" ELSE "reset"]
    /\ overlooked' = overlooked \cup NotStored(c)
    /\ UNCHANGED <<hb, old, goroutines, cancelled, trackers, duration, stops>>

Reset(u) ==
    /\ upd[u] = "reset"
    /\ ticker' = [ticker EXCEPT ![visited[u]] = NewDuration[u]]
    /\ upd' = [upd EXCEPT ![u] = "range"]
    /\ overlooked' = overlooked \ {visited[u]}
    /\ UNCHANGED <<hb, old, gr, cancelled, trackers, duration, toVisit, visited, stops>>

EndUpdate(u) ==
    /\ upd[u] = "range" /\ toVisit[u] = {}
    /\ upd' = [upd EXCEPT ![u] = "returned"]
    /\ UNCHANGED <<hb, old, goroutines, cancelled, trackers, duration, toVisit, visited,
                   overlooked, stops>>

-----------------------------------------------------------------------------
(* The framework around *)

StopFramework ==
    /\ ~stopping /\ stopping' = TRUE
    /\ UNCHANGED <<hb, old, goroutines, cancelled, trackers, duration, updates, listening, done,
                   discipline>>

ListenerReturns ==
    /\ stopping /\ listening /\ listening' = FALSE
    /\ UNCHANGED <<hb, old, goroutines, cancelled, trackers, duration, updates, stopping, done,
                   discipline>>

(* StopCollectorSingleton *)
StopCollector ==
    /\ stopping /\ ~done /\ done' = TRUE
    /\ UNCHANGED <<hb, old, goroutines, cancelled, trackers, duration, updates, stopping,
                   listening, discipline>>

-----------------------------------------------------------------------------
CallSteps(g) == Load(g) \/ StopOld(g) \/ DeleteOld(g) \/ Spawn(g)
OwnSteps(g) == NewTicker(g) \/ Store(g) \/ StopTicker(g) \/ Delete(g)
UpdateSteps(u) == (\E c \in Components : Visit(u, c)) \/ Reset(u) \/ EndUpdate(u)

Next ==
    \/ \E g \in Beats :
         \/ HeartBeat(g) \/ CallSteps(g) \/ Cancel(g)
         \/ OwnSteps(g) \/ Tick(g) \/ Beat(g) \/ Leave(g)
    \/ \E u \in Updates : SetDuration(u) \/ UpdateSteps(u)
    \/ StopFramework \/ ListenerReturns \/ StopCollector

Spec == Init /\ [][Next]_vars

(* Goroutines go on; a select that finds a case ready again and again takes it in the end, and *)
(* so does the listener.  FrameworkStart's goroutine closes "done" when the framework stops.   *)
(* The program's calls, its cancels, its stop and the ticks are not fair.                      *)
FairSpec ==
    /\ Spec
    /\ WF_vars(StopCollector)
    /\ \A g \in Beats : WF_vars(CallSteps(g)) /\ WF_vars(OwnSteps(g))
                        /\ SF_vars(Beat(g)) /\ SF_vars(Leave(g))
    /\ \A u \in Updates : WF_vars(UpdateSteps(u))

-----------------------------------------------------------------------------
(* Labels are those of the actions above; tickers, trackers and durations are what they name.  *)
TypeOK ==
    /\ hb \in [Beats -> {"idle", "load", "stopOld", "deleteOld", "spawn", "returned", "refused"}]
    /\ old \in [Beats -> Beats \cup {NoTracker}]
    /\ gr \in [Beats -> {"off", "new", "store", "select", "send", "return", "delete", "ended"}]
    /\ ticker \in [Beats -> Durations \cup {Stopped}]
    /\ cancelled \subseteq Beats
    /\ trackers \in [Components -> Beats \cup {NoTracker}]
    /\ duration \in Durations
    /\ upd \in [Updates -> {"idle", "range", "reset", "returned"}]
    /\ toVisit \in [Updates -> SUBSET Components]
    /\ visited \in [Updates -> Beats \cup {NoTracker}]
    /\ overlooked \subseteq Beats
    /\ stopping \in BOOLEAN /\ listening \in BOOLEAN /\ done \in BOOLEAN
    /\ discipline \in Allowed

Live(g) == gr[g] \in {"new", "store", "select", "send"} /\ g \notin cancelled

(* A tracker is found under its own component only, and is gone with its goroutine, whatever   *)
(* calls of HeartBeat, exits and deletes come between: the map does not keep the dead.         *)
TrackersAlive ==
    \A c \in Components :
        trackers[c] # NoTracker =>
            /\ ComponentOf[trackers[c]] = c
            /\ gr[trackers[c]] \in {"select", "send", "return", "delete"}

(* A goroutine that nobody has cancelled is alone in sending heartbeats of its component.      *)
OneHeartbeat ==
    \A g, h \in Beats : Live(g) /\ Live(h) /\ ComponentOf[g] = ComponentOf[h] => g = h

(* A program that starts a heartbeat anew only when the one before has gone has one per        *)
(* component, and UpdateCycleDuration can find it.                                             *)
SpacedIsOne ==
    discipline = "spaced" =>
        /\ OneHeartbeat
        /\ \A g \in Beats : gr[g] \in {"select", "send"} => trackers[ComponentOf[g]] = g

(* With no UpdateCycleDuration under way every heartbeat has the duration in force, whatever     *)
(* the calls were mixed with.  One window is the code's own: a goroutine that had read the      *)
(* duration before the call and stored its tracker after the Range had passed its component     *)
(* (collector.go:115-121, 161) keeps the old pace, and only it, until the next call finds it.   *)
PaceInForce ==
    discipline = "spaced" /\ (\A u \in Updates : upd[u] \in {"idle", "returned"})
    => \A g \in Beats \ overlooked : gr[g] \in {"store", "select", "send"} => ticker[g] = duration

(* A goroutine that was cancelled, or whose collector was stopped, ends, also when the         *)
(* listener has gone before it.                                                                *)
EndsWhenTold ==
    \A g \in Beats : (gr[g] # "off" /\ (done \/ g \in cancelled)) ~> gr[g] = "ended"
=============================================================================
