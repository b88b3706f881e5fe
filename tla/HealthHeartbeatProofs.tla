------------------------ MODULE HealthHeartbeatProofs ------------------------
(***************************************************************************)
(* Proofs about HealthHeartbeat, for every set of components, calls and    *)
(* durations.                                                              *)
(***************************************************************************)
EXTENDS HealthHeartbeat, TLAPS

(* A goroutine runs once its call has returned, and from then on. *)
CallsInv == \A g \in Beats : gr[g] # "off" <=> hb[g] = "returned"

(* What a call loads and a range visits to act upon is a tracker. *)
LoadedInv ==
    /\ \A g \in Beats : hb[g] = "stopOld" => old[g] \in Beats
    /\ \A u \in Updates : upd[u] = "reset" => visited[u] \in Beats

(* Calls for one component, one after the other: no call finds a tracker, of two that have begun *)
(* one has ended, and a goroutine in its loop or on its way out has its tracker in the map.      *)
SpacedInv ==
    discipline = "spaced" =>
        /\ \A g \in Beats : hb[g] \notin {"stopOld", "deleteOld"}
        /\ \A g, h \in Beats :
             g # h /\ h \in Earlier(g) /\ hb[g] \notin {"idle", "refused"}
             => gr[g] = "ended" \/ gr[h] = "ended"
        /\ \A g \in Beats :
             gr[g] \in {"select", "send", "return", "delete"} => trackers[ComponentOf[g]] = g

UnderWay(u) == upd[u] \in {"range", "reset"}

(* u has still to come to goroutine g. *)
Awaits(u, g) ==
    \/ UnderWay(u) /\ ComponentOf[g] \in toVisit[u]
    \/ upd[u] = "reset" /\ visited[u] = g

(* One update at a time: a heartbeat not at the duration in force is one the update has yet to  *)
(* come to, or has overlooked.                                                                  *)
PaceInv ==
    discipline = "spaced" =>
        /\ \A u, v \in Updates : UnderWay(u) /\ UnderWay(v) => u = v
        /\ \A u \in Updates : UnderWay(u) => duration = NewDuration[u]
        /\ \A g \in Beats \ overlooked : gr[g] \in {"store", "select", "send"} =>
             ticker[g] = duration \/ \E u \in Updates : Awaits(u, g)

TypeInv == TypeOK /\ CallsInv /\ LoadedInv
TrackInv == TypeInv /\ TrackersAlive
IInv == TrackInv /\ SpacedInv /\ PaceInv

LEMMA InitInv == Init => IInv
<1>. SUFFICES ASSUME Init PROVE IInv
  OBVIOUS
<1>1. TypeInv
  BY HealthHeartbeatAssumption DEF Init, TypeInv, TypeOK, CallsInv, LoadedInv
<1>2. TrackersAlive
  BY DEF Init, TrackersAlive
<1>3. SpacedInv
  BY DEF Init, SpacedInv, Earlier
<1>4. PaceInv
  BY DEF Init, PaceInv, UnderWay
<1>. QED
  BY <1>1, <1>2, <1>3, <1>4 DEF IInv, TrackInv

(* What TypeOK says of the constants, in the form the steps use. *)
LEMMA Constants ==
    /\ ComponentOf \in [Beats -> Components] /\ NewDuration \in [Updates -> Durations]
    /\ NoTracker \notin Beats /\ FirstDuration \in Durations
  BY HealthHeartbeatAssumption

LEMMA TypeStep == TypeInv /\ [Next]_vars => TypeInv'
<1>. SUFFICES ASSUME TypeInv, [Next]_vars PROVE TypeInv'
  OBVIOUS
<1>. USE Constants DEF TypeInv, TypeOK, CallsInv, LoadedInv, goroutines, updates, stops
<1>1. ASSUME NEW g \in Beats, HeartBeat(g) PROVE TypeInv'
  BY <1>1 DEF HeartBeat, Goto
<1>2. ASSUME NEW g \in Beats, Load(g) PROVE TypeInv'
  BY <1>2 DEF Load, Goto
<1>3. ASSUME NEW g \in Beats, StopOld(g) PROVE TypeInv'
  BY <1>3 DEF StopOld, Goto
<1>4. ASSUME NEW g \in Beats, DeleteOld(g) PROVE TypeInv'
  BY <1>4 DEF DeleteOld, Goto
<1>5. ASSUME NEW g \in Beats, Spawn(g) PROVE TypeInv'
  BY <1>5 DEF Spawn, Goto, Run
<1>6. ASSUME NEW g \in Beats, Cancel(g) PROVE TypeInv'
  BY <1>6 DEF Cancel
<1>7. ASSUME NEW g \in Beats, NewTicker(g) \/ Store(g) \/ Tick(g) \/ Beat(g) PROVE TypeInv'
  <2>1. CASE NewTicker(g)
    BY <2>1 DEF NewTicker, Run
  <2>2. CASE Store(g)
    BY <2>2 DEF Store, Run
  <2>3. CASE Tick(g) \/ Beat(g)
    BY <2>3 DEF Tick, Beat, Run
  <2>. QED
    BY <1>7, <2>1, <2>2, <2>3
<1>8. ASSUME NEW g \in Beats, Leave(g) \/ StopTicker(g) \/ Delete(g) PROVE TypeInv'
  BY <1>8 DEF Leave, StopTicker, Delete, Run, Stopped
<1>9. ASSUME NEW u \in Updates, SetDuration(u) \/ EndUpdate(u) PROVE TypeInv'
  <2>1. CASE SetDuration(u)
    BY <2>1 DEF SetDuration
  <2>2. CASE EndUpdate(u)
    BY <2>2 DEF EndUpdate
  <2>. QED
    BY <1>9, <2>1, <2>2
<1>10. ASSUME NEW u \in Updates, NEW c \in Components, Visit(u, c) PROVE TypeInv'
  <2>1. overlooked' \subseteq Beats
    BY <1>10 DEF Visit, NotStored
  <2>2. /\ upd' \in [Updates -> {"idle", "range", "reset", "returned"}]
        /\ toVisit' \in [Updates -> SUBSET Components]
        /\ visited' \in [Updates -> Beats \cup {NoTracker}]
    BY <1>10 DEF Visit
  <2>3. \A v \in Updates : upd'[v] = "reset" => visited'[v] \in Beats
    BY <1>10 DEF Visit
  <2>4. UNCHANGED <<hb, old, gr, ticker, cancelled, trackers, duration, stops>>
    BY <1>10 DEF Visit
  <2>. QED
    BY <2>1, <2>2, <2>3, <2>4
<1>11. ASSUME NEW u \in Updates, Reset(u) PROVE TypeInv'
  BY <1>11 DEF Reset
<1>12. CASE StopFramework \/ ListenerReturns \/ StopCollector
  BY <1>12 DEF StopFramework, ListenerReturns, StopCollector
<1>13. CASE UNCHANGED vars
  BY <1>13 DEF vars
<1>. QED
  BY <1>1, <1>2, <1>3, <1>4, <1>5, <1>6, <1>7, <1>8, <1>9, <1>10, <1>11, <1>12, <1>13
  DEF Next, CallSteps, OwnSteps, UpdateSteps

(* Only a goroutine stores its tracker, and its last step deletes whatever its key holds.      *)
LEMMA TrackersStep == TrackInv /\ [Next]_vars => TrackersAlive'
<1>. SUFFICES ASSUME TrackInv, [Next]_vars PROVE TrackersAlive'
  OBVIOUS
<1>. USE Constants DEF TrackInv, TypeInv, TypeOK, CallsInv, TrackersAlive, goroutines, updates,
                       stops
<1>1. ASSUME NEW g \in Beats, HeartBeat(g) \/ Load(g) \/ StopOld(g) \/ Cancel(g)
      PROVE  TrackersAlive'
  BY <1>1 DEF HeartBeat, Load, StopOld, Cancel
<1>2. ASSUME NEW g \in Beats, DeleteOld(g) PROVE TrackersAlive'
  BY <1>2 DEF DeleteOld
<1>3. ASSUME NEW g \in Beats, Spawn(g) PROVE TrackersAlive'
  BY <1>3 DEF Spawn, Run
<1>4. ASSUME NEW g \in Beats, NewTicker(g) \/ Tick(g) \/ Beat(g) \/ Leave(g) \/ StopTicker(g)
      PROVE  TrackersAlive'
  BY <1>4 DEF NewTicker, Tick, Beat, Leave, StopTicker, Run
<1>5. ASSUME NEW g \in Beats, Store(g) PROVE TrackersAlive'
  BY <1>5 DEF Store, Run
<1>6. ASSUME NEW g \in Beats, Delete(g) PROVE TrackersAlive'
  BY <1>6 DEF Delete, Run
<1>7. ASSUME NEW u \in Updates, SetDuration(u) \/ Reset(u) \/ EndUpdate(u) PROVE TrackersAlive'
  BY <1>7 DEF SetDuration, Reset, EndUpdate
<1>8. ASSUME NEW u \in Updates, NEW c \in Components, Visit(u, c) PROVE TrackersAlive'
  BY <1>8 DEF Visit
<1>9. CASE StopFramework \/ ListenerReturns \/ StopCollector \/ UNCHANGED vars
  BY <1>9 DEF StopFramework, ListenerReturns, StopCollector, vars
<1>. QED
  BY <1>1, <1>2, <1>3, <1>4, <1>5, <1>6, <1>7, <1>8, <1>9
  DEF Next, CallSteps, OwnSteps, UpdateSteps

(* What the program keeps to is settled at the start. *)
LEMMA DisciplineFixed == [Next]_vars => discipline' = discipline
<1>. SUFFICES ASSUME [Next]_vars PROVE discipline' = discipline
  OBVIOUS
<1>. USE DEF stops
<1>1. ASSUME NEW g \in Beats, HeartBeat(g) \/ CallSteps(g) \/ Cancel(g)
      PROVE  discipline' = discipline
  BY <1>1 DEF CallSteps, HeartBeat, Load, StopOld, DeleteOld, Spawn, Cancel
<1>2. ASSUME NEW g \in Beats, OwnSteps(g) \/ Tick(g) \/ Beat(g) \/ Leave(g)
      PROVE  discipline' = discipline
  BY <1>2 DEF OwnSteps, NewTicker, Store, StopTicker, Delete, Tick, Beat, Leave
<1>3. ASSUME NEW u \in Updates, SetDuration(u) \/ UpdateSteps(u)
      PROVE  discipline' = discipline
  BY <1>3 DEF UpdateSteps, SetDuration, Visit, Reset, EndUpdate
<1>4. CASE StopFramework \/ ListenerReturns \/ StopCollector \/ UNCHANGED vars
  BY <1>4 DEF StopFramework, ListenerReturns, StopCollector, vars
<1>. QED
  BY <1>1, <1>2, <1>3, <1>4 DEF Next

(* A program that keeps calls of one component apart: whoever begins finds the others ended.   *)
LEMMA SpacedStep == TrackInv /\ SpacedInv /\ [Next]_vars => SpacedInv'
<1>. SUFFICES ASSUME TrackInv, SpacedInv, [Next]_vars, discipline = "spaced"
              PROVE  SpacedInv'
  BY DisciplineFixed DEF SpacedInv
<1>. USE Constants DEF TrackInv, TypeInv, TypeOK, CallsInv, TrackersAlive, SpacedInv, Earlier,
                       goroutines, updates, stops
<1>1. ASSUME NEW g \in Beats, HeartBeat(g) PROVE SpacedInv'
  BY <1>1 DEF HeartBeat, MayBeat, Goto
<1>2. ASSUME NEW g \in Beats, Load(g) PROVE SpacedInv'
  <2>1. trackers[ComponentOf[g]] = NoTracker
    <3>. SUFFICES ASSUME trackers[ComponentOf[g]] # NoTracker PROVE FALSE
      OBVIOUS
    <3>. DEFINE h == trackers[ComponentOf[g]]
    <3>1. h \in Beats /\ ComponentOf[h] = ComponentOf[g] /\ gr[h] \notin {"off", "ended"}
      OBVIOUS
    <3>2. hb[g] = "load" /\ gr[g] = "off" /\ hb[h] = "returned"
      BY <1>2, <3>1 DEF Load
    <3>. QED
      BY <3>1, <3>2
  <2>. QED
    BY <1>2, <2>1 DEF Load, Goto
<1>3. ASSUME NEW g \in Beats, StopOld(g) \/ DeleteOld(g) PROVE SpacedInv'
  BY <1>3 DEF StopOld, DeleteOld
<1>4. ASSUME NEW g \in Beats, Spawn(g) PROVE SpacedInv'
  BY <1>4 DEF Spawn, Goto, Run
<1>5. ASSUME NEW g \in Beats, Cancel(g) \/ NewTicker(g) \/ Tick(g) \/ Beat(g) \/ Leave(g)
                              \/ StopTicker(g)
      PROVE  SpacedInv'
  BY <1>5 DEF Cancel, NewTicker, Tick, Beat, Leave, StopTicker, Run
<1>6. ASSUME NEW g \in Beats, Store(g) PROVE SpacedInv'
  <2>1. \A h \in Beats \ {g} :
          gr[h] \notin {"off", "ended"} => ComponentOf[h] # ComponentOf[g]
    BY <1>6 DEF Store
  <2>. QED
    BY <1>6, <2>1 DEF Store, Run
<1>7. ASSUME NEW g \in Beats, Delete(g) PROVE SpacedInv'
  <2>1. \A h \in Beats \ {g} :
          gr[h] \notin {"off", "ended"} => ComponentOf[h] # ComponentOf[g]
    BY <1>7 DEF Delete
  <2>. QED
    BY <1>7, <2>1 DEF Delete, Run
<1>8. ASSUME NEW u \in Updates, SetDuration(u) \/ Reset(u) \/ EndUpdate(u) PROVE SpacedInv'
  BY <1>8 DEF SetDuration, Reset, EndUpdate
<1>9. ASSUME NEW u \in Updates, NEW c \in Components, Visit(u, c) PROVE SpacedInv'
  BY <1>9 DEF Visit
<1>10. CASE StopFramework \/ ListenerReturns \/ StopCollector \/ UNCHANGED vars
  BY <1>10 DEF StopFramework, ListenerReturns, StopCollector, vars
<1>. QED
  BY <1>1, <1>2, <1>3, <1>4, <1>5, <1>6, <1>7, <1>8, <1>9, <1>10
  DEF Next, CallSteps, OwnSteps, UpdateSteps

(* A goroutine that starts while an update ranges reads the new duration; the update comes to   *)
(* those that have stored their tracker, and those that have not are overlooked.                *)
LEMMA PaceStep == TrackInv /\ SpacedInv /\ PaceInv /\ [Next]_vars => PaceInv'
<1>. SUFFICES ASSUME TrackInv, SpacedInv, PaceInv, [Next]_vars, discipline = "spaced"
              PROVE  PaceInv'
  BY DisciplineFixed DEF PaceInv
<1>. USE Constants DEF TrackInv, TypeInv, TypeOK, PaceInv, UnderWay, Awaits, goroutines, updates,
                       stops
<1>1. ASSUME NEW g \in Beats,
             HeartBeat(g) \/ Load(g) \/ DeleteOld(g) \/ Spawn(g) \/ Cancel(g)
      PROVE  PaceInv'
  BY <1>1 DEF HeartBeat, Load, DeleteOld, Spawn, Cancel, Run
<1>2. ASSUME NEW g \in Beats, StopOld(g) PROVE PaceInv'
  BY <1>2 DEF StopOld, SpacedInv
<1>3. ASSUME NEW g \in Beats, NewTicker(g) PROVE PaceInv'
  BY <1>3 DEF NewTicker, Run
<1>4. ASSUME NEW g \in Beats, Store(g) \/ Tick(g) \/ Beat(g) \/ Leave(g) \/ Delete(g)
      PROVE  PaceInv'
  BY <1>4 DEF Store, Tick, Beat, Leave, Delete, Run
<1>5. ASSUME NEW g \in Beats, StopTicker(g) PROVE PaceInv'
  BY <1>5 DEF StopTicker, Run
<1>6. ASSUME NEW u \in Updates, SetDuration(u) PROVE PaceInv'
  BY <1>6 DEF SetDuration, MayUpdate
<1>7. ASSUME NEW u \in Updates, NEW c \in Components, Visit(u, c) PROVE PaceInv'
  <2>1. ASSUME NEW g \in Beats, g \notin overlooked', gr[g] \in {"store", "select", "send"},
               ticker[g] # duration
        PROVE  Awaits(u, g)'
    <3>1. Awaits(u, g) /\ upd[u] = "range"
      BY <1>7, <2>1 DEF Visit
    <3>2. gr[g] = "store" => ComponentOf[g] # c
      BY <1>7, <2>1 DEF Visit, NotStored
    <3>3. gr[g] # "store" => trackers[ComponentOf[g]] = g
      BY <2>1 DEF SpacedInv
    <3>. QED
      BY <1>7, <3>1, <3>2, <3>3 DEF Visit
  <2>. QED
    BY <1>7, <2>1 DEF Visit
<1>8. ASSUME NEW u \in Updates, Reset(u) PROVE PaceInv'
  BY <1>8 DEF Reset, LoadedInv
<1>9. ASSUME NEW u \in Updates, EndUpdate(u) PROVE PaceInv'
  BY <1>9 DEF EndUpdate
<1>10. CASE StopFramework \/ ListenerReturns \/ StopCollector \/ UNCHANGED vars
  BY <1>10 DEF StopFramework, ListenerReturns, StopCollector, vars
<1>. QED
  BY <1>1, <1>2, <1>3, <1>4, <1>5, <1>6, <1>7, <1>8, <1>9, <1>10
  DEF Next, CallSteps, OwnSteps, UpdateSteps

LEMMA SpecInv == Spec => []IInv
<1>1. IInv /\ [Next]_vars => IInv'
  BY TypeStep, TrackersStep, SpacedStep, PaceStep DEF IInv, TrackInv
<1>. QED
  BY <1>1, InitInv, PTL DEF Spec

(* Calls, goroutines, tickers and trackers are what the code keeps in them. *)
THEOREM HeartbeatTypeCorrect == Spec => []TypeOK
<1>1. IInv => TypeOK
  BY DEF IInv, TrackInv, TypeInv
<1>. QED
  BY <1>1, SpecInv, PTL

(* hc.heartbeats: no tracker outlives its goroutine or is under another component, whatever    *)
(* calls are made of HeartBeat, of the cancels and of UpdateCycleDuration.                      *)
THEOREM TrackersCorrect == Spec => []TrackersAlive
<1>1. IInv => TrackersAlive
  BY DEF IInv, TrackInv
<1>. QED
  BY <1>1, SpecInv, PTL

(* HeartBeat: one goroutine sends heartbeats of a component, and its tracker is in the map,    *)
(* if the program waits for the one before to end.                                             *)
THEOREM SpacedCorrect == Spec => []SpacedIsOne
<1>1. IInv => SpacedIsOne
  <2>. SUFFICES ASSUME IInv, discipline = "spaced" PROVE SpacedIsOne
    BY DEF SpacedIsOne
  <2>1. OneHeartbeat
    BY Constants DEF IInv, TrackInv, TypeInv, CallsInv, SpacedInv, Earlier, OneHeartbeat, Live
  <2>. QED
    BY <2>1 DEF SpacedIsOne, IInv, SpacedInv
<1>. QED
  BY <1>1, SpecInv, PTL

(* UpdateCycleDuration: when it has returned all heartbeats are at the duration in force, but   *)
(* those that had read the one before and not stored their tracker when Range passed.           *)
THEOREM PaceCorrect == Spec => []PaceInForce
<1>1. IInv => PaceInForce
  BY DEF IInv, TrackInv, TypeInv, TypeOK, PaceInv, PaceInForce, UnderWay, Awaits
<1>. QED
  BY <1>1, SpecInv, PTL
=============================================================================
