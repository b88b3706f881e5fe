---------------------------- MODULE HealthReport -----------------------------
(***************************************************************************)
(* What a reporting cycle of the health manager promises, with no loop in  *)
(* it: in one step it publishes, for the registry as it stands, exactly    *)
(* one health of every component that is not a target, and of every target *)
(* whose chain of targets ends; the status and the heartbeat of a target   *)
(* are worked out from the leaves up, with the priorities of one moment    *)
(* and one of the health functions in force meanwhile, each target's own   *)
(* choice; and it starts a new accumulation.                               *)
(* A registry in which a component impacts a target that is not registered *)
(* cannot be reported: the program panics.                                 *)
(***************************************************************************)
EXTENDS HealthComponent

CONSTANTS Customs, CustomTargetHealth(_, _)

VARIABLES
    rawHealth, targets, typePriorities, config, report, panicked,
    functions   \* the target health functions of the configurations in force meanwhile

vars == <<rawHealth, targets, typePriorities, config, report, panicked, functions>>

Registered == DOMAIN rawHealth
Target(i)  == rawHealth[i].component.target
IsTarget(i) == i \in DOMAIN targets
Impacting(t) == {i \in Registered : Target(i) = t}

Broken == \E i \in Registered : ~IsTarget(i) /\ Target(i) \notin Registered \cup {NoTarget}

(* S holds every target that impacts nothing and every target that impacts one of S. *)
Closed(S) ==
    \A t \in Registered : IsTarget(t) /\ Target(t) \in S \cup {NoTarget} => t \in S

(* Targets from which the chain of targets reaches one that impacts nothing. *)
Rooted == {t \in Registered : IsTarget(t) /\ \A S \in SUBSET Registered : Closed(S) => t \in S}

Reported == {i \in Registered : ~IsTarget(i)} \cup Rooted

Priority(h) ==
    IF h.type \in DOMAIN typePriorities THEN typePriorities[h.type] ELSE DefaultPriority

StatusOf(fn, counts) ==
    IF fn = "default" THEN DefaultTargetHealth(counts) ELSE CustomTargetHealth(fn, counts)

(* The health of i when fn is the function and "by" the healths of what impacts i. *)
HealthOf(i, fn, by) ==
    LET self      == CalculateComponentHealth(rawHealth[i])
        having(sp) == {k \in Impacting(i) : <<by[k].status, Priority(by[k])>> = sp}
        counts    == [sp \in Statuses \X Priorities |-> Cardinality(having(sp))]
    IN  IF ~IsTarget(i) THEN self
        ELSE [self EXCEPT
                !.status = StatusOf(fn, counts),
                !.enabled = @ \/ targets[i],
                !.beats = @ \/ \E k \in Impacting(i) : by[k].beats,
                !.impacts = {<<k, by[k].status>> :
                               k \in {j \in Impacting(i) : by[j].status # "Healthy"}}]

Init == /\ Registered = {} /\ DOMAIN targets = {} /\ DOMAIN typePriorities = {}
        /\ DOMAIN report = {} /\ panicked = FALSE

(* Between two reports the registry changes as its callers please. *)
Change == UNCHANGED <<report, panicked>>

(* No two targets whose chain ends impact each other: for given functions the equations have  *)
(* one solution.                                                                              *)
Publish ==
    /\ ~Broken
    /\ DOMAIN report' = Reported
    /\ LET healths == [i \in Reported |-> report'[i].health]
       IN  \A i \in Reported : \E fn \in functions :
              report'[i] = [times |-> 1, health |-> HealthOf(i, fn, healths)]
    /\ rawHealth' = [i \in Registered |-> CleanHealthValues(rawHealth[i])]
    /\ UNCHANGED <<targets, typePriorities, panicked>>

Panic ==
    /\ Broken \/ config.registrationOnCollect
    /\ panicked' = TRUE
    /\ UNCHANGED report

Next == Change \/ Publish \/ Panic

Spec == Init /\ [][Next]_vars
=============================================================================
