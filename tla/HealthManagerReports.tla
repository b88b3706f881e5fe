------------------------- MODULE HealthManagerReports ------------------------
(***************************************************************************)
(* The health manager implements HealthReport.  The history variable       *)
(* "before" keeps the registry and the report as they were when the cycle  *)
(* under way began: the whole cycle takes effect when it ends.  It also    *)
(* collects the target health functions in force since then: UpdateConfig  *)
(* does not take the mutex of the registry.                                *)
(***************************************************************************)
EXTENDS HealthManager

VARIABLE before

Sent == [i \in {j \in Ids : pushes[j] > 0} |-> [times |-> pushes[i], health |-> report[i]]]

NoneBefore == [rawHealth |-> << >>, sent |-> << >>, functions |-> {}]

ReportsInit == Init /\ before = NoneBefore

ReportsNext ==
    /\ Next
    /\ before' = IF owner' # "cycle" THEN NoneBefore
                 ELSE IF owner = "cycle"
                 THEN [before EXCEPT !.functions = @ \cup {config'.targetHealthFn}]
                 ELSE [rawHealth |-> rawHealth, sent |-> Sent,
                       functions |-> {config'.targetHealthFn}]

ReportsSpec == ReportsInit /\ [][ReportsNext]_<<vars, before>>

FairReportsSpec == ReportsSpec /\ Fairness

Abstract ==
    INSTANCE HealthReport WITH
        rawHealth <- IF owner = "cycle" THEN before.rawHealth ELSE rawHealth,
        report    <- IF owner = "cycle" THEN before.sent ELSE Sent,
        functions <- before.functions

(* Whatever order the components and targets are visited in, a cycle publishes what            *)
(* HealthReport says of the registry it began with, each health once, and loses no measurement.*)
ImplementsHealthReport == Abstract!Spec
=============================================================================
