------------------------- MODULE DataReceiversClaims -------------------------
(***************************************************************************)
(* What the repository says of its receivers and the code does not do.     *)
(***************************************************************************)
EXTENDS DataReceivers

(* An item that no endpoint took is counted as failed: "FailedMetrics is the number of metrics *)
(* unsuccessfully sent" (stats.go:34).  A processor counts what its output reports as failed   *)
(* as sent: it drops the result of PutMetrics and looks at the error alone                     *)
(* (processor.go:262-266), and an endpoint never gives one.                                    *)
FailuresAreCounted ==
    Counted /\ Fated("refused") \cup Fated("error") # {} => answer.failed > 0
=============================================================================
