---------------------------- MODULE EndpointClaims ----------------------------
(***************************************************************************)
(* What a comment of endpoint.go says of a model that is held back, and a  *)
(* run refutes.                                                            *)
(***************************************************************************)
EXTENDS Endpoint

VARIABLE accepted   \* history: the models that have been in a bundle

BufferedItems ==
    ToSet(current["models"]) \cup
        UNION {ToSet(bundles["models"][i].items) : i \in DOMAIN bundles["models"]}

ClaimsSpec ==
    /\ Init /\ accepted = {}
    /\ [][Next /\ accepted' = accepted \cup BufferedItems']_<<vars, accepted>>

(* endpoint.go:811, of a model that is alive: "We've sent this exact model *)
(* within the last ModelTTL."  One that is held back has been given to the *)
(* bundler at least.  It has not when the bundler refused it: the tracker  *)
(* had marked it before (ttl.go:66).                                       *)
ModelWasSent ==
    [][\A c \in Callers : HoldBack(c) => Head(call[c].todo) \in accepted]_<<vars, accepted>>
=============================================================================
