------------------------------ MODULE DataItems ------------------------------
(***************************************************************************)
(* What goes through the processors, splitters and proxies: metrics of all *)
(* kinds, models and events, and the rules of a processor.                 *)
(*                                                                         *)
(* Items are objects in a heap and are handed on by pointer, here the      *)
(* index.  A field of an item is absent, a scalar, or a list; a list is an *)
(* object too, which the item that made it owns and a model created from   *)
(* that item shares.  Of a list only its length matters.  The metadata of  *)
(* an item may be bare: there, but without a map to put a field in.  The   *)
(* name of an item stands for its metric and its dimensions; the tags of a *)
(* tagged metric are its fields.                                           *)
(***************************************************************************)
EXTENDS Integers, Sequences, SequencesExt

CONSTANTS
    Fields,     \* keys of metadata fields and of tags
    Names       \* what items are told apart by; a measure is the name of a metric

Absent == -2
Scalar == -1

ItemKinds == {"compact", "tagged", "metric", "model", "event", "health", "component"}

Item == [kind : ItemKinds, name : Names, ref : [Fields -> Int], size : [Fields -> Nat],
         bare : BOOLEAN]

(* The lists of the i-th item are its own or those of an item before it, which has them still. *)
IsHeap(heap) ==
    /\ heap \in Seq(Item)
    /\ \A i \in DOMAIN heap : \A f \in Fields :
          \/ heap[i].ref[f] \in {Absent, Scalar}
          \/ heap[i].ref[f] \in 1 .. i /\ heap[heap[i].ref[f]].ref[f] = heap[i].ref[f]

Present(heap, i)  == {f \in Fields : heap[i].ref[f] # Absent}
IsList(heap, i, f) == heap[i].ref[f] \notin {Absent, Scalar}

(* What a receiver reads of an item: a list by the values it has now. *)
Content(heap, i) ==
    [f \in Fields |-> IF IsList(heap, i, f) THEN heap[heap[i].ref[f]].size[f]
                                            ELSE heap[i].ref[f]]

-----------------------------------------------------------------------------
(* Rules.  The names of a criterion are those it allows, all if it gives none; its keys must   *)
(* be present; the fields it gives values for must be strings, and those it gives the empty    *)
(* string for must be lists: a list reads as the empty string, and no string here is empty.    *)
(* A rule without matches applies always, one whose matches are an empty list never.           *)

Meets(heap, i, criterion) ==
    /\ criterion.names = {} \/ heap[i].name \in criterion.names
    /\ criterion.keys \subseteq Present(heap, i)
    /\ \A f \in criterion.values : heap[i].ref[f] = Scalar
    /\ \A f \in criterion.blanks : IsList(heap, i, f)

Applies(heap, i, rule) == rule.always \/ \E c \in rule.matches : Meets(heap, i, c)

-----------------------------------------------------------------------------
(* Actions.  An action's needs are the variables of its template: it fails without them.       *)

Signals == {"drop", "send"}

ActionTypes == [metric |-> {"noop", "log", "append-to-metadata-field", "create-model"} \cup Signals,
                tagged |-> {"noop", "log", "copy-to-metric"} \cup Signals,
                model  |-> {"noop", "log", "append-to-metadata-field"} \cup Signals]

CreationTypes == {"create-model", "copy-to-metric"}

Fails(heap, i, a) ==
    \/ a.type \notin ActionTypes[heap[i].kind]
    \/ ~(a.needs \subseteq Present(heap, i))
    \/ a.type = "append-to-metadata-field" /\ heap[i].ref[a.key] = Scalar

(* A field is put in a map that is nil. *)
Panics(heap, i, a) ==
    a.type = "append-to-metadata-field" /\ heap[i].bare /\ ~IsList(heap, i, a.key)

(* Bug: the value takes the place of the list there is. *)
AppendedReplaces(heap, i, a) == [heap EXCEPT ![i].ref[a.key] = i, ![i].size[a.key] = 1]

(* append-to-metadata-field: in place in a list there is, or as a list of one. *)
Appended(heap, i, a) ==
    IF IsList(heap, i, a.key)
    THEN [heap EXCEPT ![heap[i].ref[a.key]].size[a.key] = @ + 1]
    ELSE [heap EXCEPT ![i].ref[a.key] = i, ![i].size[a.key] = 1]

NewItem(kind, name, ref) ==
    [kind |-> kind, name |-> name, ref |-> ref, size |-> [f \in Fields |-> 0], bare |-> FALSE]

(* create-model: the metric's own values but for the keys it drops, lists by pointer.  Its     *)
(* template, if it has one, gives the field "key" a string.                                    *)
CreatedModel(heap, i, a) ==
    NewItem("model", heap[i].name,
            [f \in Fields |-> IF f = a.key THEN Scalar
                              ELSE IF f \in a.drops THEN Absent ELSE heap[i].ref[f]])

(* copy-to-metric: tags become metadata fields or dimensions. *)
CopiedMetric(heap, i, a) ==
    NewItem("metric", heap[i].name,
            [f \in Fields |-> IF f \in a.metadataKeys \cap Present(heap, i) THEN Scalar ELSE Absent])

Created(heap, i, a) ==
    IF a.type = "create-model" THEN CreatedModel(heap, i, a) ELSE CopiedMetric(heap, i, a)
=============================================================================
