--------------------------- MODULE MCDataReceivers ---------------------------
(* Small instances of DataReceivers for TLC. *)
EXTENDS DataReceiversClaims, TLC

(* A proxy before a splitter or an endpoint; a processor and an endpoint behind the splitter,  *)
(* another processor before it; a writer with destinations of each kind.                       *)
NetRole == [proxy |-> "proxy", split |-> "splitter", process |-> "processor",
            outer |-> "processor", writer |-> "writer", log |-> "log", plain |-> "zenoss",
            compact |-> "zenoss"] @@ [n \in Nodes |-> "endpoint"]

NetOutputs == [split |-> <<"process", "e1">>, process |-> <<"e2">>, outer |-> <<"split">>,
               writer |-> <<"compact", "log", "plain">>, plain |-> <<"e1">>,
               compact |-> <<"e2">>] @@ [n \in Nodes |-> <<>>]

NetConfigs == {[allowed |-> {"k1"}, output |-> "split"], [allowed |-> {}, output |-> "e1"]}

(* Items: "f" is a list of two values, "g" a string; or both are strings; or there is no map. *)
Ref(first)    == [f \in Fields |-> CASE f = "f" -> first [] f = "g" -> Scalar [] OTHER -> Absent]
Lists(length) == [f \in Fields |-> IF f = "f" THEN length ELSE 0]

ItemOf(kind, k) ==
    IF kind \in {"metric", "model"}
    THEN [kind |-> kind, name |-> "n", ref |-> Ref(k), size |-> Lists(2), bare |-> FALSE]
    ELSE [kind |-> kind, name |-> "n", ref |-> Ref(Scalar), size |-> Lists(0), bare |-> FALSE]

Kinds == <<"compact", "tagged", "metric", "model", "event", "health", "component">>

Request(node, apiKeys, kinds) ==
    [node |-> node, apiKeys |-> apiKeys,
     items |-> IF Len(kinds) = 1 THEN <<ItemOf(kinds[1], 1)>>
                                 ELSE <<ItemOf(kinds[1], 1), ItemOf(kinds[2], 2)>>,
     groups |-> SelectSeq([g \in DOMAIN Kinds |->
                    Group(Kinds[g], SelectSeq([k \in DOMAIN kinds |-> k],
                                              LAMBDA k : kinds[k] = Kinds[g]))],
                  LAMBDA g : g.ids # <<>>)]

BareMetric ==
    [kind |-> "metric", name |-> "n", ref |-> [f \in Fields |-> Absent], size |-> Lists(0),
     bare |-> TRUE]

NetRequests ==
    {Request("proxy", keys, <<"metric">>) : keys \in {<<>>, <<"k3", "k2">>}} \cup
    {Request("proxy", <<"k3", "k1">>, kinds) :
        kinds \in {<<"compact", "metric">>, <<"event">>}} \cup
    {Request("split", <<>>, kinds) :
        kinds \in {<<"event", "event">>, <<"metric", "metric">>, <<"tagged">>, <<"model", "model">>}} \cup
    {[Request("process", <<>>, <<"metric">>) EXCEPT !.items = <<BareMetric>>]} \cup
    {Request("outer", <<>>, kinds) : kinds \in {<<"metric">>, <<"compact">>, <<"event">>}} \cup
    {Request("writer", <<>>, kinds) : kinds \in {<<"health">>, <<"component">>}}

Act(type, key, needs) ==
    [type |-> type, key |-> key, needs |-> needs, drops |-> {}, metadataKeys |-> {"g"}]
Do(type)           == Act(type, "f", {})
AppendTo(key, needs) == Act("append-to-metadata-field", key, needs)

MatchRule(always, matches, actions, subRules) ==
    [always |-> always, matches |-> matches, actions |-> actions, rules |-> subRules]
Always(actions, subRules) == MatchRule(TRUE, {}, actions, subRules)
When(keys, values, blanks, actions) ==
    MatchRule(FALSE, {[names |-> {}, keys |-> keys, values |-> values, blanks |-> blanks]},
              actions, <<>>)
Never == MatchRule(FALSE, {}, <<Do("drop")>>, <<>>)

RulesOf(metric, tagged, model) ==
    [process |-> [metric |-> metric, tagged |-> tagged, model |-> model],
     outer   |-> [metric |-> metric, tagged |-> <<>>, model |-> <<>>]]

NetRules ==
    { RulesOf(<<>>, <<>>, <<>>),
      (* a model of every metric; lists appended to afterwards, the model's and the metric's *)
      RulesOf(<<Always(<<Act("create-model", "h", {"g"})>>, <<>>),
              When({"f"}, {}, {"f"}, <<AppendTo("f", {})>>)>>,
            <<Always(<<Do("copy-to-metric"), Do("drop")>>, <<>>)>>,
            <<When({}, {"h"}, {}, <<AppendTo("f", {})>>)>>),
      (* a drop in a rule of a rule; a send before an action that would fail *)
      RulesOf(<<Always(<<Do("log")>>,
                     <<When({}, {"f"}, {}, <<Do("send")>>), When({}, {"g"}, {}, <<Do("drop")>>)>>),
              Always(<<AppendTo("g", {})>>, <<>>)>>,
            <<Always(<<Do("send"), Do("none such")>>, <<>>)>>,
            <<Never, Always(<<AppendTo("f", {"h"})>>, <<>>)>>) }

RECURSIVE Within(_)
Within(rule) == {rule} \cup UNION {Within(rule.rules[k]) : k \in DOMAIN rule.rules}

(* All rules there are, and their actions. *)
AllRules ==
    UNION {UNION {UNION {UNION {Within(set[n][kind][k]) : k \in DOMAIN set[n][kind]}
                         : kind \in DOMAIN set[n]} : n \in DOMAIN set} : set \in NetRules}
AllActions == UNION {Range(rule.actions) : rule \in AllRules}

(* What the theorems about EndsOnce and HealthSentOnce take of the network and of the requests. *)
ASSUME OnePath /\ DistinctItems /\ DestinationsOnce
=============================================================================
