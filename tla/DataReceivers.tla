---------------------------- MODULE DataReceivers ----------------------------
(***************************************************************************)
(* A request on its way through a network of data receivers: a proxy in    *)
(* front, splitters and processors behind it, endpoints at the end; and a  *)
(* report on its way from the health writer through its destinations.      *)
(*                                                                         *)
(* The calls are synchronous: the stack holds one frame per call under     *)
(* way, the frame what the call has yet to do and has counted.  Requests   *)
(* share nothing but the fields of the proxy, which SetConfig replaces     *)
(* while requests read them: one request at a time, and SetConfig between  *)
(* any two of its steps.                                                   *)
(***************************************************************************)
EXTENDS DataItems, Totals

CONSTANTS
    Nodes,      \* proxies, splitters, processors, endpoints, writers, destinations
    Role,       \* what each node is
    Outputs,    \* the outputs of a node, in order; a proxy's are in Configs
    Compact,    \* Zenoss destinations that use compact metrics
    Rules,      \* the rules there are, those within rules included
    Actions,    \* the actions there are
    RuleSets,   \* rules the processors may have: by processor and kind, a sequence
    Requests,   \* requests that may come
    Configs     \* configurations SetConfig may give the proxy

Roles == {"proxy", "splitter", "processor", "endpoint", "writer", "log", "zenoss"}

Receivers     == {n \in Nodes : Role[n] \in {"splitter", "processor", "endpoint"}}
ReceiverKinds == {"compact", "tagged", "metric", "model", "event"}
RuleKinds     == {"tagged", "metric", "model"}

(* A receiver is made with its outputs, so none is before itself.  A proxy has no receiver     *)
(* before it; a writer has destinations, nothing else has.                                     *)
ASSUME NetworkAssumption ==
    /\ Role \in [Nodes -> Roles]
    /\ Compact \subseteq Nodes
    /\ \A S \in SUBSET Nodes : S # {} => \E n \in S : \A o \in DOMAIN Outputs[n] : Outputs[n][o] \notin S
    /\ \A n \in Nodes :
          /\ Outputs[n] \in Seq(IF Role[n] = "writer" THEN {d \in Nodes : Role[d] \in {"log", "zenoss"}}
                                                     ELSE Receivers)
          /\ Role[n] \in {"processor", "zenoss"} => Len(Outputs[n]) = 1
          /\ Role[n] = "endpoint" => Outputs[n] = <<>>
    /\ \A c \in Configs : c.output \in Receivers /\ \A key \in c.allowed : key \in STRING

(* A Zenoss destination is made with an endpoint of its own (zcDestination.go:25).             *)
ASSUME DestinationsAssumption ==
    \A d, e \in {n \in Nodes : Role[n] = "zenoss"} :
        Role[Outputs[d][1]] = "endpoint" /\ (Outputs[d][1] = Outputs[e][1] => d = e)

ASSUME RulesAssumption ==
    /\ IsFiniteSet(Fields) /\ Fields \subseteq Names
    /\ \A a \in Actions : a.type = "append-to-metadata-field" => a.key \in Fields
    /\ \A r \in Rules : r.actions \in Seq(Actions) /\ r.rules \in Seq(Rules)
    /\ \A set \in RuleSets : \A n \in Nodes : Role[n] = "processor" =>
          \A kind \in RuleKinds : set[n][kind] \in Seq(Rules)

(* A request comes to a proxy, a splitter or a processor; a health collector gives its writer  *)
(* one report or one component.                                                                *)
ASSUME RequestsAssumption ==
    \A q \in Requests :
        /\ q.node \in Nodes /\ Role[q.node] \in {"proxy", "splitter", "processor", "writer"}
        /\ q.apiKeys \in Seq(STRING)
        /\ IsHeap(q.items)
        /\ \A i \in DOMAIN q.items : q.items[i].bare => Present(q.items, i) = {}
        /\ q.groups \in Seq([kind : ItemKinds, ids : Seq(DOMAIN q.items)])
        /\ \A g \in DOMAIN q.groups : \A j \in DOMAIN q.groups[g].ids :
              q.items[q.groups[g].ids[j]].kind = q.groups[g].kind
        /\ Role[q.node] = "writer" =>
              \E kind \in {"health", "component"} : q.groups = <<[kind |-> kind, ids |-> <<1>>]>>
        /\ Role[q.node] # "writer" =>
              \A g \in DOMAIN q.groups : q.groups[g].kind \in ReceiverKinds

VARIABLES
    rules,      \* the rules the processors have
    allowed,    \* p.allowedAPIKeys of the proxy
    output,     \* p.output of the proxy
    setting,    \* what SetConfig has yet to write: configurations of one field each
    request,    \* the last request
    pc,         \* where it is
    looking,    \* its API keys the proxy has not looked up
    heap,       \* the items
    stack,      \* the calls under way
    answer,     \* what the request was answered
    inForce,    \* key sets the proxy has had since the request came
    due,        \* items the answer must account for
    offers,     \* items given to endpoints, in order
    begun,      \* items a processor has begun to process
    stopped     \* those a rule of it dropped, or failed for

proxyVars == <<allowed, output, setting>>
history   == <<inForce, due, offers, begun, stopped>>
vars      == <<rules, proxyVars, request, pc, looking, heap, stack, answer, history>>

-----------------------------------------------------------------------------
(* Messages and frames *)

(* A message is a sequence of groups, one for each kind there is, in the order in which the    *)
(* code looks at the kinds.                                                                    *)
Group(kind, ids) == [kind |-> kind, ids |-> ids]

Count(groups) == Total([g \in DOMAIN groups |-> Len(groups[g].ids)])

Call(to, groups) == [do |-> "call", to |-> to, groups |-> groups]
Process(i)       == [do |-> "process", item |-> i]
Rule(r)          == [do |-> "rule", rule |-> r]
Action(a)        == [do |-> "action", action |-> a]
Convert(ids)     == [do |-> "convert", ids |-> ids]

None == 0   \* no item

(* What a call and a result count as failed and as succeeded; and, for the properties, what is *)
(* in neither count: models an endpoint holds back.  No count of the code says those.          *)
Frame(node, item, todo) ==
    [node |-> node, item |-> item, todo |-> todo, failed |-> 0, succeeded |-> 0, held |-> 0,
     error |-> FALSE]

Result(error, failed, succeeded, held) ==
    [error |-> error, failed |-> failed, succeeded |-> succeeded, held |-> held]

Error    == Result(TRUE, 0, 0, 0)
Pending  == Result(FALSE, -1, -1, -1)

Top  == Last(stack)
Entry == Head(Top.todo)
Doing(what) == pc = "serve" /\ Top.todo # <<>> /\ Entry.do = what

(* The output of a proxy is read at the call. *)
Target == IF Role[Top.node] = "proxy" THEN output ELSE Entry.to

(* A caller takes a result: one that counts adds it up, and an error counts for all that was   *)
(* in the call; one that handles a single item gives an error back at once.                    *)
Weight(entry) == IF entry.do = "call" THEN Count(entry.groups) ELSE 1

(* Bug: the item goes on though the item made from it has failed. *)
TookForgetful(frame, r) ==
    IF frame.item = None
    THEN [frame EXCEPT !.todo = Tail(@),
                       !.failed = @ + (IF r.error THEN Weight(Head(frame.todo)) ELSE r.failed),
                       !.succeeded = @ + (IF r.error THEN 0 ELSE r.succeeded),
                       !.held = @ + (IF r.error THEN 0 ELSE r.held)]
    ELSE [frame EXCEPT !.todo = Tail(@), !.error = r.error]

(* Bug: an error counts for one item. *)
TookOnce(frame, r) ==
    IF frame.item = None
    THEN [frame EXCEPT !.todo = Tail(@),
                       !.failed = @ + (IF r.error THEN 1 ELSE r.failed),
                       !.succeeded = @ + (IF r.error THEN 0 ELSE r.succeeded),
                       !.held = @ + (IF r.error THEN 0 ELSE r.held)]
    ELSE [frame EXCEPT !.todo = IF r.error THEN <<>> ELSE Tail(@), !.error = r.error]

Took(frame, r) ==
    IF frame.item = None
    THEN [frame EXCEPT !.todo = Tail(@),
                       !.failed = @ + (IF r.error THEN Weight(Head(frame.todo)) ELSE r.failed),
                       !.succeeded = @ + (IF r.error THEN 0 ELSE r.succeeded),
                       !.held = @ + (IF r.error THEN 0 ELSE r.held)]
    ELSE [frame EXCEPT !.todo = IF r.error THEN <<>> ELSE Tail(@), !.error = r.error]

ReplaceTop(frame) == Append(Front(stack), frame)
Deliver(st, r)    == Append(Front(st), Took(Last(st), r))

-----------------------------------------------------------------------------
(* What a call has to do, at each kind of node *)

(* A splitter: every output in turn, and for each of them every kind there is. *)
SplitterAgenda(n, groups) ==
    FlattenSeq([o \in DOMAIN Outputs[n] |->
                   [g \in DOMAIN groups |-> Call(Outputs[n][o], <<groups[g]>>)]])

(* A processor: compact metrics as they are, all else one by one. *)
ProcessorAgenda(n, groups) ==
    FlattenSeq([g \in DOMAIN groups |->
        IF groups[g].kind = "compact" THEN <<Call(Outputs[n][1], <<groups[g]>>)>>
        ELSE [j \in DOMAIN groups[g].ids |-> Process(groups[g].ids[j])]])

(* A proxy: every kind there is in a call of its own. *)
ProxyAgenda(n, groups) == [g \in DOMAIN groups |-> Call(n, <<groups[g]>>)]

(* The writer: every destination in turn. *)
WriterAgenda(n, groups) == [o \in DOMAIN Outputs[n] |-> Call(Outputs[n][o], groups)]

(* The rules of a processor's item, and the call that sends it. *)
ItemAgenda(n, i, kind) ==
    LET own == rules[n][kind]
    IN  [k \in DOMAIN own |-> Rule(own[k])] \o <<Call(Outputs[n][1], <<Group(kind, <<i>>)>>)>>

(* A Zenoss destination makes a metric of every measure of a report and of its heartbeat,      *)
(* fresh ones for each destination; and a model of a component.                                *)
Measures(i) == SetToSeq(Present(heap, i))

Built(i) ==
    LET none == [f \in Fields |-> Absent]
    IN  IF heap[i].kind = "component" THEN <<NewItem("model", heap[i].name, none)>>
        ELSE [k \in DOMAIN Measures(i) |-> NewItem("metric", Measures(i)[k], none)]

ZenossAgenda(n, i) ==
    LET ids == [k \in DOMAIN Built(i) |-> Len(heap) + k]
    IN  IF heap[i].kind = "component" THEN <<Call(Outputs[n][1], <<Group("model", ids)>>)>>
        ELSE IF n \in Compact THEN <<Convert(ids)>>
        ELSE <<Call(Outputs[n][1], <<Group("metric", ids)>>)>>

Enter(n, groups) ==
    CASE Role[n] = "proxy"     -> Frame(n, None, ProxyAgenda(n, groups))
      [] Role[n] = "splitter"  -> Frame(n, None, SplitterAgenda(n, groups))
      [] Role[n] = "processor" -> Frame(n, None, ProcessorAgenda(n, groups))
      [] Role[n] = "writer"    -> Frame(n, None, WriterAgenda(n, groups))
      [] Role[n] = "log"       -> Frame(n, None, <<>>)
      [] Role[n] = "zenoss"    -> Frame(n, groups[1].ids[1], ZenossAgenda(n, groups[1].ids[1]))

EnterHeap(n, groups) ==
    IF Role[n] = "zenoss" THEN heap \o Built(groups[1].ids[1]) ELSE heap

(* Processors and proxies do not support events. *)
Unimplemented(n, groups) ==
    /\ Role[n] \in {"proxy", "processor"}
    /\ \E g \in DOMAIN groups : groups[g].kind = "event"

-----------------------------------------------------------------------------
(* The proxy *)

(* What an answer must account for: an item once for every output it is for.  A processor      *)
(* answers for the items it processes, and passes on the answer for compact metrics.           *)
Worth[n \in Nodes] ==
    [kind \in ItemKinds |->
        IF Role[n] = "splitter" THEN Total([o \in DOMAIN Outputs[n] |-> Worth[Outputs[n][o]][kind]])
        ELSE IF Role[n] = "processor" /\ kind = "compact" THEN Worth[Outputs[n][1]][kind]
        ELSE 1]

Owed(n, groups) ==
    Total([g \in DOMAIN groups |-> Worth[n][groups[g].kind] * Len(groups[g].ids)])

(* No request is under way. *)
Ended == pc \in {"idle", "panicked"}

Init ==
    /\ rules \in RuleSets
    /\ \E c \in Configs : allowed = c.allowed /\ output = c.output
    /\ setting = {}
    /\ request \in Requests
    /\ pc = "idle" /\ looking = <<>> /\ heap = <<>> /\ stack = <<>> /\ answer = Pending
    /\ inForce = {} /\ due = 0 /\ offers = <<>> /\ begun = {} /\ stopped = {}

(* SetConfig writes one field after the other, under no lock: a request may see the two it     *)
(* reads change in either order.  It comes while a request to the proxy is served: no other    *)
(* reads them.                                                                                 *)
SetConfig ==
    /\ setting = {} /\ ~Ended /\ Role[request.node] = "proxy"
    /\ \E c \in Configs : setting' = {[field |-> "allowed", value |-> c.allowed],
                                      [field |-> "output",  value |-> c.output]}
    /\ UNCHANGED <<rules, allowed, output, request, pc, looking, heap, stack, answer, history>>

SetAllowed(w) ==
    /\ w \in setting /\ w.field = "allowed"
    /\ allowed' = w.value /\ setting' = setting \ {w}
    /\ inForce' = inForce \cup {w.value}
    /\ UNCHANGED <<rules, output, request, pc, looking, heap, stack, answer, due, offers, begun,
                   stopped>>

SetOutput(w) ==
    /\ w \in setting /\ w.field = "output"
    /\ output' = w.value /\ setting' = setting \ {w}
    /\ UNCHANGED <<rules, allowed, request, pc, looking, heap, stack, answer, history>>

(* A request comes: to the proxy, or from the program to another node. *)
Receive(q) ==
    LET refused == Unimplemented(q.node, q.groups)
        proxied == Role[q.node] = "proxy"
    IN  /\ Ended
        /\ request' = q /\ heap' = q.items /\ looking' = q.apiKeys
        /\ pc' = IF refused THEN "idle" ELSE IF proxied THEN "check" ELSE "serve"
        /\ stack' = IF refused \/ proxied THEN <<>> ELSE <<Enter(q.node, q.groups)>>
        /\ answer' = IF refused THEN Error ELSE Pending
        /\ inForce' = {allowed} /\ offers' = <<>> /\ begun' = {} /\ stopped' = {}
        /\ due' = IF refused \/ proxied THEN 0 ELSE Owed(q.node, q.groups)
        /\ UNCHANGED <<rules, proxyVars>>

Admit  == pc' = "serve" /\ stack' = <<Enter(request.node, request.groups)>> /\ UNCHANGED answer
Refuse == pc' = "idle" /\ answer' = Error /\ UNCHANGED stack

(* checkAPIKey: no key is needed if none is allowed; the keys of the request are then looked   *)
(* up one by one, in the allowed keys there are at that moment.                                *)

(* Bug: a request with no key at all is let through. *)
CheckAPIKeyLenient ==
    /\ pc = "check"
    /\ IF allowed = {} \/ looking = <<>> THEN Admit
       ELSE pc' = "lookUp" /\ UNCHANGED <<stack, answer>>
    /\ UNCHANGED <<rules, proxyVars, request, looking, heap, history>>

CheckAPIKey ==
    /\ pc = "check"
    /\ IF allowed = {} THEN Admit
       ELSE IF looking = <<>> THEN Refuse
       ELSE pc' = "lookUp" /\ UNCHANGED <<stack, answer>>
    /\ UNCHANGED <<rules, proxyVars, request, looking, heap, history>>

LookUpAPIKey ==
    /\ pc = "lookUp"
    /\ looking' = Tail(looking)
    /\ IF Head(looking) \in allowed THEN Admit
       ELSE IF looking' = <<>> THEN Refuse
       ELSE UNCHANGED <<pc, stack, answer>>
    /\ UNCHANGED <<rules, proxyVars, request, heap, history>>

-----------------------------------------------------------------------------
(* Calls *)

Due == IF Role[Top.node] = "proxy" THEN due + Owed(Target, Entry.groups) ELSE due

CallOutput ==
    /\ Doing("call") /\ Role[Target] # "endpoint" /\ ~Unimplemented(Target, Entry.groups)
    /\ stack' = Append(stack, Enter(Target, Entry.groups))
    /\ heap' = EnterHeap(Target, Entry.groups)
    /\ due' = Due
    /\ UNCHANGED <<rules, proxyVars, request, pc, looking, answer, inForce, offers, begun, stopped>>

CallUnimplemented ==
    /\ Doing("call") /\ Unimplemented(Target, Entry.groups)
    /\ stack' = Deliver(stack, Error)
    /\ due' = Due
    /\ UNCHANGED <<rules, proxyVars, request, pc, looking, heap, answer, inForce, offers, begun,
                   stopped>>

Given(to, groups, fates) ==
    LET items == FlattenSeq([g \in DOMAIN groups |->
                    [j \in DOMAIN groups[g].ids |-> <<groups[g].kind, groups[g].ids[j]>>]])
    IN  [j \in DOMAIN items |-> [at |-> to, kind |-> items[j][1], item |-> items[j][2],
                                 content |-> Content(heap, items[j][2]), fate |-> fates[j]]]

(* An endpoint, or any other client, gives an error, or says how many items it took and how    *)
(* many it did not; a model it has sent not long ago it holds back and says nothing of.        *)
MayHold(groups) == \A g \in DOMAIN groups : groups[g].kind = "model"

Fate(j, k, h) == IF j <= k THEN "taken" ELSE IF j <= k + h THEN "held" ELSE "refused"

CallEndpoint ==
    /\ Doing("call") /\ Role[Target] = "endpoint"
    /\ LET n == Count(Entry.groups)
       IN  \/ /\ offers' = offers \o Given(Target, Entry.groups, [j \in 1 .. n |-> "error"])
              /\ stack' = Deliver(stack, Error)
           \/ \E k \in 0 .. n : \E h \in 0 .. n - k :
                 /\ h > 0 => MayHold(Entry.groups)
                 /\ offers' = offers \o Given(Target, Entry.groups, [j \in 1 .. n |-> Fate(j, k, h)])
                 /\ stack' = Deliver(stack, Result(FALSE, n - k - h, k, h))
    /\ due' = Due
    /\ UNCHANGED <<rules, proxyVars, request, pc, looking, heap, answer, inForce, begun, stopped>>

(* A call with nothing left to do returns. *)
Return ==
    /\ pc = "serve" /\ Top.todo = <<>>
    /\ LET r == IF Top.item = None THEN Result(FALSE, Top.failed, Top.succeeded, Top.held)
                                   ELSE Result(Top.error, 0, 1, 0)
           caller == Last(Front(stack))
       IN  IF Len(stack) = 1
           THEN pc' = "idle" /\ stack' = <<>> /\ answer' = r /\ UNCHANGED stopped
           ELSE /\ stack' = Deliver(Front(stack), r)
                /\ stopped' = IF r.error /\ Head(caller.todo).do = "action"
                              THEN stopped \cup {<<caller.node, caller.item>>} ELSE stopped
                /\ UNCHANGED <<pc, answer>>
    /\ UNCHANGED <<rules, proxyVars, request, looking, heap, inForce, due, offers, begun>>

-----------------------------------------------------------------------------
(* The processor *)

ProcessItem(i, kind) ==
    /\ stack' = Append(stack, Frame(Top.node, i, ItemAgenda(Top.node, i, kind)))
    /\ begun' = begun \cup {<<Top.node, i>>}

TakeItem ==
    /\ Doing("process")
    /\ ProcessItem(Entry.item, heap[Entry.item].kind)
    /\ UNCHANGED <<rules, proxyVars, request, pc, looking, heap, answer, inForce, due, offers,
                   stopped>>

Proceed(todo) == stack' = ReplaceTop([Top EXCEPT !.todo = todo])

(* A rule that applies has its actions done, then its own rules; a signal or an error of any   *)
(* of them ends the rules above it too.                                                        *)

(* Bug: a rule that does not apply is tried again. *)
ApplyRuleAgain ==
    /\ Doing("rule")
    /\ LET r == Entry.rule
       IN  Proceed(IF Applies(heap, Top.item, r)
                   THEN [k \in DOMAIN r.actions |-> Action(r.actions[k])] \o
                        [k \in DOMAIN r.rules |-> Rule(r.rules[k])] \o Tail(Top.todo)
                   ELSE Top.todo)
    /\ UNCHANGED <<rules, proxyVars, request, pc, looking, heap, answer, history>>

ApplyRule ==
    /\ Doing("rule")
    /\ LET r == Entry.rule
       IN  Proceed(IF Applies(heap, Top.item, r)
                   THEN [k \in DOMAIN r.actions |-> Action(r.actions[k])] \o
                        [k \in DOMAIN r.rules |-> Rule(r.rules[k])] \o Tail(Top.todo)
                   ELSE Tail(Top.todo))
    /\ UNCHANGED <<rules, proxyVars, request, pc, looking, heap, answer, history>>

Stop == stopped' = stopped \cup {<<Top.node, Top.item>>}

FailAction ==
    /\ Doing("action") /\ Fails(heap, Top.item, Entry.action)
    /\ stack' = ReplaceTop([Top EXCEPT !.todo = <<>>, !.error = TRUE])
    /\ Stop
    /\ UNCHANGED <<rules, proxyVars, request, pc, looking, heap, answer, inForce, due, offers, begun>>

Acting(types) ==
    Doing("action") /\ ~Fails(heap, Top.item, Entry.action) /\ Entry.action.type \in types

(* Bug: a send does not end the rules. *)
SignalSendGoesOn ==
    /\ Acting(Signals)
    /\ IF Entry.action.type = "drop" THEN Proceed(<<>>) /\ Stop
       ELSE Proceed(<<Last(Top.todo)>> \o Tail(Top.todo)) /\ UNCHANGED stopped
    /\ UNCHANGED <<rules, proxyVars, request, pc, looking, heap, answer, inForce, due, offers, begun>>

Signal ==
    /\ Acting(Signals)
    /\ IF Entry.action.type = "drop" THEN Proceed(<<>>) /\ Stop
                                     ELSE Proceed(<<Last(Top.todo)>>) /\ UNCHANGED stopped
    /\ UNCHANGED <<rules, proxyVars, request, pc, looking, heap, answer, inForce, due, offers, begun>>

Change ==
    /\ Acting({"noop", "log", "append-to-metadata-field"}) /\ ~Panics(heap, Top.item, Entry.action)
    /\ heap' = IF Entry.action.type = "append-to-metadata-field"
               THEN Appended(heap, Top.item, Entry.action) ELSE heap
    /\ Proceed(Tail(Top.todo))
    /\ UNCHANGED <<rules, proxyVars, request, pc, looking, answer, history>>

(* The request ends in a panic: the program may recover, and another request may come. *)
Panic ==
    /\ Acting({"append-to-metadata-field"}) /\ Panics(heap, Top.item, Entry.action)
    /\ pc' = "panicked" /\ stack' = <<>>
    /\ UNCHANGED <<rules, proxyVars, request, looking, heap, answer, history>>

(* What an action makes goes through the rules of its own kind before the action is over. *)
Create ==
    /\ Acting(CreationTypes)
    /\ heap' = Append(heap, Created(heap, Top.item, Entry.action))
    /\ ProcessItem(Len(heap) + 1, heap'[Len(heap) + 1].kind)
    /\ UNCHANGED <<rules, proxyVars, request, pc, looking, answer, inForce, due, offers, stopped>>

-----------------------------------------------------------------------------
(* The Zenoss destination *)

(* ConvertMetrics turns some metrics into compact ones and gives the others back: both go out  *)
(* in one message.  That every metric is in one of the results is what MetricRegistration      *)
(* checks of it.                                                                               *)

(* The elements of a sequence that are in a set. *)
Those(ids, S) == FlattenSeq([k \in DOMAIN ids |-> IF ids[k] \in S THEN <<ids[k]>> ELSE <<>>])

(* Bug: all metrics go out as canonical ones too. *)
ConvertMetricsKeepsAll ==
    /\ Doing("convert")
    /\ \E converted \in SUBSET ToSet(Entry.ids) :
          Proceed(<<Call(Outputs[Top.node][1],
                         <<Group("compact", Those(Entry.ids, converted)),
                           Group("metric", Entry.ids)>>)>>)
    /\ UNCHANGED <<rules, proxyVars, request, pc, looking, heap, answer, history>>

ConvertMetrics ==
    /\ Doing("convert")
    /\ \E converted \in SUBSET ToSet(Entry.ids) :
          Proceed(<<Call(Outputs[Top.node][1],
                         <<Group("compact", Those(Entry.ids, converted)),
                           Group("metric", Those(Entry.ids, ToSet(Entry.ids) \ converted))>>)>>)
    /\ UNCHANGED <<rules, proxyVars, request, pc, looking, heap, answer, history>>

-----------------------------------------------------------------------------

Serve == \/ CheckAPIKey \/ LookUpAPIKey
         \/ CallOutput \/ CallUnimplemented \/ CallEndpoint \/ Return
         \/ TakeItem \/ ApplyRule \/ FailAction \/ Signal \/ Change \/ Panic \/ Create
         \/ ConvertMetrics

Next == \/ SetConfig \/ \E w \in setting : SetAllowed(w) \/ SetOutput(w)
        \/ \E q \in Requests : Receive(q)
        \/ Serve

Spec == Init /\ [][Next]_vars

(* The goroutine that serves a request goes on. *)
FairSpec == Spec /\ WF_vars(Serve)

-----------------------------------------------------------------------------
Endpoints == {n \in Nodes : Role[n] = "endpoint"}

(* The endpoints behind a node: those in every set with the node and all outputs of its nodes. *)
Closed(S) == \A n \in S : Range(Outputs[n]) \subseteq S

Behind[n \in Nodes] ==
    {e \in Endpoints : \A S \in SUBSET Nodes : n \in S /\ Closed(S) => e \in S}

(* Networks and requests in which nothing can come to an endpoint twice by itself: no endpoint  *)
(* is behind two outputs of a splitter, and no request lists an item twice.  Networks and       *)
(* requests are the program's to choose, the code checks neither.                               *)
Distinct(groups) ==
    \A g, h \in DOMAIN groups : \A j \in DOMAIN groups[g].ids : \A k \in DOMAIN groups[h].ids :
        groups[g].ids[j] = groups[h].ids[k] => g = h /\ j = k

OnePath ==
    \A n \in Nodes : Role[n] = "splitter" =>
        \A o, p \in DOMAIN Outputs[n] :
            o # p => Behind[Outputs[n][o]] \cap Behind[Outputs[n][p]] = {}

DistinctItems == \A q \in Requests : Distinct(q.groups)

(* Writers that have no destination twice: that is the program's to choose too. *)
DestinationsOnce == \A n \in Nodes : Role[n] = "writer" => IsInjective(Outputs[n])

OffersOf(e, i) == {j \in DOMAIN offers : offers[j].at = e /\ offers[j].item = i}

Fated(fate) == {j \in DOMAIN offers : offers[j].fate = fate}

Answered == pc = "idle" /\ answer # Pending
Counted  == Answered /\ ~answer.error /\ Role[request.node] # "writer"

Allows(keys) == keys = {} \/ \E k \in DOMAIN request.apiKeys : request.apiKeys[k] \in keys

Groups  == [kind : ItemKinds, ids : Seq(Nat \ {0})]

Entries ==
    [do : {"call"}, to : Nodes, groups : Seq(Groups)] \cup [do : {"process"}, item : Nat \ {0}]
    \cup [do : {"rule"}, rule : Rules] \cup [do : {"action"}, action : Actions]
    \cup [do : {"convert"}, ids : Seq(Nat \ {0})]

Frames ==
    [node : Nodes, item : Nat, todo : Seq(Entries), failed : Nat, succeeded : Nat, held : Nat,
     error : BOOLEAN]

KeySets == {c.allowed : c \in Configs}

Offers ==
    [at : Nodes, kind : ItemKinds, item : Nat \ {0}, content : [Fields -> Int],
     fate : {"error", "taken", "held", "refused"}]

TypeOK ==
    /\ rules \in RuleSets
    /\ allowed \in KeySets /\ output \in {c.output : c \in Configs}
    /\ setting \subseteq [field : {"allowed"}, value : KeySets] \cup
                         [field : {"output"}, value : {c.output : c \in Configs}]
    /\ request \in Requests
    /\ pc \in {"idle", "check", "lookUp", "serve", "panicked"} /\ (pc = "serve" <=> stack # <<>>)
    /\ looking \in Seq(STRING)
    /\ heap \in Seq(Item)
    /\ stack \in Seq(Frames)
    /\ answer \in [error : BOOLEAN, failed : Nat, succeeded : Nat, held : Nat] \cup {Pending}
    /\ inForce \subseteq KeySets
    /\ due \in Nat
    /\ offers \in Seq(Offers)
    /\ begun \subseteq Nodes \X (Nat \ {0}) /\ stopped \subseteq Nodes \X (Nat \ {0})

(* What an answer counts as failed and as succeeded is, together, every item once for every    *)
(* output it was for, but for the models held back, whatever outputs answer, in errors or in   *)
(* counts, through splitters of splitters and processors; and where no rules are on the way,   *)
(* "succeeded" is what endpoints have taken, and the models that are in no count are those     *)
(* endpoints have held back (the sums at the ends of PutMetrics, PutModels and PutEvents, over *)
(* endpoint.go:810-813).                                                                       *)
AnswerAccounts ==
    Counted =>
        /\ answer.failed + answer.succeeded + answer.held = due
        /\ begun = {} => /\ answer.succeeded = Cardinality(Fated("taken"))
                         /\ answer.held = Cardinality(Fated("held"))

(* An error of an endpoint is in the answer as an error or a failure: no splitter, rule or     *)
(* action, nor the item that an item is made from, loses it on its way up, unless a processor  *)
(* has another splitter or processor behind it, whose counts it ignores (processor.go:246-313).*)
ErrorsReachCaller ==
    Answered /\ Role[request.node] # "writer" =>
        \A j \in Fated("error") :
            (\A s \in begun : offers[j].at \in Behind[s[1]] => Outputs[s[1]][1] = offers[j].at)
                => answer.error \/ answer.failed > 0

(* No endpoint is given an item twice in a request; one that a rule dropped or failed for, at  *)
(* whatever depth of rules, goes to none behind that processor; and one no rule stopped goes   *)
(* to all of them, unless a later processor stops it (rule.go:42-58, processor.go:246-313).    *)
EndsOnce ==
    /\ \A j, k \in DOMAIN offers :
          offers[j].at = offers[k].at /\ offers[j].item = offers[k].item => j = k
    /\ \A s \in stopped : \A e \in Behind[s[1]] : OffersOf(e, s[2]) = {}
    /\ Answered => \A s \in begun : \A e \in Behind[s[1]] :
          OffersOf(e, s[2]) # {} \/ \E n \in Nodes : e \in Behind[n] /\ <<n, s[2]>> \in stopped

(* Processors change what they are given in place, and a splitter gives the same objects to    *)
(* all: an endpoint is given every field an item came with, a list with at least its values,   *)
(* whichever processors it was given to before (actionType.go:141-173, splitter.go:211-214).   *)
FieldsKept ==
    \A j \in DOMAIN offers : offers[j].item \in DOMAIN request.items =>
        \A f \in Fields : offers[j].content[f] >= Content(request.items, offers[j].item)[f]

(* However SetConfig and the request interleave, what the proxy serves is a request some key   *)
(* set in force meanwhile allows, and one answered with an error has reached no output         *)
(* (checkAPIKey and its callers).                                                              *)
Admission ==
    /\ pc = "serve" /\ Role[request.node] = "proxy" => \E keys \in inForce : Allows(keys)
    /\ pc \in {"check", "lookUp"} \/ (Answered /\ answer.error) => offers = <<>>

(* Every Zenoss destination sends every measure of a report once, as a compact or as a         *)
(* canonical metric, whatever could be converted and whichever destination before it fails     *)
(* (writer.go:48-53, zcDestination.go:85-107).                                                 *)
HealthSentOnce ==
    pc = "idle" /\ Role[request.node] = "writer" /\ answer # Pending /\ heap[1].kind = "health" =>
        \A d \in ToSet(Outputs[request.node]) : Role[d] = "zenoss" =>
            \A f \in Present(heap, 1) :
                Cardinality({j \in DOMAIN offers : /\ offers[j].at = Outputs[d][1]
                                                   /\ heap[offers[j].item].name = f}) = 1

(* A request is answered, or ends in a panic, though the proxy's configuration changes all the *)
(* time.                                                                                       *)
RequestAnswered == ~Ended ~> Ended
=============================================================================
