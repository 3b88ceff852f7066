------------------------------- MODULE Pusher -------------------------------
(***************************************************************************)
(* PusherService (msg_server/src/pusher/service.rs): the gateways it knows *)
(* from the registry's change stream, and the pushes of the consumer, one  *)
(* at a time, to all of them.  A push spawns one call per gateway.  A      *)
(* single push waits for every call and drops the gateways that failed; a  *)
(* group push returns with the first success and leaves the other calls    *)
(* running.                                                                *)
(***************************************************************************)
EXTENDS Integers, Sequences, FiniteSets

CONSTANTS Gateways,
          MaxPush,      \* bound of the model: messages pushed
          MaxChange     \* bound of the model: gateway starts and stops

ASSUME PusherAssumption == MaxPush \in Nat /\ MaxChange \in Nat

VARIABLES
    up,         \* gateways running and registered
    events,     \* the subscription stream and the mpsc channel behind it
    changes,
    list,       \* ws_rpc_list
    kinds,      \* the kind of each message pushed so far
    phase,      \* where the current push is; "off" where no message server runs
    calls,      \* gRPC calls in flight
    results,    \* the channel rx of the current push
    got         \* messages each gateway has received, in order

registry == <<up, events, changes>>
vars == <<registry, list, kinds, phase, calls, results, got>>

Kind == {"single", "group"}
Event == [g : Gateways, active : BOOLEAN]
Call == [m : 1..MaxPush, g : Gateways]
Result == [g : Gateways, ok : BOOLEAN]

TypeOK ==
    /\ up \subseteq Gateways
    /\ events \in Seq(Event)
    /\ changes \in 0..MaxChange
    /\ list \subseteq Gateways
    /\ kinds \in Seq(Kind) /\ Len(kinds) <= MaxPush
    /\ phase \in {"off", "idle", "query", "send", "collect"}
    /\ calls \subseteq Call
    /\ results \in Seq(Result)
    /\ got \in [Gateways -> Seq(1..MaxPush)]

Init ==
    /\ up = {} /\ events = <<>> /\ changes = 0
    /\ list = {} /\ kinds = <<>> /\ phase \in {"off", "idle"}
    /\ calls = {} /\ results = <<>>
    /\ got = [g \in Gateways |-> <<>>]

Cur == Len(kinds)
-----------------------------------------------------------------------------
(* The registry, external, reports every start and stop in order.          *)
Report(g) == [g |-> g, active |-> g \in up']

GatewayChanges(g) ==
    /\ changes < MaxChange /\ changes' = changes + 1
    /\ up' = IF g \in up THEN up \ {g} ELSE up \cup {g}
    /\ events' = IF phase = "off" THEN events ELSE Append(events, Report(g))
    /\ UNCHANGED <<list, kinds, phase, calls, results, got>>

\* Those of gs a connection is made to: none that is down, and of the others
\* not one that has registered and does not serve yet (MsgRpcService::start).
Connects(gs) == SUBSET (gs \cap up)

\* The task of PusherService::new: an Insert whose connect fails is dropped.
ApplyChange ==
    /\ events # <<>> /\ events' = Tail(events)
    /\ LET e == Head(events) IN
       IF e.active THEN \E gs \in Connects({e.g}) : list' = list \cup gs
       ELSE list' = list \ {e.g}
    /\ UNCHANGED <<up, changes, kinds, phase, calls, results, got>>
-----------------------------------------------------------------------------
(* push_single_msg and push_group_msg.                                     *)

PushBegins(k) ==
    /\ phase = "idle" /\ Cur < MaxPush
    /\ kinds' = Append(kinds, k)
    /\ phase' = IF list = {} THEN "query" ELSE "send"
    /\ UNCHANGED <<registry, list, calls, results, got>>

\* query_with_name and handle_sub_services, or the error of the query.
QueryRegistry ==
    /\ phase = "query"
    /\ \/ \E gs \in Connects(up) : list' = list \cup gs /\ phase' = "send"
       \/ list' = list /\ phase' = "idle"
    /\ UNCHANGED <<registry, kinds, calls, results, got>>

\* mpsc::channel(0) panics: the push task dies.
SendPanics ==
    /\ phase = "send" /\ list = {} /\ phase' = "idle"
    /\ UNCHANGED <<registry, list, kinds, calls, results, got>>

Send ==
    /\ phase = "send" /\ list # {} /\ phase' = "collect"
    /\ calls' = calls \cup {[m |-> Cur, g |-> g] : g \in list}
    /\ results' = <<>>
    /\ UNCHANGED <<registry, list, kinds, got>>

\* A call reports to its own push only, a single push's success not at all.
Reports(c, ok) ==
    results' = IF c.m = Cur /\ phase = "collect" /\ (kinds[Cur] = "group" \/ ~ok)
               THEN Append(results, [g |-> c.g, ok |-> ok]) ELSE results

Delivered(c) == Append(got[c.g], c.m)

CallEnds(c) == calls \ {c}

CallSucceeds(c) ==
    /\ c.g \in up
    /\ calls' = CallEnds(c) /\ Reports(c, TRUE)
    /\ got' = [got EXCEPT ![c.g] = Delivered(c)]
    /\ UNCHANGED <<registry, list, kinds, phase>>

\* The gateway is down, or was restarted, or the network failed.
CallFails(c) ==
    /\ calls' = CallEnds(c) /\ Reports(c, FALSE)
    /\ UNCHANGED <<registry, list, kinds, phase, got>>

CollectError ==
    /\ phase = "collect" /\ results # <<>> /\ ~Head(results).ok
    /\ list' = list \ {Head(results).g}
    /\ results' = Tail(results)
    /\ UNCHANGED <<registry, kinds, phase, calls, got>>

\* Mutant: a single push returns without waiting for its calls.
AnyDone == results = <<>>

\* Mutant: the push keeps a sender of its own channel.
TxNotDropped == FALSE

\* Every sender of the channel is dropped and the channel is drained.
AllDone == results = <<>> /\ \A c \in calls : c.m # Cur

\* The loop of a group push ends with the first Ok as well.
PushReturns ==
    /\ phase = "collect" /\ phase' = "idle"
    /\ AllDone \/ (results # <<>> /\ Head(results).ok)
    /\ results' = <<>>
    /\ UNCHANGED <<registry, list, kinds, calls, got>>
-----------------------------------------------------------------------------
Collects == CollectError \/ PushReturns

Calls == \E c \in calls : CallSucceeds(c) \/ CallFails(c)

\* No call to answer and no event to apply: the process waits.
Quiet == calls = {} /\ events = <<>> /\ UNCHANGED vars

Pushes ==
    \/ Quiet
    \/ ApplyChange
    \/ \E k \in Kind : PushBegins(k)
    \/ QueryRegistry \/ SendPanics \/ Send
    \/ Calls \/ Collects

Next == Pushes \/ \E g \in Gateways : GatewayChanges(g)

Spec == Init /\ [][Next]_vars

\* The runtime polls the push and its tasks, and a gRPC call ends.
Fairness ==
    /\ WF_vars(QueryRegistry \/ SendPanics \/ Send \/ Collects)
    /\ WF_vars(Calls)

FairSpec == Spec /\ Fairness
-----------------------------------------------------------------------------
(* Properties.                                                             *)

\* A gateway receives a message at most once, and the messages in the order of
\* the pushes, except that a message of push_group_msg, which returns with the
\* first success, may arrive behind later ones.
OnlyGroupPushesAreOvertaken ==
    \A g \in Gateways : \A i, j \in 1..Len(got[g]) : i < j =>
        \/ got[g][i] < got[g][j]
        \/ got[g][i] > got[g][j] /\ kinds[got[g][j]] = "group"

\* Every push ends, so that the consumer goes on with the next message, with
\* gateways that fail, restart or are removed while it waits for them.
PushesEnd == phase \notin {"off", "idle"} ~> phase = "idle"
-----------------------------------------------------------------------------
(* The inductive invariant.                                                *)

\* A gateway is called with a message once.  Only the calls of the present push
\* and those that a group push has left behind are in flight.
Pushed ==
    /\ \A c \in calls :
         /\ c.m \in 1..Cur /\ \A i \in DOMAIN got[c.g] : got[c.g][i] # c.m
         /\ (c.m = Cur /\ phase = "collect") \/ kinds[c.m] = "group"
    /\ \A g \in Gateways : \A i \in DOMAIN got[g] : got[g][i] <= Cur
    /\ phase \in {"query", "send"} =>
         /\ \A c \in calls : c.m # Cur
         /\ \A g \in Gateways : \A i \in DOMAIN got[g] : got[g][i] # Cur
    /\ phase # "collect" => results = <<>>
    /\ phase \in {"query", "send", "collect"} => Cur > 0
    /\ \A i \in DOMAIN results : results[i].ok => kinds[Cur] = "group"

PusherInv == TypeOK /\ Pushed /\ OnlyGroupPushesAreOvertaken
-----------------------------------------------------------------------------
(* What PushesEnd rests on.                                                *)

\* The calls the present push waits for, and how much it has yet to see: a call
\* is seen when it ends, and again when its result is taken from the channel.
Awaited == {c \in calls : c.m = Cur}

PushLeft == 2 * Cardinality(Awaited) + Len(results)

\* A push that collects gets no further calls to wait for, whatever gateways
\* come and go: it stays, it has less to see, or it returns.
PushGoesForward ==
    [][phase = "collect" =>
         \/ phase' = "idle"
         \/ phase' = "collect" /\ UNCHANGED <<Awaited, results>>
         \/ phase' = "collect" /\ PushLeft' < PushLeft]_vars
=============================================================================
