----------------------------- MODULE Discovery -----------------------------
(***************************************************************************)
(* How the other parts find a gateway, and how a gateway lets a client in. *)
(*                                                                         *)
(*  - LoadBalancer (api/src/api_utils/lb) hands the address of a gateway   *)
(*    to every client that logs in.  It learns them from a subscription it *)
(*    makes once, ten seconds after its start.                             *)
(*  - DynamicServiceDiscovery (utils/src/service_discovery) polls Consul   *)
(*    and sends what has changed to the balancer of a gRPC channel.        *)
(*  - websocket_handler counts the connections of an address.              *)
(*                                                                         *)
(* They follow the registry of module Pusher, beside the pusher, and do    *)
(* not affect each other: a behaviour is about one part.                   *)
(***************************************************************************)
EXTENDS Pusher, FiniteSets, Functions

CONSTANTS Wrap,         \* values of the counter of RoundRobin (2^64)
          Window, MaxConn,  \* RATE_LIMIT_WINDOW and MAX_CONN_PER_MINUTE
          MaxAsk,       \* bound of the model: calls of get_service
          MaxTime       \* bound of the model: the clock of the rate limit

ASSUME DiscoveryAssumption ==
    /\ Gateways \subseteq Nat       \* addresses, in the order of the BTreeSet
    /\ IsFiniteSet(Gateways)
    /\ Wrap \in Nat \ {0} /\ Window \in Nat \ {0} /\ MaxConn \in Nat \ {0}
    /\ MaxAsk \in Nat /\ MaxTime \in Nat

VARIABLES
    lb,         \* the subscription of the load balancer
    stream,     \* events on their way to it
    set,        \* service_set
    strategy,
    counter,    \* of RoundRobin
    asks,
    picked,     \* history: answers since the set last changed, by gateway
    wrapped,    \* history: how often the counter began again since then
    poll,       \* the discovery: where it is, what it has fetched, what to send
    services,   \* the services it has told the channel about
    sent,       \* the mpsc channel to the balancer
    endpoints,  \* what the balancer of the channel uses
    now,
    limiter,    \* rate_limiter, for one address: count and time of the first
    admitted    \* history: connections let in, their times and numbers

lbVars == <<lb, stream, set, strategy, counter, asks, picked, wrapped>>
pollVars == <<poll, services, sent, endpoints>>
doorVars == <<now, limiter, admitted>>
allVars == <<vars, lbVars, pollVars, doorVars>>

NoPick == [g \in Gateways |-> 0]
Asleep == [pc |-> "sleep", found |-> {}, todo |-> {}]

LbTypeOK ==
    /\ lb \in {"off", "sleeping", "subscribed", "ended"}
    /\ stream \in Seq(Event) /\ set \subseteq Gateways
    /\ strategy \in {"RoundRobin", "Random"} /\ counter \in 0..(Wrap - 1)
    /\ asks \in 0..MaxAsk
    /\ picked \in [Gateways -> Nat] /\ wrapped \in Nat

PollTypeOK ==
    /\ poll \in [pc : {"off", "sleep", "send"}, found : SUBSET Gateways, todo : SUBSET Event]
    /\ services \subseteq Gateways /\ sent \in Seq(Event)
    /\ endpoints \subseteq Gateways

DoorTypeOK ==
    /\ now \in 0..MaxTime
    /\ limiter \in [count : 0..MaxConn, since : 0..now, open : BOOLEAN]
    /\ admitted \subseteq [at : 0..now, n : Nat]

DiscoveryTypeOK == LbTypeOK /\ PollTypeOK /\ DoorTypeOK

\* One part runs, or the pusher.
DiscoveryInit ==
    /\ Init
    /\ lb \in {"off", "sleeping"} /\ poll \in {[Asleep EXCEPT !.pc = "off"], Asleep}
    /\ limiter \in {[count |-> 0, since |-> 0, open |-> o] : o \in BOOLEAN}
    /\ Cardinality({p \in {"pusher", "lb", "poll", "door"} :
          CASE p = "pusher" -> phase # "off" [] p = "lb" -> lb # "off"
            [] p = "poll" -> poll.pc # "off" [] p = "door" -> limiter.open}) = 1
    /\ strategy \in IF lb = "off" THEN {"RoundRobin"} ELSE {"RoundRobin", "Random"}
    /\ stream = <<>> /\ set = {} /\ counter = 0 /\ asks = 0
    /\ picked = NoPick /\ wrapped = 0
    /\ services = {} /\ sent = <<>> /\ endpoints = {}
    /\ now = 0 /\ admitted = {}

Changes(g) ==
    /\ ~limiter.open /\ GatewayChanges(g)
    /\ stream' = IF lb = "subscribed" THEN Append(stream, Report(g)) ELSE stream
    /\ UNCHANGED <<lb, set, strategy, counter, asks, picked, wrapped, pollVars, doorVars>>
-----------------------------------------------------------------------------
(* LoadBalancer.                                                           *)

Insertions(gs) == {[g |-> g, active |-> TRUE] : g \in gs}

\* The orders in which the registry may list a set.
Orders(S) == Bijection(1..Cardinality(S), S)

Removals(gs) == {[g |-> g, active |-> FALSE] : g \in gs}

\* What a change makes of a set of services.
Applied(e, gs) == IF e.active THEN gs \cup {e.g} ELSE gs \ {e.g}

\* The stream begins with the services there are.  An error ends the task.
Subscribe ==
    /\ lb = "sleeping"
    /\ \/ lb' = "subscribed" /\ stream' \in Orders(Insertions(up))
       \/ lb' = "ended" /\ UNCHANGED stream
    /\ UNCHANGED <<vars, set, strategy, counter, asks, picked, wrapped, pollVars, doorVars>>

\* The connection to the registry is lost; nobody subscribes again.
StreamEnds ==
    /\ lb = "subscribed" /\ lb' = "ended" /\ stream' = <<>>
    /\ UNCHANGED <<vars, set, strategy, counter, asks, picked, wrapped, pollVars, doorVars>>

Follow ==
    /\ stream # <<>> /\ stream' = Tail(stream)
    /\ set' = Applied(Head(stream), set)
    /\ IF set' = set THEN UNCHANGED <<picked, wrapped>>
       ELSE picked' = NoPick /\ wrapped' = 0
    /\ UNCHANGED <<vars, lb, strategy, counter, asks, pollVars, doorVars>>

\* services.iter().nth(i)
Nth(gs, i) == CHOOSE g \in gs : Cardinality({h \in gs : h < g}) = i

\* Mutant: the counter is set back when it reaches the number of services.
Restarting(n) == IF counter + 1 > n THEN 0 ELSE counter + 1

\* fetch_add, which wraps.
Advanced(n) == (counter + 1) % Wrap

GetService ==
    /\ lb # "off" /\ asks < MaxAsk /\ asks' = asks + 1
    /\ LET n == Cardinality(set) IN
       IF n = 0
       THEN UNCHANGED <<counter, picked, wrapped>>
       ELSE /\ counter' = IF strategy = "RoundRobin" THEN Advanced(n) ELSE counter
            /\ \E i \in IF strategy = "RoundRobin" THEN {counter % n} ELSE 0..(n - 1) :
                  picked' = [picked EXCEPT ![Nth(set, i)] = @ + 1]
            /\ wrapped' = IF counter = Wrap - 1 THEN wrapped + 1 ELSE wrapped
    /\ UNCHANGED <<vars, lb, stream, set, strategy, pollVars, doorVars>>
-----------------------------------------------------------------------------
(* DynamicServiceDiscovery.                                                *)

\* Mutant: only what has come is sent.
OnlyNew(found) == Insertions(found \ services)

ChangeSet(found) == Insertions(found \ services) \cup Removals(services \ found)

\* filter_by_name has answered; with an error the task goes back to sleep.
Fetch ==
    /\ poll.pc = "sleep"
    /\ poll' = [pc |-> "send", found |-> up, todo |-> ChangeSet(up)]
    /\ UNCHANGED <<vars, lbVars, services, sent, endpoints, doorVars>>

\* Those to insert before those to remove.
SendChange ==
    /\ poll.pc = "send"
    /\ \E e \in poll.todo :
         /\ e.active \/ \A f \in poll.todo : ~f.active
         /\ poll' = [poll EXCEPT !.todo = @ \ {e}]
         /\ sent' = Append(sent, e)
    /\ UNCHANGED <<vars, lbVars, services, endpoints, doorVars>>

RoundEnds ==
    /\ poll.pc = "send" /\ poll.todo = {}
    /\ services' = poll.found /\ poll' = Asleep
    /\ UNCHANGED <<vars, lbVars, sent, endpoints, doorVars>>

\* The balancer of the tonic channel.
Balance ==
    /\ sent # <<>> /\ sent' = Tail(sent)
    /\ endpoints' = Applied(Head(sent), endpoints)
    /\ UNCHANGED <<vars, lbVars, poll, services, doorVars>>
-----------------------------------------------------------------------------
(* websocket_handler.                                                      *)

\* Mutant: the limit is compared after counting.
AdmitsOneMore == now - limiter.since < Window => limiter.count <= MaxConn

Admits == now - limiter.since < Window => limiter.count < MaxConn

Counted ==
    IF limiter.count = 0 \/ now - limiter.since >= Window
    THEN [limiter EXCEPT !.count = 1, !.since = now]
    ELSE [limiter EXCEPT !.count = @ + 1]

\* A connection that is not admitted is answered and leaves no trace.
Connect ==
    /\ limiter.open /\ Admits
    /\ limiter' = Counted
    /\ admitted' = admitted \cup {[at |-> now, n |-> Cardinality(admitted) + 1]}
    /\ UNCHANGED <<vars, lbVars, pollVars, now>>

Tick ==
    /\ limiter.open /\ now < MaxTime /\ now' = now + 1
    /\ UNCHANGED <<vars, lbVars, pollVars, limiter, admitted>>
-----------------------------------------------------------------------------
Others == Subscribe \/ StreamEnds \/ Follow \/ GetService
          \/ Fetch \/ SendChange \/ RoundEnds \/ Balance \/ Connect \/ Tick

DiscoveryNext ==
    \/ Pushes /\ UNCHANGED <<lbVars, pollVars, doorVars>>
    \/ \E g \in Gateways : Changes(g)
    \/ Others

\* The tasks are polled by the runtime, and Consul answers in the end.
DiscoveryFairness ==
    /\ Fairness
    /\ WF_allVars(Follow) /\ WF_allVars(Balance)
    /\ WF_allVars(Fetch \/ SendChange \/ RoundEnds)

DiscoverySpec == DiscoveryInit /\ [][DiscoveryNext]_allVars /\ DiscoveryFairness
-----------------------------------------------------------------------------
(* Properties.                                                             *)

\* While the registry does not change, those who follow it come to know the
\* gateways that run: the service_set of the load balancer, as long as its one
\* subscription lasts, and the endpoints of a channel, although the changes of
\* several polls may be on their way to it.
FollowersConverge ==
    <>[](/\ lb = "subscribed" => set = up
         /\ poll.pc # "off" => endpoints = up)

\* RoundRobin spreads the clients evenly: since the set last changed, no
\* gateway was handed out more than once more often than another, and once
\* more for every time the counter has wrapped meanwhile.
RoundRobinEven ==
    strategy = "RoundRobin" =>
        \A g, h \in set : picked[g] <= picked[h] + 1 + wrapped

\* The connections let in from time t on, for the length of a window.
AdmittedFrom(t) == {e \in admitted : t <= e.at /\ e.at < t + Window}

\* In any window's time, also across the start of a new count, an address gets
\* fewer than twice MAX_CONN_PER_MINUTE connections.
BurstBounded == \A t \in 0..MaxTime : Cardinality(AdmittedFrom(t)) < 2 * MaxConn
-----------------------------------------------------------------------------
(* The inductive invariant.                                                *)

\* The place of a gateway in the iteration over a set.
Rank(gs, g) == Cardinality({h \in gs : h < g})

\* The places handed out in a round that began at place a and goes on at r.
InTurn(a, r, i) == IF a <= r THEN a <= i /\ i < r ELSE a <= i \/ i < r

\* Since the counter last began again every gateway was handed out once in each
\* of the full rounds, and once more if its place was passed in the present one.
\* What was handed out before differs by the times the counter began again.
Rounds ==
    (strategy = "RoundRobin" /\ set # {}) =>
        \E before \in [set -> Nat], full \in Nat, first \in 0..(Cardinality(set) - 1) :
            /\ \A g, h \in set : before[g] <= before[h] + wrapped
            /\ \A g \in set : picked[g] = before[g] + full
                  + IF InTurn(first, counter % Cardinality(set), Rank(set, g)) THEN 1 ELSE 0

\* The connections of the present count, and those from time t on before it.
Present == {e \in admitted : limiter.since <= e.at}

Earlier(t) == {e \in admitted : t <= e.at /\ e.at < limiter.since}

\* The limiter counts those since the first; before it, for less than a window,
\* at least one is missing to MAX_CONN_PER_MINUTE: the first of its own count.
DoorCounts ==
    /\ IsFiniteSet(admitted) /\ \A e \in admitted : e.n <= Cardinality(admitted)
    /\ Cardinality(Present) = limiter.count
    /\ \A e \in admitted : e.at < limiter.since + Window
    /\ IF limiter.count = 0 THEN admitted = {}
       ELSE \E e \in admitted : e.at = limiter.since
    /\ \A t \in 0..MaxTime :
         limiter.since < t + Window => Cardinality(Earlier(t)) < MaxConn

IInv == PusherInv /\ DiscoveryTypeOK /\ Rounds /\ DoorCounts /\ BurstBounded
-----------------------------------------------------------------------------
(* What FollowersConverge rests on.                                        *)

\* One who has gs and applies the events of es comes to know of g what gs2 says.
Tells(es, gs, gs2, g) ==
    \/ (\A i \in DOMAIN es : es[i].g # g) /\ (g \in gs <=> g \in gs2)
    \/ \E i \in DOMAIN es : /\ es[i].g = g /\ (es[i].active <=> g \in gs2)
                            /\ \A j \in DOMAIN es : j > i => es[j].g # g

\* The stream of the load balancer leads to the gateways that run.
StreamLeads ==
    /\ lb \in {"off", "sleeping"} => stream = <<>> /\ set = {}
    /\ lb = "subscribed" => \A g \in Gateways : Tells(stream, set, up, g)

\* What the discovery has sent leads to the services it remembers; during a
\* round, with what it has yet to send, to those it found.
SentLeads ==
    /\ poll.pc = "sleep" => \A g \in Gateways : Tells(sent, endpoints, services, g)
    /\ poll.pc = "send" =>
         /\ \A e \in poll.todo : e.active <=> e.g \in poll.found
         /\ \A g \in Gateways : (\A e \in poll.todo : e.g # g)
                                    => Tells(sent, endpoints, poll.found, g)

\* A follower that has read what was on its way knows what it is to know: the
\* load balancer the gateways that run, a channel those of the last poll.
CaughtUp ==
    /\ (lb = "subscribed" /\ stream = <<>>) => set = up
    /\ (poll.pc = "sleep" /\ sent = <<>>) => endpoints = services
=============================================================================
