--------------------------- MODULE DiscoveryProofs ---------------------------
(***************************************************************************)
(* Proofs about Pusher and Discovery, for any finite set of gateways, any  *)
(* number of pushes, requests and changes of the registry, any wrap of the *)
(* counter, window and limit: the order in which gateways receive, how     *)
(* evenly they are handed out, how many connections a window admits, and   *)
(* that those who follow the registry lose nothing of it.                  *)
(***************************************************************************)
EXTENDS Discovery, FiniteSetTheorems, TLAPS

\* Zenon is tried unless a leaf names Z3, which takes arithmetic and sequences.
USE Zenon
-----------------------------------------------------------------------------
(* The pusher.                                                             *)

\* A sequence with one more element.
LEMMA Appended ==
    ASSUME NEW S, NEW q \in Seq(S), NEW x \in S
    PROVE  /\ Append(q, x) \in Seq(S) /\ Len(Append(q, x)) = Len(q) + 1
           /\ DOMAIN Append(q, x) = 1..(Len(q) + 1) /\ DOMAIN q = 1..Len(q)
           /\ Len(q) \in Nat
           /\ Append(q, x)[Len(q) + 1] = x
           /\ \A i \in 1..Len(q) : Append(q, x)[i] = q[i] /\ q[i] \in S
  BY SMTT(30)

\* A sequence without its head.
LEMMA Behead ==
    ASSUME NEW S, NEW q \in Seq(S), q # <<>>
    PROVE  /\ Head(q) \in S /\ Head(q) = q[1] /\ 1 \in DOMAIN q
           /\ Tail(q) \in Seq(S)
           /\ \A i \in DOMAIN Tail(q) : i + 1 \in DOMAIN q /\ Tail(q)[i] = q[i + 1]
  BY SMTT(30)

\* What a gateway has received.
LEMMA Received ==
    ASSUME PusherInv
    PROVE  \A g \in Gateways :
              /\ got[g] \in Seq(1..MaxPush) /\ Len(got[g]) \in Nat
              /\ DOMAIN got[g] = 1..Len(got[g])
              /\ \A i \in DOMAIN got[g] : got[g][i] \in 1..MaxPush
  <1>1. ASSUME NEW S, NEW q \in Seq(S)
        PROVE  Len(q) \in Nat /\ DOMAIN q = 1..Len(q) /\ \A i \in DOMAIN q : q[i] \in S
    BY SMTT(30), <1>1
  <1>2. ASSUME NEW g \in Gateways PROVE got[g] \in Seq(1..MaxPush)
    BY <1>2 DEF PusherInv, TypeOK
  <1> QED BY <1>1, <1>2

\* Nothing has been pushed at first.
LEMMA PusherInit == Init => PusherInv
  <1> SUFFICES ASSUME Init PROVE PusherInv
    OBVIOUS
  <1>2. Cur = 0 /\ Len(kinds) = 0 /\ DOMAIN results = {} /\ 0 \in 0..MaxChange
    BY SMTT(30), PusherAssumption DEF Init, Cur
  <1>3. \A g \in Gateways : Len(got[g]) = 0 /\ DOMAIN got[g] = {}
    <2>1. Len(<<>>) = 0 /\ DOMAIN <<>> = {}
      BY SMTT(30)
    <2> QED BY <2>1 DEF Init
  <1>4. TypeOK
    BY SMTT(30), PusherAssumption DEF Init, TypeOK
  <1>5. Pushed
    BY <1>2, <1>3 DEF Init, Pushed
  <1>6. OnlyGroupPushesAreOvertaken
    BY SMTT(30), <1>3 DEF OnlyGroupPushesAreOvertaken
  <1> QED BY <1>4, <1>5, <1>6 DEF PusherInv

\* The registry and the list of gateways change, and no push goes on.
LEMMA ListChanges ==
    ASSUME PusherInv, TypeOK',
           UNCHANGED <<kinds, phase, calls, results, got>>
    PROVE  PusherInv'
  <1>1. Cur' = Cur
    BY DEF Cur
  <1>2. Pushed'
    BY <1>1 DEF PusherInv, Pushed
  <1>3. OnlyGroupPushesAreOvertaken'
    BY SMTT(30) DEF PusherInv, OnlyGroupPushesAreOvertaken
  <1> QED BY <1>2, <1>3 DEF PusherInv

\* The registry reports every start and stop.
LEMMA ChangesStep ==
    ASSUME PusherInv, NEW g \in Gateways, GatewayChanges(g) PROVE PusherInv'
  <1>1. Report(g) \in Event
    BY SMTT(30) DEF Report, Event
  <1>2. events' \in Seq(Event)
    BY <1>1, Appended DEF PusherInv, TypeOK, GatewayChanges
  <1>3. changes' \in 0..MaxChange
    BY SMTT(30), PusherAssumption DEF PusherInv, TypeOK, GatewayChanges
  <1>4. TypeOK'
    BY <1>2, <1>3 DEF PusherInv, TypeOK, GatewayChanges
  <1> QED BY <1>4, ListChanges DEF GatewayChanges

\* An event is applied to the list.
LEMMA ApplyStep == ASSUME PusherInv, ApplyChange PROVE PusherInv'
  <1>1. Head(events) \in Event /\ Tail(events) \in Seq(Event)
    BY Behead DEF PusherInv, TypeOK, ApplyChange
  <1>2. list' \subseteq Gateways
    BY <1>1 DEF PusherInv, TypeOK, ApplyChange, Event, Connects
  <1>3. TypeOK'
    BY <1>1, <1>2 DEF PusherInv, TypeOK, ApplyChange
  <1> QED BY <1>3, ListChanges DEF ApplyChange

\* The order of the pushes is about what was received before.
LEMMA OrderStays ==
    ASSUME PusherInv, got' = got, kinds' = kinds
    PROVE  OnlyGroupPushesAreOvertaken'
  BY SMTT(30) DEF PusherInv, OnlyGroupPushesAreOvertaken

\* A push begins: no call and no message received is of this push.
LEMMA PushBeginsStep ==
    ASSUME PusherInv, NEW k \in Kind, PushBegins(k) PROVE PusherInv'
  <1>1. /\ kinds \in Seq(Kind) /\ kinds' = Append(kinds, k)
        /\ calls' = calls /\ got' = got /\ results' = results /\ phase = "idle"
        /\ phase' \in {"query", "send"} /\ results = <<>>
    BY DEF PusherInv, TypeOK, PushBegins, Pushed
  <1>2. /\ Cur \in Nat /\ Cur' = Cur + 1 /\ kinds' \in Seq(Kind) /\ Len(kinds') <= MaxPush
        /\ \A i \in 1..Cur : kinds'[i] = kinds[i]
    BY SMTT(30), <1>1, PusherAssumption DEF Cur, PushBegins
  <1>3. TypeOK'
    BY <1>1, <1>2 DEF PusherInv, TypeOK, PushBegins, registry
  <1>3a. Cur' > 0
    BY SMTT(30), <1>2
  <1>4. \A c \in calls : c.m \in 1..Cur' /\ c.m # Cur'
    BY SMTT(30), <1>2 DEF PusherInv, Pushed
  <1>5. \A g \in Gateways : \A i \in DOMAIN got[g] : got[g][i] <= Cur' /\ got[g][i] # Cur'
    <2>1. ASSUME NEW g \in Gateways, NEW i \in DOMAIN got[g]
          PROVE  got[g][i] <= Cur /\ got[g][i] \in 1..MaxPush
      BY <2>1, Received DEF PusherInv, Pushed
    <2> QED BY SMTT(30), <1>2, <2>1, PusherAssumption
  <1>6. \A c \in calls : kinds'[c.m] = "group"
    BY <1>1, <1>2 DEF PusherInv, Pushed
  <1>7. DOMAIN results = {}
    BY SMTT(30), <1>1
  <1>8. Pushed'
    BY <1>1, <1>3a, <1>4, <1>5, <1>6, <1>7 DEF PusherInv, Pushed
  <1>9. OnlyGroupPushesAreOvertaken'
    <2> SUFFICES ASSUME NEW g \in Gateways, NEW i \in 1..Len(got[g]), NEW j \in 1..Len(got[g]),
                        i < j
                 PROVE  \/ got[g][i] < got[g][j]
                        \/ got[g][i] > got[g][j] /\ kinds'[got[g][j]] = "group"
      BY ZenonT(40), <1>1 DEF OnlyGroupPushesAreOvertaken
    <2>0. got[g][j] <= Cur
      BY Received DEF PusherInv, Pushed
    <2>1. got[g][j] \in 1..Cur
      BY SMTT(30), <1>2, <2>0, Received
    <2> QED BY <1>2, <2>1 DEF PusherInv, OnlyGroupPushesAreOvertaken
  <1> QED BY <1>3, <1>8, <1>9 DEF PusherInv

\* A push is given up: the query fails, or there is no gateway to call.
LEMMA QueryStep == ASSUME PusherInv, QueryRegistry \/ SendPanics PROVE PusherInv'
  <1>1. /\ Cur' = Cur /\ UNCHANGED <<up, events, changes, kinds, calls, results, got>>
        /\ phase \in {"query", "send"} /\ phase' \in {"send", "idle"}
    BY DEF QueryRegistry, SendPanics, Cur, registry
  <1>2. list' \subseteq Gateways
    BY DEF QueryRegistry, SendPanics, PusherInv, TypeOK, Connects
  <1>3. TypeOK'
    BY <1>1, <1>2 DEF PusherInv, TypeOK
  <1>4. Pushed'
    BY <1>1 DEF PusherInv, Pushed
  <1> QED BY <1>1, <1>3, <1>4, OrderStays DEF PusherInv

\* The calls of the present push are new.
LEMMA SendStep == ASSUME PusherInv, Send PROVE PusherInv'
  <1> DEFINE new == {[m |-> Cur, g |-> g] : g \in list}
  <1>1. /\ Cur' = Cur /\ UNCHANGED <<up, events, changes, list, kinds, got>>
        /\ calls' = calls \cup new /\ results' = <<>> /\ phase' = "collect" /\ phase = "send"
    BY DEF Send, Cur, registry
  <1>2. Cur \in Nat /\ Cur <= MaxPush
    BY SMTT(30) DEF Cur, PusherInv, TypeOK
  <1>3. Cur > 0
    BY <1>1 DEF PusherInv, Pushed
  <1>4. Cur \in 1..Cur /\ Cur \in 1..MaxPush
    BY SMTT(30), <1>2, <1>3, PusherAssumption
  <1>5. new \subseteq Call
    BY SMTT(30), <1>4 DEF Call, PusherInv, TypeOK
  <1>6. <<>> \in Seq(Result) /\ DOMAIN <<>> = {}
    BY SMTT(30)
  <1>7. TypeOK'
    BY <1>1, <1>5, <1>6 DEF PusherInv, TypeOK
  <1>8. \A c \in new : c.m = Cur /\ c.g \in Gateways
    BY SMTT(30) DEF PusherInv, TypeOK
  <1>9. Pushed'
    <2>1. \A c \in calls' :
            /\ c.m \in 1..Cur /\ \A i \in DOMAIN got[c.g] : got[c.g][i] # c.m
            /\ c.m = Cur \/ kinds[c.m] = "group"
      BY <1>1, <1>4, <1>8 DEF PusherInv, Pushed
    <2> QED BY <1>1, <1>3, <1>6, <2>1 DEF PusherInv, Pushed
  <1> QED BY <1>1, <1>7, <1>9, OrderStays DEF PusherInv

\* The results of a push are those of the calls it waits for.
LEMMA Reported ==
    ASSUME PusherInv, NEW c \in calls, NEW ok \in BOOLEAN, Reports(c, ok),
           kinds' = kinds, phase' = phase
    PROVE  /\ results' \in Seq(Result)
           /\ phase # "collect" => results' = <<>>
           /\ \A i \in DOMAIN results' : results'[i].ok => kinds[Cur] = "group"
  <1> DEFINE r == [g |-> c.g, ok |-> ok]
  <1>1. r \in Result /\ r.ok = ok
    BY DEF PusherInv, TypeOK, Call, Result
  <1>2. results \in Seq(Result)
    BY DEF PusherInv, TypeOK
  <1>3. CASE results' = results
    BY <1>2, <1>3 DEF PusherInv, Pushed
  <1> HIDE DEF r
  <1>4. CASE /\ results' = Append(results, r)
             /\ phase = "collect" /\ (kinds[Cur] = "group" \/ ~ok)
    <2>1. /\ results' \in Seq(Result) /\ DOMAIN results' = 1..(Len(results) + 1)
          /\ Len(results) \in Nat /\ DOMAIN results = 1..Len(results)
          /\ results'[Len(results) + 1] = r
          /\ \A i \in 1..Len(results) : results'[i] = results[i]
      BY SMTT(30), <1>1, <1>2, <1>4
    <2>2. \A i \in DOMAIN results' : i = Len(results) + 1 \/ i \in DOMAIN results
      BY SMTT(30), <2>1
    <2>3. r.ok => kinds[Cur] = "group"
      BY <1>1, <1>4
    <2>4. ASSUME NEW i \in DOMAIN results', results'[i].ok PROVE kinds[Cur] = "group"
      <3>1. CASE i = Len(results) + 1
        BY <2>1, <2>3, <2>4, <3>1
      <3>2. CASE i \in DOMAIN results
        BY <2>1, <2>4, <3>2 DEF PusherInv, Pushed
      <3> QED BY <2>2, <3>1, <3>2
    <2> QED BY <1>4, <2>1, <2>4
  <1> QED BY <1>3, <1>4 DEF Reports, r

\* A call ends in error.
LEMMA CallFailsStep ==
    ASSUME PusherInv, NEW c \in calls, CallFails(c) PROVE PusherInv'
  <1>1. /\ Cur' = Cur /\ UNCHANGED <<up, events, changes, list, kinds, phase, got>>
        /\ calls' = calls \ {c} /\ Reports(c, FALSE)
    BY DEF CallFails, CallEnds, Cur, registry
  <1>2. /\ results' \in Seq(Result)
        /\ phase # "collect" => results' = <<>>
        /\ \A i \in DOMAIN results' : results'[i].ok => kinds[Cur] = "group"
    BY <1>1, Reported
  <1>3. TypeOK'
    BY <1>1, <1>2 DEF PusherInv, TypeOK
  <1>4. Pushed'
    BY <1>1, <1>2 DEF PusherInv, Pushed
  <1> QED BY <1>1, <1>3, <1>4, OrderStays DEF PusherInv

\* A message arrives behind others, which are of earlier pushes unless its own
\* is a group push that has returned.
LEMMA CallSucceedsStep ==
    ASSUME PusherInv, NEW c \in calls, CallSucceeds(c) PROVE PusherInv'
  <1>1. /\ Cur' = Cur /\ UNCHANGED <<up, events, changes, list, kinds, phase>>
        /\ calls' = calls \ {c} /\ Reports(c, TRUE)
    BY DEF CallSucceeds, CallEnds, Cur, registry
  <1>2. /\ results' \in Seq(Result)
        /\ phase # "collect" => results' = <<>>
        /\ \A i \in DOMAIN results' : results'[i].ok => kinds[Cur] = "group"
    BY <1>1, Reported
  <1>3. c = [m |-> c.m, g |-> c.g] /\ c.m \in 1..MaxPush /\ c.g \in Gateways
    BY SMTT(30) DEF PusherInv, TypeOK, Call
  <1> DEFINE q == got[c.g]
             n == Len(q)
  <1>4. q \in Seq(1..MaxPush) /\ n \in Nat /\ DOMAIN q = 1..n
    BY <1>3, Received
  <1>5. /\ got' = [got EXCEPT ![c.g] = Append(q, c.m)]
        /\ got \in [Gateways -> Seq(1..MaxPush)]
    BY DEF CallSucceeds, Delivered, PusherInv, TypeOK
  <1>6. /\ Append(q, c.m) \in Seq(1..MaxPush) /\ Len(Append(q, c.m)) = n + 1
        /\ DOMAIN Append(q, c.m) = 1..(n + 1)
        /\ Append(q, c.m)[n + 1] = c.m
        /\ \A i \in 1..n : Append(q, c.m)[i] = q[i]
    <2> DEFINE T == 1..MaxPush
    <2>1. q \in Seq(T) /\ c.m \in T /\ n = Len(q)
      BY <1>3, <1>4
    <2> HIDE DEF T, q, n
    <2>2. /\ Append(q, c.m) \in Seq(T) /\ Len(Append(q, c.m)) = n + 1
          /\ DOMAIN Append(q, c.m) = 1..(n + 1)
          /\ Append(q, c.m)[n + 1] = c.m
          /\ \A i \in 1..n : Append(q, c.m)[i] = q[i]
      BY SMTT(30), <2>1
    <2> QED BY <2>2 DEF T
  <1>7. /\ got' \in [Gateways -> Seq(1..MaxPush)] /\ got'[c.g] = Append(q, c.m)
        /\ \A g \in Gateways : g # c.g => got'[g] = got[g]
    BY <1>3, <1>5, <1>6
  <1>8. TypeOK'
    BY <1>1, <1>2, <1>7 DEF PusherInv, TypeOK
  <1>9. /\ c.m \in 1..Cur /\ \A i \in DOMAIN q : q[i] # c.m
        /\ c.m = Cur \/ kinds[c.m] = "group"
        /\ \A i \in DOMAIN q : q[i] <= Cur
        /\ phase \in {"query", "send"} => c.m # Cur
    BY <1>3 DEF PusherInv, Pushed
  <1>10. Cur \in Nat /\ c.m <= Cur
    BY SMTT(30), <1>9 DEF PusherInv, TypeOK, Cur
  <1>11. \A i \in 1..(n + 1) : i \in 1..n \/ i = n + 1
    BY SMTT(30), <1>4
  <1> HIDE DEF q, n
  <1>12. \A g \in Gateways : \A i \in DOMAIN got'[g] :
            \/ i \in DOMAIN got[g] /\ got'[g][i] = got[g][i]
            \/ g = c.g /\ got'[g][i] = c.m
    BY <1>4, <1>6, <1>7, <1>11 DEF q
  <1>13. Pushed'
    <2>1. ASSUME NEW d \in calls', NEW i \in DOMAIN got'[d.g] PROVE got'[d.g][i] # d.m
      <3>1. d \in calls /\ d # c /\ d \in Call
        BY <1>1 DEF PusherInv, TypeOK
      <3>2. d.g \in Gateways /\ (d.g = c.g => d.m # c.m)
        BY SMTT(30), <1>3, <3>1 DEF Call
      <3> QED BY <1>12, <3>1, <3>2 DEF PusherInv, Pushed
    <2>2. \A d \in calls' :
            d.m \in 1..Cur /\ ((d.m = Cur /\ phase = "collect") \/ kinds[d.m] = "group")
      BY <1>1 DEF PusherInv, Pushed
    <2>3. \A g \in Gateways : \A i \in DOMAIN got'[g] : got'[g][i] <= Cur
      BY <1>10, <1>12 DEF PusherInv, Pushed
    <2>4. phase \in {"query", "send"} =>
            /\ \A d \in calls' : d.m # Cur
            /\ \A g \in Gateways : \A i \in DOMAIN got'[g] : got'[g][i] # Cur
      BY ZenonT(40), <1>1, <1>9, <1>12 DEF PusherInv, Pushed
    <2> QED BY <1>1, <1>2, <2>1, <2>2, <2>3, <2>4 DEF PusherInv, Pushed
  <1>14. ASSUME NEW g \in Gateways, NEW i \in 1..Len(got'[g]), NEW j \in 1..Len(got'[g]), i < j
         PROVE  \/ got'[g][i] < got'[g][j]
                \/ got'[g][i] > got'[g][j] /\ kinds[got'[g][j]] = "group"
    <2>1. CASE g # c.g
      BY ZenonT(40), <1>7, <1>14, <2>1 DEF PusherInv, OnlyGroupPushesAreOvertaken
    <2>2. CASE g = c.g /\ j \in 1..n
      <3>1. i \in 1..n
        BY SMTT(30), <1>4, <1>6, <1>7, <1>14, <2>2
      <3>2. got'[g][i] = q[i] /\ got'[g][j] = q[j]
        BY <1>6, <1>7, <2>2, <3>1
      <3> QED BY <1>3, <1>14, <2>2, <3>1, <3>2 DEF PusherInv, OnlyGroupPushesAreOvertaken, q, n
    <2>3. CASE g = c.g /\ j = n + 1
      <3>1. i \in 1..n
        BY SMTT(30), <1>4, <1>14, <2>3
      <3>2. got'[g][i] = q[i] /\ got'[g][j] = c.m
        BY <1>6, <1>7, <2>3, <3>1
      <3>3. q[i] \in 1..MaxPush /\ q[i] # c.m /\ q[i] <= Cur
        BY <1>3, <1>4, <1>9, <3>1, Received DEF q
      <3>4. q[i] < c.m \/ (q[i] > c.m /\ c.m # Cur)
        BY SMTT(30), <1>9, <1>10, <3>3, PusherAssumption
      <3> QED BY <1>9, <3>2, <3>4
    <2> QED BY <1>6, <1>7, <1>11, <1>14, <2>1, <2>2, <2>3
  <1>15. OnlyGroupPushesAreOvertaken'
    BY <1>1, <1>14 DEF OnlyGroupPushesAreOvertaken
  <1> QED BY <1>8, <1>13, <1>15 DEF PusherInv

\* A gateway that failed is dropped from the list.
LEMMA CollectErrorStep == ASSUME PusherInv, CollectError PROVE PusherInv'
  <1>1. /\ Cur' = Cur /\ UNCHANGED <<up, events, changes, kinds, phase, calls, got>>
        /\ results' = Tail(results) /\ phase = "collect" /\ list' \subseteq list
    BY DEF CollectError, Cur, registry
  <1>2. /\ results' \in Seq(Result)
        /\ \A i \in DOMAIN results' : i + 1 \in DOMAIN results /\ results'[i] = results[i + 1]
    BY Behead DEF CollectError, PusherInv, TypeOK
  <1>3. TypeOK'
    BY <1>1, <1>2 DEF PusherInv, TypeOK
  <1>4. Pushed'
    BY <1>1, <1>2 DEF PusherInv, Pushed
  <1> QED BY <1>1, <1>3, <1>4, OrderStays DEF PusherInv

\* A push returns with its calls ended, or as a group push.
LEMMA PushReturnsStep == ASSUME PusherInv, PushReturns PROVE PusherInv'
  <1>1. /\ Cur' = Cur /\ UNCHANGED <<up, events, changes, list, kinds, calls, got>>
        /\ results' = <<>> /\ phase = "collect" /\ phase' = "idle"
    BY DEF PushReturns, Cur, registry
  <1>2. <<>> \in Seq(Result) /\ DOMAIN <<>> = {}
    BY SMTT(30)
  <1>3. TypeOK'
    BY <1>1, <1>2 DEF PusherInv, TypeOK
  <1>4. (\A c \in calls : c.m # Cur) \/ kinds[Cur] = "group"
    <2>1. CASE results # <<>> /\ Head(results).ok
      BY <2>1, Behead DEF PusherInv, TypeOK, Pushed
    <2> QED BY <2>1 DEF PushReturns, AllDone
  <1>5. Pushed'
    BY <1>1, <1>2, <1>4 DEF PusherInv, Pushed
  <1> QED BY <1>1, <1>3, <1>5, OrderStays DEF PusherInv

\* Every step of the pusher and of the registry keeps its invariant.
LEMMA PusherStep == ASSUME PusherInv, [Next]_vars PROVE PusherInv'
  <1>1. CASE UNCHANGED vars
    <2>1. TypeOK'
      BY <1>1 DEF PusherInv, TypeOK, vars, registry
    <2> QED BY <1>1, <2>1, ListChanges DEF vars
  <1>2. CASE Pushes
    BY <1>1, <1>2, ApplyStep, PushBeginsStep, QueryStep, SendStep, CallSucceedsStep,
       CallFailsStep, CollectErrorStep, PushReturnsStep DEF Pushes, Quiet, Calls, Collects
  <1>3. CASE \E g \in Gateways : GatewayChanges(g)
    BY <1>3, ChangesStep
  <1> QED BY <1>1, <1>2, <1>3 DEF Next
-----------------------------------------------------------------------------
(* The load balancer.                                                      *)

\* An order of a finite set of events is a sequence of them.
LEMMA OrderIsSequence ==
    ASSUME NEW S, IsFiniteSet(S), NEW q \in Orders(S) PROVE q \in Seq(S)
  <1>1. Cardinality(S) \in Nat
    BY FS_CardinalityType
  <1>2. q \in [1..Cardinality(S) -> S]
    BY DEF Orders, Bijection, Injection
  <1> QED BY SMTT(30), <1>1, <1>2

\* Sets of gateways are finite, and so are the events about them.
LEMMA FewGateways ==
    ASSUME NEW gs \in SUBSET Gateways
    PROVE  /\ IsFiniteSet(gs) /\ Cardinality(gs) \in Nat /\ gs \subseteq Nat
           /\ gs # {} => Cardinality(gs) > 0
           /\ IsFiniteSet(Insertions(gs)) /\ Insertions(gs) \subseteq Event
  <1>1. IsFiniteSet(gs) /\ Cardinality(gs) \in Nat /\ gs \subseteq Nat
    BY FS_Subset, FS_CardinalityType, DiscoveryAssumption
  <1>2. gs # {} => Cardinality(gs) > 0
    <2>1. gs # {} => Cardinality(gs) # 0
      BY <1>1, FS_EmptySet
    <2> QED BY SMTT(30), <1>1, <2>1
  <1> DEFINE f == [g \in gs |-> [g |-> g, active |-> TRUE]]
  <1>3. f \in Surjection(gs, Insertions(gs))
    <2>1. f \in [gs -> Insertions(gs)]
      BY DEF Insertions
    <2>2. \A e \in Insertions(gs) : \E g \in gs : f[g] = e
      BY DEF Insertions
    <2> QED BY <2>1, <2>2 DEF Surjection
  <1>4. IsFiniteSet(Insertions(gs))
    <2> HIDE DEF f
    <2> QED BY <1>1, <1>3, FS_Surjection
  <1>5. Insertions(gs) \subseteq Event
    <2> SUFFICES ASSUME NEW e \in Insertions(gs) PROVE e \in Event
      OBVIOUS
    <2>1. PICK g \in gs : e = [g |-> g, active |-> TRUE]
      BY DEF Insertions
    <2> QED BY SMTT(30), <2>1 DEF Event
  <1> QED BY <1>1, <1>2, <1>4, <1>5

\* The places of the gateways of a set: each has its own.
LEMMA Places ==
    ASSUME NEW gs \in SUBSET Gateways
    PROVE  /\ \A g \in gs : Rank(gs, g) \in 0..(Cardinality(gs) - 1)
           /\ \A g, h \in gs : Rank(gs, g) = Rank(gs, h) => g = h
  <1> DEFINE below(g) == {h \in gs : h < g}
  <1>1. /\ IsFiniteSet(gs) /\ Cardinality(gs) \in Nat /\ gs \subseteq Nat
    BY FewGateways
  <1>2. \A g \in gs : IsFiniteSet(below(g)) /\ Cardinality(below(g)) \in Nat
    BY <1>1, FS_Subset, FS_CardinalityType
  <1>3. ASSUME NEW T \in SUBSET gs, NEW S \in SUBSET T, NEW g \in T, g \notin S
        PROVE  /\ IsFiniteSet(T) /\ IsFiniteSet(S) /\ Cardinality(T) \in Nat
               /\ Cardinality(S) \in Nat /\ Cardinality(S) < Cardinality(T)
    <2>1. IsFiniteSet(T)
      BY <1>1, FS_Subset
    <2>2. /\ IsFiniteSet(S) /\ Cardinality(S) <= Cardinality(T)
          /\ Cardinality(T) = Cardinality(S) => T = S
      BY <2>1, FS_Subset
    <2>3. Cardinality(T) \in Nat /\ Cardinality(S) \in Nat
      BY <2>1, <2>2, FS_CardinalityType
    <2>4. Cardinality(T) # Cardinality(S)
      BY <1>3, <2>2
    <2> QED BY SMTT(30), <2>1, <2>2, <2>3, <2>4
  <1>4. ASSUME NEW g \in gs PROVE Rank(gs, g) \in 0..(Cardinality(gs) - 1)
    <2>1. g \notin below(g)
      BY SMTT(30), <1>1, <1>4
    <2>2. Cardinality(below(g)) < Cardinality(gs) /\ Cardinality(below(g)) \in Nat
      <3>1. below(g) \in SUBSET gs /\ gs \in SUBSET gs
        OBVIOUS
      <3> HIDE DEF below
      <3> QED BY <1>3, <1>4, <2>1, <3>1
    <2> QED BY SMTT(30), <1>1, <2>2 DEF Rank
  <1>5. ASSUME NEW g \in gs, NEW h \in gs, g < h PROVE Rank(gs, g) < Rank(gs, h)
    <2>1. below(g) \subseteq below(h) /\ g \in below(h) /\ g \notin below(g)
      <3>1. ASSUME NEW x \in gs, x < g PROVE x < h
        BY SMTT(30), <1>1, <1>5, <3>1
      <3>2. ~(g < g)
        BY SMTT(30), <1>1, <1>5
      <3> QED BY <1>5, <3>1, <3>2
    <2>2. below(h) \in SUBSET gs
      OBVIOUS
    <2> HIDE DEF below
    <2>3. Cardinality(below(g)) < Cardinality(below(h))
      BY <1>3, <2>1, <2>2
    <2> QED BY <2>3 DEF Rank, below
  <1>6. ASSUME NEW g \in gs, NEW h \in gs, Rank(gs, g) = Rank(gs, h) PROVE g = h
    <2>1. ~(g < h) /\ ~(h < g)
      BY SMTT(30), <1>1, <1>4, <1>5, <1>6
    <2> QED BY SMTT(30), <1>1, <2>1
  <1> QED BY <1>4, <1>6

\* Every place is taken: services.iter().nth(i) finds the gateway there.
LEMMA NthHasPlace ==
    ASSUME NEW gs \in SUBSET Gateways, NEW i \in 0..(Cardinality(gs) - 1)
    PROVE  Nth(gs, i) \in gs /\ Rank(gs, Nth(gs, i)) = i
  <1> DEFINE n == Cardinality(gs)
             f == [g \in gs |-> Rank(gs, g)]
  <1>1. IsFiniteSet(gs) /\ n \in Nat
    BY FewGateways
  <1>2. IsFiniteSet(0..(n - 1)) /\ Cardinality(0..(n - 1)) = n
    <2>1. 0 \in Int /\ n - 1 \in Int /\ (0 > n - 1 => n = 0) /\ (n - 1) - 0 + 1 = n
      BY SMTT(30), <1>1
    <2> HIDE DEF n
    <2> QED BY <2>1, FS_Interval
  <1>3. f \in Injection(gs, 0..(n - 1))
    BY Places DEF Injection, IsInjective
  <1>4. f \in Surjection(gs, 0..(n - 1))
    BY <1>1, <1>2, <1>3, FS_Injection
  <1>5. \E g \in gs : Rank(gs, g) = i
    BY <1>4 DEF Surjection
  <1> QED BY <1>5 DEF Nth, Rank

\* fetch_add and the remainder by the number of services.
LEMMA Remainder ==
    ASSUME NEW n \in Nat, n > 0, NEW c \in Nat
    PROVE  /\ c % n \in 0..(n - 1)
           /\ (c + 1) % n = IF (c % n) + 1 = n THEN 0 ELSE (c % n) + 1
           /\ c < n => c % n = c
           /\ n % n = 0 /\ 0 % n = 0
  <1>1. c % n \in 0..(n - 1)
    BY SMTT(30)
  <1>2. (c + 1) % n = IF (c % n) + 1 = n THEN 0 ELSE (c % n) + 1
    <2> DEFINE q == c \div n
               p == (c + 1) \div n
               a == c % n
               b == (c + 1) % n
    <2>1. q \in Int /\ p \in Int /\ a \in 0..(n - 1) /\ b \in 0..(n - 1)
      BY SMTT(30)
    <2>2. c = n * q + a /\ c + 1 = n * p + b
      BY SMTT(30)
    <2> HIDE DEF q, p, a, b
    <2>3. n * (p - q) = (a + 1) - b
      BY SMTT(30), <2>1, <2>2
    <2>4. p - q = 0 \/ p - q = 1
      <3>1. ASSUME NEW k \in Int, n * k <= n, n * k > -n PROVE k = 0 \/ k = 1
        BY SMTT(30), <3>1
      <3> QED BY SMTT(30), <2>1, <2>3, <3>1
    <2>5. b = IF a + 1 = n THEN 0 ELSE a + 1
      BY SMTT(30), <2>1, <2>3, <2>4
    <2> QED BY <2>5 DEF a, b
  <1>3. c < n => c % n = c
    BY SMTT(30)
  <1>4. n % n = 0 /\ 0 % n = 0
    BY SMTT(30)
  <1> QED BY <1>1, <1>2, <1>3, <1>4

\* The set and the answers stay: so do the rounds.
LEMMA RoundsStay ==
    ASSUME Rounds, UNCHANGED <<set, strategy, counter, picked, wrapped>>
    PROVE  Rounds'
  BY ZenonT(40) DEF Rounds

\* With a new set the rounds begin anew, at the place of the counter.
LEMMA RoundsBegin ==
    ASSUME set' \subseteq Gateways, counter' \in Nat, picked' = NoPick, wrapped' = 0
    PROVE  Rounds'
  <1> SUFFICES ASSUME set' # {} PROVE Rounds'
    BY DEF Rounds
  <1> DEFINE n == Cardinality(set')
             first == counter' % n
             before == [g \in set' |-> 0]
  <1>1. n \in Nat /\ n > 0
    BY FewGateways
  <1>2. first \in 0..(n - 1)
    BY <1>1, Remainder
  <1>3. \A g \in set' : Rank(set', g) \in 0..(n - 1)
    BY Places
  <1> HIDE DEF n, first
  <1>4. \A i \in 0..(n - 1) : ~InTurn(first, first, i)
    BY SMTT(30), <1>1, <1>2 DEF InTurn
  <1>5. \A g \in set' :
           picked'[g] = before[g] + 0 + IF InTurn(first, first, Rank(set', g)) THEN 1 ELSE 0
    <2>1. \A g \in set' : picked'[g] = 0 /\ before[g] = 0 /\ ~InTurn(first, first, Rank(set', g))
      BY <1>3, <1>4 DEF NoPick
    <2>2. 0 = 0 + 0 + 0
      BY SMTT(30)
    <2> QED BY <2>1, <2>2
  <1>6. /\ before \in [set' -> Nat] /\ 0 \in Nat
        /\ \A g, h \in set' : before[g] <= before[h] + wrapped'
    BY SMTT(30)
  <1> HIDE DEF before
  <1> QED BY <1>2, <1>5, <1>6 DEF Rounds, n, first

\* The registry changes.
LEMMA LbChanges ==
    ASSUME IInv, NEW g \in Gateways, Changes(g) PROVE LbTypeOK' /\ Rounds'
  <1>1. Report(g) \in Event
    BY SMTT(30) DEF Report, Event
  <1>2. stream' \in Seq(Event)
    BY <1>1, Appended DEF Changes, IInv, DiscoveryTypeOK, LbTypeOK
  <1>3. LbTypeOK'
    BY <1>2 DEF Changes, IInv, DiscoveryTypeOK, LbTypeOK
  <1> QED BY <1>3, RoundsStay DEF Changes, IInv

\* The subscription begins with the services there are.
LEMMA LbSubscribe ==
    ASSUME IInv, Subscribe \/ StreamEnds PROVE LbTypeOK' /\ Rounds'
  <1>1. up \subseteq Gateways
    BY DEF IInv, PusherInv, TypeOK
  <1>2. IsFiniteSet(Insertions(up)) /\ Insertions(up) \subseteq Event
    BY <1>1, FewGateways
  <1>3. \A q \in Orders(Insertions(up)) : q \in Seq(Insertions(up))
    BY <1>2, OrderIsSequence
  <1>4. \A q \in Seq(Insertions(up)) : q \in Seq(Event)
    BY SMTT(30), <1>2
  <1>5. <<>> \in Seq(Event)
    BY SMTT(30)
  <1>6. stream' \in Seq(Event) /\ lb' \in {"subscribed", "ended"}
    BY <1>3, <1>4, <1>5 DEF Subscribe, StreamEnds, IInv, DiscoveryTypeOK, LbTypeOK
  <1>7. UNCHANGED <<set, strategy, counter, asks, picked, wrapped>>
    BY DEF Subscribe, StreamEnds
  <1>8. LbTypeOK'
    BY <1>6, <1>7 DEF IInv, DiscoveryTypeOK, LbTypeOK
  <1> QED BY <1>7, <1>8, RoundsStay DEF IInv

\* A change reaches the balancer.
LEMMA LbFollow == ASSUME IInv, Follow PROVE LbTypeOK' /\ Rounds'
  <1>1. stream \in Seq(Event) /\ stream # <<>> /\ stream' = Tail(stream)
    BY DEF Follow, IInv, DiscoveryTypeOK, LbTypeOK
  <1>2. Head(stream) \in Event /\ Tail(stream) \in Seq(Event)
    BY <1>1, Behead
  <1>3. set' \subseteq Gateways
    BY <1>2 DEF Follow, Applied, Event, IInv, DiscoveryTypeOK, LbTypeOK
  <1>4. NoPick \in [Gateways -> Nat] /\ 0 \in Nat
    BY SMTT(30) DEF NoPick
  <1>5. picked' \in [Gateways -> Nat] /\ wrapped' \in Nat
    BY <1>4 DEF Follow, IInv, DiscoveryTypeOK, LbTypeOK
  <1>6. LbTypeOK'
    BY <1>1, <1>2, <1>3, <1>5 DEF Follow, IInv, DiscoveryTypeOK, LbTypeOK
  <1>7. counter' \in Nat
    BY SMTT(30), <1>6, DiscoveryAssumption DEF LbTypeOK
  <1>8. /\ UNCHANGED <<strategy, counter>>
        /\ set' = set => UNCHANGED <<picked, wrapped>>
        /\ set' # set => picked' = NoPick /\ wrapped' = 0
    BY DEF Follow
  <1>9. CASE set' = set
    BY <1>6, <1>8, <1>9, RoundsStay DEF IInv
  <1>10. CASE set' # set
    BY <1>3, <1>6, <1>7, <1>8, <1>10, RoundsBegin
  <1> QED BY <1>6, <1>9, <1>10

\* A gateway is handed out by the counter: the round goes on, and when the
\* counter begins again what was handed out so far is what was before.
LEMMA RoundGoesOn ==
    ASSUME IInv, GetService, strategy = "RoundRobin", set # {} PROVE Rounds'
  <1> DEFINE n == Cardinality(set)
             r == counter % n
             x == Nth(set, r)
             s == IF r + 1 = n THEN 0 ELSE r + 1
  <1> SUFFICES
        \E b \in [set -> Nat], f \in Nat, a \in 0..(n - 1) :
            /\ \A g, h \in set : b[g] <= b[h] + wrapped'
            /\ \A g \in set : picked'[g] = b[g] + f
                  + IF InTurn(a, counter' % n, Rank(set, g)) THEN 1 ELSE 0
    <2>1. set' = set
      BY DEF GetService
    <2> QED BY SMTT(30), <2>1 DEF Rounds
  <1>1. /\ set \subseteq Gateways /\ picked \in [Gateways -> Nat] /\ wrapped \in Nat
        /\ counter \in 0..(Wrap - 1)
    BY DEF IInv, DiscoveryTypeOK, LbTypeOK
  <1>2. n \in Nat /\ n > 0
    BY <1>1, FewGateways
  <1>3. counter \in Nat /\ Wrap \in Nat /\ Wrap > 0
    BY SMTT(30), <1>1, DiscoveryAssumption
  <1>4. r \in 0..(n - 1) /\ (counter + 1) % n = s /\ 0 % n = 0
    BY <1>2, <1>3, Remainder
  <1>5. x \in set /\ Rank(set, x) = r
    BY <1>1, <1>4, NthHasPlace
  <1>6. /\ \A g \in set : Rank(set, g) \in 0..(n - 1)
        /\ \A g \in set : Rank(set, g) = r => g = x
    BY <1>1, <1>5, Places
  <1>7. n # 0
    BY SMTT(30), <1>2
  <1>8. /\ set' = set /\ strategy' = strategy /\ counter' = (counter + 1) % Wrap
        /\ picked' = [picked EXCEPT ![x] = @ + 1]
        /\ wrapped' = IF counter = Wrap - 1 THEN wrapped + 1 ELSE wrapped
    BY <1>7 DEF GetService, Advanced
  <1>9. PICK before \in [set -> Nat], full \in Nat, first \in 0..(n - 1) :
            /\ \A g, h \in set : before[g] <= before[h] + wrapped
            /\ \A g \in set : picked[g] = before[g] + full
                  + IF InTurn(first, r, Rank(set, g)) THEN 1 ELSE 0
    BY DEF IInv, Rounds
  <1> HIDE DEF n, r, x
  <1> DEFINE passed(g) == InTurn(first, r, Rank(set, g)) \/ g = x
  <1>10. s \in 0..(n - 1)
    BY SMTT(30), <1>2, <1>4
  <1>11. \A i \in 0..(n - 1) :
            /\ ~InTurn(first, r, r) /\ ~InTurn(first, first, i)
            /\ s # first => (InTurn(first, s, i) <=> InTurn(first, r, i) \/ i = r)
            /\ s = first => InTurn(first, r, i) \/ i = r
    BY SMTT(30), <1>2, <1>4, <1>9 DEF InTurn
  <1> HIDE DEF s
  <1>12. ASSUME NEW g \in set
         PROVE  /\ picked'[g] \in Nat /\ before[g] \in Nat
                /\ picked'[g] = before[g] + full + IF passed(g) THEN 1 ELSE 0
    <2>1. before[g] \in Nat /\ picked[g] \in Nat
      BY <1>1, <1>9
    <2>2. picked'[g] = IF g = x THEN picked[g] + 1 ELSE picked[g]
      BY <1>1, <1>5, <1>8
    <2>3. CASE g = x
      <3>1. ~InTurn(first, r, Rank(set, g))
        BY <1>4, <1>5, <1>11, <2>3
      <3>2. picked[g] = before[g] + full + 0
        BY <1>9, <3>1
      <3> QED BY SMTT(30), <1>9, <2>1, <2>2, <2>3, <3>2
    <2>4. CASE g # x
      BY <1>9, <2>1, <2>2, <2>4
    <2> QED BY <2>3, <2>4
  <1>13. CASE counter # Wrap - 1
    <2>1. counter' = counter + 1 /\ wrapped' = wrapped
      BY SMTT(30), <1>1, <1>3, <1>8, <1>13
    <2>2. counter' % n = s
      BY <1>4, <2>1
    <2>3. CASE s # first
      <3>1. \A g \in set : passed(g) <=> InTurn(first, s, Rank(set, g))
        BY <1>5, <1>6, <1>11, <2>3
      <3>2. \A g \in set : picked'[g] = before[g] + full
                  + IF InTurn(first, counter' % n, Rank(set, g)) THEN 1 ELSE 0
        BY <1>12, <2>2, <3>1
      <3> QED BY <1>9, <2>1, <3>2
    <2>4. CASE s = first
      <3>1. \A g \in set : passed(g) /\ ~InTurn(first, s, Rank(set, g))
        BY <1>5, <1>6, <1>11, <2>4
      <3>2. ASSUME NEW g \in set
            PROVE  picked'[g] = before[g] + (full + 1)
                      + IF InTurn(first, counter' % n, Rank(set, g)) THEN 1 ELSE 0
        <4>1. picked'[g] = before[g] + full + 1 /\ before[g] \in Nat
          BY <1>12, <3>1
        <4>2. picked'[g] = before[g] + (full + 1) + 0
          BY SMTT(30), <1>9, <4>1
        <4> QED BY <2>2, <3>1, <4>2
      <3>3. full + 1 \in Nat
        BY SMTT(30), <1>9
      <3> QED BY <1>9, <2>1, <3>2, <3>3
    <2> QED BY <2>3, <2>4
  <1>14. CASE counter = Wrap - 1
    <2>1. counter' = 0 /\ wrapped' = wrapped + 1
      BY SMTT(30), <1>1, <1>3, <1>8, <1>14, Remainder
    <2>2. counter' % n = 0 /\ 0 \in 0..(n - 1)
      BY SMTT(30), <1>2, <1>4, <2>1
    <2> DEFINE now_before == [g \in set |-> picked'[g]]
    <2>3. now_before \in [set -> Nat]
      BY <1>12
    <2>4. ASSUME NEW g \in set, NEW h \in set
          PROVE  now_before[g] <= now_before[h] + wrapped'
      <3>1. before[g] <= before[h] + wrapped /\ before[g] \in Nat /\ before[h] \in Nat
        BY <1>9, <1>12
      <3>2. /\ picked'[g] = before[g] + full + IF passed(g) THEN 1 ELSE 0
            /\ picked'[h] = before[h] + full + IF passed(h) THEN 1 ELSE 0
        BY <1>12
      <3>3. picked'[g] <= picked'[h] + wrapped'
        <4> HIDE DEF passed
        <4> QED BY SMTT(30), <1>1, <1>9, <2>1, <3>1, <3>2
      <3> QED BY <3>3
    <2>5. \A g \in set : ~InTurn(0, 0, Rank(set, g))
      BY SMTT(30), <1>2, <1>6 DEF InTurn
    <2>6. \A g \in set : picked'[g] = now_before[g] + 0
              + IF InTurn(0, counter' % n, Rank(set, g)) THEN 1 ELSE 0
      <3>1. \A k \in Nat : k = k + 0 + 0
        BY SMTT(30)
      <3> QED BY <1>12, <2>2, <2>5, <3>1
    <2>7. 0 \in Nat
      BY SMTT(30)
    <2> HIDE DEF now_before
    <2> QED BY <2>2, <2>3, <2>4, <2>6, <2>7
  <1> QED BY <1>13, <1>14

\* A gateway is handed out, or there is none.
LEMMA LbGetService == ASSUME IInv, GetService PROVE LbTypeOK' /\ Rounds'
  <1> DEFINE n == Cardinality(set)
  <1>1. /\ set \subseteq Gateways /\ picked \in [Gateways -> Nat] /\ wrapped \in Nat
        /\ counter \in 0..(Wrap - 1) /\ asks \in 0..MaxAsk
        /\ UNCHANGED <<lb, stream, set, strategy>>
    BY DEF GetService, IInv, DiscoveryTypeOK, LbTypeOK
  <1>2. n \in Nat /\ (n = 0 <=> set = {})
    BY <1>1, FewGateways, FS_EmptySet
  <1>3. asks' \in 0..MaxAsk
    BY SMTT(30), <1>1, DiscoveryAssumption DEF GetService
  <1>4. CASE n = 0
    <2>1. UNCHANGED <<counter, picked, wrapped>>
      BY <1>4 DEF GetService
    <2>2. LbTypeOK'
      BY <1>1, <1>3, <2>1 DEF IInv, DiscoveryTypeOK, LbTypeOK
    <2> QED BY <1>1, <2>1, <2>2, RoundsStay DEF IInv
  <1>5. CASE n # 0
    <2>1. /\ counter' = IF strategy = "RoundRobin" THEN Advanced(n) ELSE counter
          /\ wrapped' = IF counter = Wrap - 1 THEN wrapped + 1 ELSE wrapped
      BY <1>5 DEF GetService
    <2>2. PICK i \in IF strategy = "RoundRobin" THEN {counter % n} ELSE 0..(n - 1) :
              picked' = [picked EXCEPT ![Nth(set, i)] = @ + 1]
      BY <1>5 DEF GetService
    <2>3. wrapped' \in Nat
      BY SMTT(30), <1>1, <2>1
    <2>4. counter' \in 0..(Wrap - 1)
      BY SMTT(30), <1>1, <2>1, DiscoveryAssumption DEF Advanced
    <2>5. n > 0 /\ counter \in Nat
      BY SMTT(30), <1>1, <1>2, <1>5, DiscoveryAssumption
    <2>6. i \in 0..(n - 1)
      BY <1>2, <2>2, <2>5, Remainder
    <2>7. Nth(set, i) \in Gateways
      BY <1>1, <2>6, NthHasPlace
    <2>8. picked' \in [Gateways -> Nat]
      <3> DEFINE x == Nth(set, i)
      <3>1. picked[x] + 1 \in Nat
        BY SMTT(30), <1>1, <2>7
      <3> HIDE DEF x
      <3> QED BY <1>1, <2>2, <2>7, <3>1 DEF x
    <2>9. LbTypeOK'
      BY <1>1, <1>3, <2>3, <2>4, <2>8 DEF IInv, DiscoveryTypeOK, LbTypeOK
    <2>10. CASE strategy = "RoundRobin"
      BY <1>2, <1>5, <2>9, <2>10, RoundGoesOn
    <2>11. CASE strategy # "RoundRobin"
      BY <1>1, <2>9, <2>11 DEF Rounds
    <2> QED BY <2>10, <2>11
  <1> QED BY <1>4, <1>5
-----------------------------------------------------------------------------
(* The discovery that polls.                                               *)

\* What is found and sent are gateways and events about them.
LEMMA PollStep ==
    ASSUME IInv, Fetch \/ SendChange \/ RoundEnds \/ Balance PROVE PollTypeOK'
  <1>1. PollTypeOK /\ up \subseteq Gateways
    BY DEF IInv, DiscoveryTypeOK, PusherInv, TypeOK
  <1>2. \A gs \in SUBSET Gateways : Insertions(gs) \subseteq Event /\ Removals(gs) \subseteq Event
    <2>1. ASSUME NEW gs \in SUBSET Gateways, NEW g \in gs
          PROVE  [g |-> g, active |-> TRUE] \in Event /\ [g |-> g, active |-> FALSE] \in Event
      BY SMTT(30), <2>1 DEF Event
    <2> QED BY <2>1 DEF Insertions, Removals
  <1>3. CASE Fetch
    <2>1. ChangeSet(up) \subseteq Event
      BY <1>1, <1>2 DEF ChangeSet, PollTypeOK
    <2> QED BY <1>1, <1>3, <2>1 DEF Fetch, PollTypeOK
  <1>4. CASE SendChange
    <2>1. PICK e \in poll.todo :
            poll' = [poll EXCEPT !.todo = @ \ {e}] /\ sent' = Append(sent, e)
      BY <1>4 DEF SendChange
    <2>2. e \in Event /\ sent \in Seq(Event)
      BY <1>1 DEF PollTypeOK
    <2>3. sent' \in Seq(Event)
      BY <2>1, <2>2, Appended
    <2>4. poll' \in [pc : {"off", "sleep", "send"}, found : SUBSET Gateways, todo : SUBSET Event]
      BY <1>1, <2>1 DEF PollTypeOK
    <2> QED BY <1>1, <1>4, <2>3, <2>4 DEF SendChange, PollTypeOK
  <1>5. CASE RoundEnds
    BY <1>1, <1>5 DEF RoundEnds, PollTypeOK, Asleep
  <1>6. CASE Balance
    <2>1. Head(sent) \in Event /\ Tail(sent) \in Seq(Event)
      BY <1>1, <1>6, Behead DEF Balance, PollTypeOK
    <2>2. endpoints' \subseteq Gateways
      BY <1>1, <1>6, <2>1 DEF Balance, Applied, Event, PollTypeOK
    <2> QED BY <1>1, <1>6, <2>1, <2>2 DEF Balance, PollTypeOK
  <1> QED BY <1>3, <1>4, <1>5, <1>6
-----------------------------------------------------------------------------
(* The door.                                                               *)

\* Sizes of subsets and unions.
LEMMA Sizes ==
    ASSUME NEW S, NEW T, IsFiniteSet(S), IsFiniteSet(T)
    PROVE  /\ Cardinality(S) \in Nat /\ Cardinality(T) \in Nat
           /\ IsFiniteSet(S \cup T) /\ Cardinality(S \cup T) \in Nat
           /\ Cardinality(S \cup T) <= Cardinality(S) + Cardinality(T)
           /\ \A R \in SUBSET T : /\ IsFiniteSet(R) /\ Cardinality(R) \in Nat
                                  /\ Cardinality(R) <= Cardinality(T)
  <1>1. Cardinality(S) \in Nat /\ Cardinality(T) \in Nat
    BY FS_CardinalityType
  <1>2. /\ IsFiniteSet(S \cup T)
        /\ Cardinality(S \cup T) = Cardinality(S) + Cardinality(T) - Cardinality(S \cap T)
    BY FS_Union
  <1>3. Cardinality(S \cap T) \in Nat /\ Cardinality(S \cup T) \in Nat
    BY <1>2, FS_Intersection, FS_CardinalityType
  <1>4. Cardinality(S \cup T) <= Cardinality(S) + Cardinality(T)
    BY SMTT(30), <1>1, <1>2, <1>3
  <1>5. \A R \in SUBSET T : /\ IsFiniteSet(R) /\ Cardinality(R) \in Nat
                            /\ Cardinality(R) <= Cardinality(T)
    BY FS_Subset, FS_CardinalityType
  <1> QED BY <1>1, <1>2, <1>3, <1>4, <1>5

\* The invariant of the door is about its own variables.
LEMMA DoorStays ==
    ASSUME DoorTypeOK', DoorCounts, BurstBounded, UNCHANGED <<limiter, admitted>>
    PROVE  DoorCounts' /\ BurstBounded'
  BY DEF DoorCounts, BurstBounded, Present, Earlier, AdmittedFrom

\* The clock goes on.
LEMMA DoorTick == ASSUME IInv, Tick PROVE DoorTypeOK' /\ DoorCounts' /\ BurstBounded'
  <1>1. now \in 0..MaxTime /\ now' = now + 1 /\ now < MaxTime /\ UNCHANGED <<limiter, admitted>>
    BY DEF Tick, IInv, DiscoveryTypeOK, DoorTypeOK
  <1>2. now' \in 0..MaxTime /\ 0..now \subseteq 0..now'
    BY SMTT(30), <1>1, DiscoveryAssumption
  <1>3. DoorTypeOK'
    BY <1>1, <1>2 DEF IInv, DiscoveryTypeOK, DoorTypeOK
  <1> QED BY <1>1, <1>3, DoorStays DEF IInv

\* What the door knows of the connections it let in.
LEMMA AtTheDoor ==
    ASSUME IInv
    PROVE  /\ now \in Nat /\ limiter.since \in Nat /\ limiter.since <= now
           /\ limiter.count \in Nat /\ limiter.count <= MaxConn
           /\ Window \in Nat /\ Window > 0 /\ MaxConn \in Nat /\ MaxConn > 0 /\ MaxTime \in Nat
           /\ \A e \in admitted : e.at \in Nat /\ e.at <= now /\ e.n \in Nat
           /\ IsFiniteSet(admitted) /\ Cardinality(admitted) \in Nat
  <1>1. /\ now \in 0..MaxTime /\ limiter.since \in 0..now /\ limiter.count \in 0..MaxConn
        /\ \A e \in admitted : e.at \in 0..now /\ e.n \in Nat
        /\ IsFiniteSet(admitted)
    BY DEF IInv, DiscoveryTypeOK, DoorTypeOK, DoorCounts
  <1>2. Cardinality(admitted) \in Nat
    BY <1>1, FS_CardinalityType
  <1> QED BY SMTT(30), <1>1, <1>2, DiscoveryAssumption

\* The connection that is let in, and what it adds to.
LEMMA LetIn ==
    ASSUME IInv, Connect, NEW e, e = [at |-> now, n |-> Cardinality(admitted) + 1]
    PROVE  /\ admitted' = admitted \cup {e} /\ e \notin admitted /\ e.at = now /\ now' = now
           /\ IsFiniteSet(admitted')
           /\ Cardinality(admitted') \in Nat /\ Cardinality(admitted') = Cardinality(admitted) + 1
           /\ \A x \in admitted' : x.n <= Cardinality(admitted')
           /\ admitted' \subseteq [at : 0..now', n : Nat]
           /\ \A t \in 0..MaxTime :
                ~(t <= now /\ now < t + Window) => AdmittedFrom(t)' = AdmittedFrom(t)
  <1> DEFINE k == Cardinality(admitted)
  <1>1. /\ k \in Nat /\ IsFiniteSet(admitted) /\ now \in Nat
        /\ \A x \in admitted : x.n \in Nat /\ x.n <= k
    BY AtTheDoor DEF IInv, DoorCounts
  <1>2. admitted' = admitted \cup {e} /\ now' = now
    BY DEF Connect
  <1>3. e.at = now /\ e.n = k + 1
    OBVIOUS
  <1> HIDE DEF k
  <1>4. e \notin admitted
    BY SMTT(30), <1>1, <1>3
  <1>5. IsFiniteSet(admitted') /\ Cardinality(admitted') = k + 1
    BY <1>1, <1>2, <1>4, FS_AddElement DEF k
  <1>6. /\ k + 1 \in Nat /\ \A x \in admitted : x.n <= k + 1
        /\ k + 1 <= k + 1 /\ now \in 0..now
    BY SMTT(30), <1>1
  <1>7. e \in [at : 0..now, n : Nat]
    BY <1>6 DEF k
  <1>8. admitted' \subseteq [at : 0..now', n : Nat]
    BY <1>2, <1>7 DEF IInv, DiscoveryTypeOK, DoorTypeOK
  <1>9. ASSUME NEW t \in 0..MaxTime, ~(t <= now /\ now < t + Window)
        PROVE  AdmittedFrom(t)' = AdmittedFrom(t)
    BY <1>2, <1>3, <1>9 DEF AdmittedFrom
  <1> QED BY <1>2, <1>3, <1>4, <1>5, <1>6, <1>8, <1>9 DEF k

\* The connection is one more of the present count.
LEMMA CountGoesOn ==
    ASSUME IInv, Connect, limiter.count # 0, ~(now - limiter.since >= Window)
    PROVE  DoorTypeOK' /\ DoorCounts' /\ BurstBounded'
  <1> DEFINE e == [at |-> now, n |-> Cardinality(admitted) + 1]
  <1>1. /\ admitted' = admitted \cup {e} /\ e \notin admitted /\ e.at = now /\ now' = now
        /\ IsFiniteSet(admitted')
        /\ \A x \in admitted' : x.n <= Cardinality(admitted')
        /\ admitted' \subseteq [at : 0..now', n : Nat]
        /\ \A t \in 0..MaxTime :
             ~(t <= now /\ now < t + Window) => AdmittedFrom(t)' = AdmittedFrom(t)
    BY LetIn
  <1> HIDE DEF e
  <1>2. /\ now \in Nat /\ limiter.since \in Nat /\ limiter.since <= now
        /\ limiter.count \in Nat
        /\ Window \in Nat /\ MaxConn \in Nat /\ MaxTime \in Nat
        /\ \A x \in admitted : x.at \in Nat
    BY AtTheDoor
  <1>3. /\ limiter' = [limiter EXCEPT !.count = @ + 1]
        /\ now - limiter.since < Window => limiter.count < MaxConn
    BY DEF Connect, Counted, Admits
  <1>4. now - limiter.since < Window /\ now < limiter.since + Window
    BY SMTT(30), <1>2
  <1>5. limiter.count + 1 \in 0..MaxConn /\ limiter.count + 1 # 0
    BY SMTT(30), <1>2, <1>3, <1>4
  <1>6. limiter'.count = limiter.count + 1 /\ limiter'.since = limiter.since
    BY <1>3 DEF IInv, DiscoveryTypeOK, DoorTypeOK
  <1>7. DoorTypeOK'
    BY <1>1, <1>3, <1>5 DEF IInv, DiscoveryTypeOK, DoorTypeOK
  <1>8. /\ Present' = Present \cup {e} /\ e \notin Present
        /\ \A t \in 0..MaxTime : Earlier(t)' = Earlier(t)
    <2>1. ~(now < limiter.since)
      BY SMTT(30), <1>2
    <2> QED BY <1>1, <1>2, <1>6, <2>1 DEF Present, Earlier
  <1>9. IsFiniteSet(Present) /\ \A t : IsFiniteSet(Earlier(t))
    BY FS_Subset, AtTheDoor DEF Present, Earlier
  <1>10. Cardinality(Present') = limiter.count + 1 /\ IsFiniteSet(Present')
    BY <1>8, <1>9, FS_AddElement DEF IInv, DoorCounts
  <1>11. DoorCounts'
    <2>1. \A x \in admitted' : x.at < limiter'.since + Window
      BY <1>1, <1>4, <1>6 DEF IInv, DoorCounts
    <2>2. \E x \in admitted' : x.at = limiter'.since
      BY <1>1, <1>6 DEF IInv, DoorCounts
    <2>3. \A t \in 0..MaxTime :
            limiter'.since < t + Window => Cardinality(Earlier(t)') < MaxConn
      BY <1>6, <1>8 DEF IInv, DoorCounts
    <2> QED BY <1>1, <1>5, <1>6, <1>10, <2>1, <2>2, <2>3 DEF DoorCounts
  <1>12. ASSUME NEW t \in 0..MaxTime PROVE Cardinality(AdmittedFrom(t)') < 2 * MaxConn
    <2>1. CASE ~(t <= now /\ now < t + Window)
      BY <1>1, <2>1 DEF IInv, BurstBounded
    <2>2. CASE t <= now /\ now < t + Window
      <3>1. limiter.since < t + Window
        BY SMTT(30), <1>2, <2>2
      <3>2. Cardinality(Earlier(t)) < MaxConn
        BY <3>1 DEF IInv, DoorCounts
      <3>3. AdmittedFrom(t)' \subseteq Earlier(t) \cup Present'
        <4>1. \A x \in admitted : limiter.since <= x.at \/ x.at < limiter.since
          BY SMTT(30), <1>2
        <4> QED BY <1>1, <1>8, <4>1 DEF AdmittedFrom, Earlier, Present
      <3>4. /\ Cardinality(Earlier(t)) \in Nat /\ Cardinality(Present') \in Nat
            /\ IsFiniteSet(Earlier(t) \cup Present')
            /\ Cardinality(Earlier(t) \cup Present')
                 <= Cardinality(Earlier(t)) + Cardinality(Present')
        BY <1>9, <1>10, Sizes
      <3>5. /\ Cardinality(AdmittedFrom(t)') <= Cardinality(Earlier(t) \cup Present')
            /\ Cardinality(AdmittedFrom(t)') \in Nat
            /\ Cardinality(Earlier(t) \cup Present') \in Nat
        BY <3>3, <3>4, Sizes
      <3> QED BY SMTT(30), <1>2, <1>5, <1>10, <3>2, <3>4, <3>5
    <2> QED BY <2>1, <2>2
  <1>13. BurstBounded'
    BY <1>12 DEF BurstBounded
  <1> QED BY <1>7, <1>11, <1>13

\* A new count begins: of the one before it, those for less than a window back
\* are without the first.
LEMMA CountBegins ==
    ASSUME IInv, Connect, limiter.count = 0 \/ now - limiter.since >= Window
    PROVE  DoorTypeOK' /\ DoorCounts' /\ BurstBounded'
  <1> DEFINE e == [at |-> now, n |-> Cardinality(admitted) + 1]
  <1>1. /\ admitted' = admitted \cup {e} /\ e \notin admitted /\ e.at = now /\ now' = now
        /\ IsFiniteSet(admitted')
        /\ \A x \in admitted' : x.n <= Cardinality(admitted')
        /\ admitted' \subseteq [at : 0..now', n : Nat]
        /\ \A t \in 0..MaxTime :
             ~(t <= now /\ now < t + Window) => AdmittedFrom(t)' = AdmittedFrom(t)
    BY LetIn
  <1> HIDE DEF e
  <1>2. /\ now \in Nat /\ limiter.since \in Nat /\ limiter.since <= now
        /\ limiter.count \in Nat /\ limiter.count <= MaxConn
        /\ Window \in Nat /\ Window > 0 /\ MaxConn \in Nat /\ MaxConn > 0 /\ MaxTime \in Nat
        /\ \A x \in admitted : x.at \in Nat
        /\ IsFiniteSet(admitted)
    BY AtTheDoor
  <1>3. limiter' = [limiter EXCEPT !.count = 1, !.since = now]
    BY DEF Connect, Counted
  <1>4. 1 \in 0..MaxConn /\ 1 # 0 /\ now \in 0..now /\ now <= now /\ ~(now < now)
    BY SMTT(30), <1>2
  <1>5. limiter'.count = 1 /\ limiter'.since = now
    BY <1>3 DEF IInv, DiscoveryTypeOK, DoorTypeOK
  <1>6. DoorTypeOK'
    BY <1>1, <1>3, <1>4 DEF IInv, DiscoveryTypeOK, DoorTypeOK
  <1>7. \A x \in admitted : x.at < now /\ ~(now <= x.at) /\ x.at < now + Window
    <2>1. CASE limiter.count = 0
      BY <2>1 DEF IInv, DoorCounts
    <2>2. CASE now - limiter.since >= Window
      <3>1. \A x \in admitted : x.at < limiter.since + Window
        BY DEF IInv, DoorCounts
      <3> QED BY SMTT(30), <1>2, <2>2, <3>1
    <2> QED BY <2>1, <2>2
  <1>8. Present' = {e}
    BY <1>1, <1>4, <1>5, <1>7 DEF Present
  <1>9. Cardinality(Present') = 1
    BY <1>8, FS_Singleton
  <1>10. ASSUME NEW t \in 0..MaxTime, now < t + Window
         PROVE  /\ Cardinality(Earlier(t)') < MaxConn /\ Cardinality(Earlier(t)') \in Nat
                /\ IsFiniteSet(Earlier(t)')
    <2>1. Earlier(t)' = {x \in admitted : t <= x.at}
      BY <1>1, <1>4, <1>5, <1>7 DEF Earlier
    <2>2. CASE limiter.count = 0
      <3>1. Earlier(t)' = {}
        BY <2>1, <2>2 DEF IInv, DoorCounts
      <3>2. 0 \in Nat /\ 0 < MaxConn
        BY SMTT(30), <1>2
      <3> QED BY <3>1, <3>2, FS_EmptySet
    <2>3. CASE limiter.count # 0
      <3>1. PICK w \in admitted : w.at = limiter.since
        BY <2>3 DEF IInv, DoorCounts
      <3>2. now - limiter.since >= Window
        BY <2>3
      <3>3. ~(t <= limiter.since) /\ \A x \in admitted : t <= x.at => limiter.since <= x.at
        BY SMTT(30), <1>2, <1>10, <3>2
      <3>4. Earlier(t)' \subseteq Present \ {w}
        BY <2>1, <3>1, <3>3 DEF Present
      <3>5. w \in Present
        <4>1. limiter.since <= limiter.since
          BY SMTT(30), <1>2
        <4> QED BY <3>1, <4>1 DEF Present
      <3>6. IsFiniteSet(Present)
        BY <1>2, FS_Subset DEF Present
      <3>7. IsFiniteSet(Present \ {w}) /\ Cardinality(Present \ {w}) = limiter.count - 1
        BY <3>5, <3>6, FS_RemoveElement DEF IInv, DoorCounts
      <3>8. /\ IsFiniteSet(Earlier(t)') /\ Cardinality(Earlier(t)') \in Nat
            /\ Cardinality(Earlier(t)') <= Cardinality(Present \ {w})
        BY <3>4, <3>7, Sizes
      <3>9. Cardinality(Earlier(t)') < MaxConn
        BY SMTT(30), <1>2, <3>7, <3>8
      <3> QED BY <3>8, <3>9
    <2> QED BY <2>2, <2>3
  <1>11. DoorCounts'
    <2>1. \A x \in admitted' : x.at < limiter'.since + Window
      <3>1. now < now + Window
        BY SMTT(30), <1>2
      <3> QED BY <1>1, <1>5, <1>7, <3>1
    <2>2. \E x \in admitted' : x.at = limiter'.since
      BY <1>1, <1>5
    <2>3. \A t \in 0..MaxTime :
            limiter'.since < t + Window => Cardinality(Earlier(t)') < MaxConn
      BY <1>5, <1>10
    <2> QED BY <1>1, <1>4, <1>5, <1>9, <2>1, <2>2, <2>3 DEF DoorCounts
  <1>12. ASSUME NEW t \in 0..MaxTime PROVE Cardinality(AdmittedFrom(t)') < 2 * MaxConn
    <2>1. CASE ~(t <= now /\ now < t + Window)
      BY <1>1, <2>1 DEF IInv, BurstBounded
    <2>2. CASE t <= now /\ now < t + Window
      <3>1. /\ Cardinality(Earlier(t)') < MaxConn /\ Cardinality(Earlier(t)') \in Nat
            /\ IsFiniteSet(Earlier(t)')
        BY <1>10, <2>2
      <3>2. AdmittedFrom(t)' \subseteq Earlier(t)' \cup {e}
        BY <1>1, <1>5, <1>7 DEF AdmittedFrom, Earlier
      <3>3. IsFiniteSet({e}) /\ Cardinality({e}) = 1
        BY FS_Singleton
      <3>4. /\ IsFiniteSet(Earlier(t)' \cup {e}) /\ Cardinality(Earlier(t)' \cup {e}) \in Nat
            /\ Cardinality(Earlier(t)' \cup {e}) <= Cardinality(Earlier(t)') + Cardinality({e})
        BY <3>1, <3>3, Sizes
      <3>5. /\ Cardinality(AdmittedFrom(t)') <= Cardinality(Earlier(t)' \cup {e})
            /\ Cardinality(AdmittedFrom(t)') \in Nat
        BY <3>2, <3>4, Sizes
      <3> QED BY SMTT(30), <1>2, <3>1, <3>3, <3>4, <3>5
    <2> QED BY <2>1, <2>2
  <1>13. BurstBounded'
    BY <1>12 DEF BurstBounded
  <1> QED BY <1>6, <1>11, <1>13
-----------------------------------------------------------------------------
(* All parts together.                                                     *)

\* Nothing is known, asked for or admitted at first.
LEMMA InitIInv == DiscoveryInit => IInv
  <1> SUFFICES ASSUME DiscoveryInit PROVE IInv
    OBVIOUS
  <1>1. PusherInv
    BY PusherInit DEF DiscoveryInit
  <1>2. /\ 0 \in 0..(Wrap - 1) /\ 0 \in 0..MaxAsk /\ 0 \in 0..MaxTime /\ 0 \in 0..MaxConn
        /\ 0 \in 0..0 /\ 0 \in Nat /\ <<>> \in Seq(Event)
        /\ \A t \in 0..MaxTime : 0 < MaxConn /\ 0 < 2 * MaxConn
    BY SMTT(30), DiscoveryAssumption
  <1>3. LbTypeOK
    BY <1>2 DEF DiscoveryInit, LbTypeOK, NoPick
  <1>4. PollTypeOK
    <2>1. \/ poll = [pc |-> "off", found |-> {}, todo |-> {}]
          \/ poll = [pc |-> "sleep", found |-> {}, todo |-> {}]
      BY SMTT(30) DEF DiscoveryInit, Asleep
    <2>2. poll \in [pc : {"off", "sleep", "send"}, found : SUBSET Gateways, todo : SUBSET Event]
      BY SMTT(30), <2>1
    <2> QED BY <1>2, <2>2 DEF DiscoveryInit, PollTypeOK
  <1>5. limiter \in [count : {0}, since : {0}, open : BOOLEAN]
    <2>1. PICK o \in BOOLEAN : limiter = [count |-> 0, since |-> 0, open |-> o]
      BY DEF DiscoveryInit
    <2> QED BY <2>1
  <1>6. DoorTypeOK
    BY <1>2, <1>5 DEF DiscoveryInit, DoorTypeOK
  <1>7. Rounds
    BY DEF DiscoveryInit, Rounds
  <1>8. /\ admitted = {} /\ Present = {} /\ limiter.count = 0
        /\ \A t \in 0..MaxTime : Earlier(t) = {} /\ AdmittedFrom(t) = {}
    BY <1>5 DEF DiscoveryInit, Present, Earlier, AdmittedFrom
  <1>9. DoorCounts /\ BurstBounded
    BY <1>2, <1>8, FS_EmptySet DEF DoorCounts, BurstBounded
  <1> QED BY <1>1, <1>3, <1>4, <1>6, <1>7, <1>9 DEF IInv, DiscoveryTypeOK

\* The pusher's part of a step is a step of Pusher, or none.
LEMMA PusherTakesPart == ASSUME [DiscoveryNext]_allVars PROVE [Next]_vars
  <1>1. CASE Pushes \/ \E g \in Gateways : Changes(g)
    BY <1>1 DEF Changes, Next
  <1>2. CASE Others
    BY <1>2 DEF Others, Subscribe, StreamEnds, Follow, GetService, Fetch, SendChange, RoundEnds,
       Balance, Connect, Tick
  <1> QED BY <1>1, <1>2 DEF DiscoveryNext, allVars

\* The invariant of the load balancer is about its own variables.
LEMMA LbStays == ASSUME IInv, UNCHANGED lbVars PROVE LbTypeOK' /\ Rounds'
  <1>1. LbTypeOK'
    BY DEF IInv, DiscoveryTypeOK, LbTypeOK, lbVars
  <1> QED BY <1>1, RoundsStay DEF IInv, lbVars

\* Every step keeps the invariant.
LEMMA NextIInv == ASSUME IInv, [DiscoveryNext]_allVars PROVE IInv'
  <1>1. PusherInv'
    BY PusherTakesPart, PusherStep DEF IInv
  <1>2. LbTypeOK' /\ Rounds'
    <2>1. CASE UNCHANGED lbVars
      BY <2>1, LbStays
    <2> QED BY <2>1, LbChanges, LbSubscribe, LbFollow, LbGetService
            DEF DiscoveryNext, Others, Fetch, SendChange, RoundEnds, Balance, Connect, Tick, allVars
  <1>3. PollTypeOK'
    <2>1. CASE UNCHANGED pollVars
      BY <2>1 DEF IInv, DiscoveryTypeOK, PollTypeOK, pollVars
    <2> QED BY <2>1, PollStep DEF DiscoveryNext, Changes, Others, Subscribe, StreamEnds, Follow,
            GetService, Connect, Tick, allVars
  <1>4. DoorTypeOK' /\ DoorCounts' /\ BurstBounded'
    <2>1. CASE UNCHANGED doorVars
      <3>1. DoorTypeOK' /\ UNCHANGED <<limiter, admitted>>
        BY <2>1 DEF IInv, DiscoveryTypeOK, DoorTypeOK, doorVars
      <3> QED BY <3>1, DoorStays DEF IInv
    <2>2. CASE Connect
      BY <2>2, CountGoesOn, CountBegins
    <2> QED BY <2>1, <2>2, DoorTick DEF DiscoveryNext, Changes, Others, Subscribe, StreamEnds,
            Follow, GetService, Fetch, SendChange, RoundEnds, Balance, allVars
  <1> QED BY <1>1, <1>2, <1>3, <1>4 DEF IInv, DiscoveryTypeOK

\* The invariant is one.
THEOREM InductiveInvariant == DiscoverySpec => []IInv
  BY InitIInv, NextIInv, PTL DEF DiscoverySpec

\* The other parts only read the registry: with them beside it, the pusher still
\* does what Pusher alone allows.
THEOREM PusherUndisturbed == DiscoverySpec => Spec
  <1>1. DiscoveryInit => Init
    BY DEF DiscoveryInit
  <1> QED BY <1>1, PusherTakesPart, PTL DEF DiscoverySpec, Spec

\* A gateway receives a message at most once and in the order of the pushes,
\* unless the message that comes late is of a group push, which returns with the
\* first success and leaves its other calls running.
THEOREM PushesKeepOrder == Spec => []OnlyGroupPushesAreOvertaken
  <1>1. PusherInv => OnlyGroupPushesAreOvertaken
    BY DEF PusherInv
  <1> QED BY <1>1, PusherInit, PusherStep, PTL DEF Spec

\* RoundRobin hands the gateways of an unchanged set out evenly, but for one and
\* for one more each time the counter has wrapped, whatever the set and the wrap.
THEOREM HandedOutEvenly == DiscoverySpec => []RoundRobinEven
  <1>1. ASSUME IInv PROVE RoundRobinEven
    <2> SUFFICES ASSUME strategy = "RoundRobin", NEW g \in set, NEW h \in set
                 PROVE  picked[g] <= picked[h] + 1 + wrapped
      BY DEF RoundRobinEven
    <2> DEFINE turn(x, first) == InTurn(first, counter % Cardinality(set), Rank(set, x))
    <2>1. PICK before \in [set -> Nat], full \in Nat, first \in 0..(Cardinality(set) - 1) :
            /\ before[g] <= before[h] + wrapped
            /\ picked[g] = before[g] + full + IF turn(g, first) THEN 1 ELSE 0
            /\ picked[h] = before[h] + full + IF turn(h, first) THEN 1 ELSE 0
      BY <1>1 DEF IInv, Rounds
    <2>2. before[g] \in Nat /\ before[h] \in Nat /\ wrapped \in Nat
      BY <1>1, <2>1 DEF IInv, DiscoveryTypeOK, LbTypeOK
    <2> HIDE DEF turn
    <2> QED BY SMTT(30), <2>1, <2>2
  <1> QED BY <1>1, InductiveInvariant, PTL

\* websocket_handler lets fewer than twice the limit in within the time of a
\* window, wherever the window begins.
THEOREM BurstsStayBounded == DiscoverySpec => []BurstBounded
  <1>1. IInv => BurstBounded
    BY DEF IInv
  <1> QED BY <1>1, InductiveInvariant, PTL
-----------------------------------------------------------------------------
(* Those who follow the registry.                                          *)

\* The fields of an event.
LEMMA EventFields ==
    \A g : /\ [g |-> g, active |-> TRUE].g = g /\ [g |-> g, active |-> TRUE].active
          /\ [g |-> g, active |-> FALSE].g = g /\ ~[g |-> g, active |-> FALSE].active
  BY SMTT(30)

\* A new event decides about its gateway and leaves the others as they are.
LEMMA TellsMore ==
    ASSUME NEW es \in Seq(Event), NEW e \in Event, NEW gs, NEW S, NEW T, NEW g,
           \/ g = e.g /\ (e.active <=> g \in T)
           \/ g # e.g /\ Tells(es, gs, S, g) /\ (g \in S <=> g \in T)
    PROVE  Tells(Append(es, e), gs, T, g)
  <1> DEFINE q == Append(es, e)
  <1>1. /\ DOMAIN q = DOMAIN es \cup {Len(es) + 1} /\ q[Len(es) + 1] = e
        /\ \A i \in DOMAIN es : q[i] = es[i]
        /\ \A i \in DOMAIN es : i \in Nat /\ i < Len(es) + 1
        /\ Len(es) + 1 \in Nat
    BY SMTT(30)
  <1> HIDE DEF q
  <1>2. CASE g = e.g /\ (e.active <=> g \in T)
    <2>1. \A j \in DOMAIN q : ~(j > Len(es) + 1)
      BY SMTT(30), <1>1
    <2> QED BY <1>1, <1>2, <2>1 DEF Tells, q
  <1>3. CASE g # e.g /\ Tells(es, gs, S, g) /\ (g \in S <=> g \in T)
    <2>1. CASE (\A i \in DOMAIN es : es[i].g # g) /\ (g \in gs <=> g \in S)
      BY <1>1, <1>3, <2>1 DEF Tells, q
    <2>2. ASSUME NEW i \in DOMAIN es, es[i].g = g, es[i].active <=> g \in S,
                 \A j \in DOMAIN es : j > i => es[j].g # g
          PROVE  Tells(q, gs, T, g)
      BY <1>1, <1>3, <2>2 DEF Tells
    <2> QED BY <1>3, <2>1, <2>2 DEF Tells, q
  <1> QED BY <1>2, <1>3

\* Applying the next event changes nothing about where the events lead.
LEMMA TellsOn ==
    ASSUME NEW es \in Seq(Event), es # <<>>, NEW gs, NEW S, NEW g, Tells(es, gs, S, g)
    PROVE  Tells(Tail(es), Applied(Head(es), gs), S, g)
  <1> DEFINE q == Tail(es)
  <1>1. /\ 1 \in DOMAIN es /\ Head(es) = es[1] /\ Len(es) \in Nat /\ DOMAIN es = 1..Len(es)
        /\ DOMAIN q = 1..(Len(es) - 1) /\ \A i \in DOMAIN q : q[i] = es[i + 1]
    BY SMTT(30)
  <1> HIDE DEF q
  <1>2. /\ \A i \in DOMAIN q : i + 1 \in DOMAIN es
        /\ \A i \in DOMAIN es : i # 1 => i > 1 /\ i - 1 \in DOMAIN q /\ i - 1 + 1 = i
        /\ \A i \in DOMAIN es, j \in DOMAIN q : i # 1 /\ j > i - 1 => j + 1 > i
    BY SMTT(30), <1>1
  <1>3. CASE (\A i \in DOMAIN es : es[i].g # g) /\ (g \in gs <=> g \in S)
    <2>1. \A i \in DOMAIN q : q[i].g # g
      BY <1>1, <1>2, <1>3
    <2>2. g \in Applied(Head(es), gs) <=> g \in gs
      BY <1>1, <1>3 DEF Applied
    <2> QED BY <1>3, <2>1, <2>2 DEF Tells, q
  <1>4. ASSUME NEW i \in DOMAIN es, es[i].g = g, es[i].active <=> g \in S,
               \A j \in DOMAIN es : j > i => es[j].g # g
        PROVE  Tells(q, Applied(Head(es), gs), S, g)
    <2>1. CASE i = 1
      <3>1. \A j \in DOMAIN q : q[j].g # g
        <4> SUFFICES ASSUME NEW j \in DOMAIN q PROVE es[j + 1].g # g
          BY <1>1
        <4>1. j + 1 \in DOMAIN es /\ j + 1 > 1
          BY SMTT(30), <1>1
        <4> QED BY <1>4, <2>1, <4>1
      <3>2. g \in Applied(Head(es), gs) <=> g \in S
        BY <1>1, <1>4, <2>1 DEF Applied
      <3> QED BY <3>1, <3>2 DEF Tells
    <2>2. CASE i # 1
      <3>1. i - 1 \in DOMAIN q /\ q[i - 1] = es[i]
        BY <1>1, <1>2, <2>2
      <3>2. \A j \in DOMAIN q : j > i - 1 => q[j].g # g
        BY <1>1, <1>2, <1>4, <2>2
      <3> QED BY <1>4, <3>1, <3>2 DEF Tells
    <2> QED BY <2>1, <2>2
  <1> QED BY <1>3, <1>4 DEF Tells, q

\* The list of services that a subscription begins with leads to them.
LEMMA TellsAll ==
    ASSUME up \subseteq Gateways, NEW q \in Orders(Insertions(up)), NEW g
    PROVE  Tells(q, {}, up, g)
  <1>1. /\ q \in [DOMAIN q -> Insertions(up)]
        /\ \A i, j \in DOMAIN q : q[i] = q[j] => i = j
        /\ \A e \in Insertions(up) : \E i \in DOMAIN q : q[i] = e
    BY DEF Orders, Bijection, Injection, Surjection, IsInjective
  <1>2. DOMAIN q \subseteq Nat
    <2>1. DOMAIN q = 1..Cardinality(Insertions(up))
      BY DEF Orders, Bijection, Injection
    <2> QED BY SMTT(30), <2>1
  <1>3. \A e \in Insertions(up) : e.active /\ e.g \in up /\ e = [g |-> e.g, active |-> TRUE]
    BY EventFields DEF Insertions
  <1>4. CASE g \notin up
    <2>1. \A i \in DOMAIN q : q[i].g # g
      <3>1. \A i \in DOMAIN q : q[i] \in Insertions(up)
        BY <1>1
      <3> QED BY <1>3, <1>4, <3>1
    <2> QED BY <1>4, <2>1 DEF Tells
  <1>5. CASE g \in up
    <2>1. PICK i \in DOMAIN q : q[i] = [g |-> g, active |-> TRUE]
      BY <1>1, <1>5 DEF Insertions
    <2>2. \A j \in DOMAIN q : q[j].g = g => j = i
      <3> SUFFICES ASSUME NEW j \in DOMAIN q, q[j].g = g PROVE q[j] = q[i]
        BY <1>1
      <3>1. q[j] \in Insertions(up)
        BY <1>1
      <3> QED BY <1>3, <2>1, <3>1
    <2>3. ~(i > i)
      BY SMTT(30), <1>2
    <2>4. q[i].g = g /\ q[i].active
      BY <2>1, EventFields
    <2> QED BY <1>5, <2>2, <2>3, <2>4 DEF Tells
  <1> QED BY <1>4, <1>5

\* With nothing on its way, a follower has what it is led to.
LEMMA TellsNothing ==
    ASSUME NEW gs, NEW S, NEW g PROVE Tells(<<>>, gs, S, g) <=> (g \in gs <=> g \in S)
  <1>1. DOMAIN <<>> = {}
    BY SMTT(30)
  <1> QED BY <1>1 DEF Tells

\* The load balancer: what the registry reports after its subscription is in
\* the stream, behind what there was.
LEMMA StreamStep ==
    ASSUME IInv, StreamLeads, [DiscoveryNext]_allVars PROVE StreamLeads'
  <1>0. stream \in Seq(Event) /\ up \subseteq Gateways
    BY DEF IInv, PusherInv, TypeOK, DiscoveryTypeOK, LbTypeOK
  <1>1. CASE UNCHANGED <<lb, stream, set, up>>
    BY <1>1 DEF StreamLeads
  <1>2. ASSUME NEW h \in Gateways, Changes(h) PROVE StreamLeads'
    <2>1. /\ UNCHANGED <<lb, set>> /\ up' = IF h \in up THEN up \ {h} ELSE up \cup {h}
          /\ stream' = IF lb = "subscribed" THEN Append(stream, Report(h)) ELSE stream
      BY <1>2 DEF Changes, GatewayChanges
    <2>2. Report(h) \in Event /\ Report(h).g = h /\ (Report(h).active <=> h \in up')
      <3>1. Report(h) \in Event /\ Report(h).g = h
        BY SMTT(30) DEF Report, Event
      <3>2. Report(h).active <=> h \in up'
        <4>1. CASE h \in up'
          <5>1. Report(h) = [g |-> h, active |-> TRUE]
            BY <4>1 DEF Report
          <5> QED BY <4>1, <5>1, EventFields
        <4>2. CASE h \notin up'
          <5> DEFINE b == h \in up'
          <5>1. b \in BOOLEAN
            BY SMTT(30)
          <5>2. Report(h) = [g |-> h, active |-> b]
            BY DEF Report
          <5>3. ~b
            BY <4>2
          <5> HIDE DEF b
          <5>4. Report(h) = [g |-> h, active |-> FALSE]
            BY <5>1, <5>2, <5>3
          <5> QED BY <4>2, <5>4, EventFields
        <4> QED BY <4>1, <4>2
      <3> QED BY <3>1, <3>2
    <2> HIDE DEF Report
    <2>3. ASSUME lb = "subscribed", NEW g \in Gateways PROVE Tells(stream', set, up', g)
      <3>1. g # h => (g \in up <=> g \in up')
        BY <2>1
      <3>2. Tells(stream, set, up, g)
        BY <2>3 DEF StreamLeads
      <3> QED BY <1>0, <2>1, <2>2, <2>3, <3>1, <3>2, TellsMore
    <2> QED BY <2>1, <2>3 DEF StreamLeads
  <1>3. CASE Subscribe
    <2>1. stream = <<>> /\ set = {} /\ UNCHANGED <<up, set>>
      BY <1>3 DEF Subscribe, StreamLeads, vars, registry
    <2>2. CASE lb' = "subscribed" /\ stream' \in Orders(Insertions(up))
      BY <1>0, <2>1, <2>2, TellsAll DEF StreamLeads
    <2>3. CASE lb' = "ended"
      BY <2>3 DEF StreamLeads
    <2> QED BY <1>3, <2>2, <2>3 DEF Subscribe
  <1>4. CASE StreamEnds
    BY <1>4 DEF StreamEnds, StreamLeads
  <1>5. CASE Follow
    <2>1. /\ stream # <<>> /\ stream' = Tail(stream) /\ set' = Applied(Head(stream), set)
          /\ UNCHANGED <<lb, up>>
      BY <1>5 DEF Follow, vars, registry
    <2> QED BY <1>0, <2>1, TellsOn DEF StreamLeads
  <1>6. CASE GetService
    BY <1>1, <1>6 DEF GetService, vars, registry
  <1>7. CASE Fetch \/ SendChange \/ RoundEnds \/ Balance \/ Connect \/ Tick
    BY <1>1, <1>7 DEF Fetch, SendChange, RoundEnds, Balance, Connect, Tick, vars, registry, lbVars
  <1>8. CASE Pushes /\ UNCHANGED <<lbVars, pollVars, doorVars>>
    <2>1. UNCHANGED up
      BY <1>8 DEF Pushes, Quiet, ApplyChange, PushBegins, QueryRegistry, SendPanics, Send,
             Calls, CallSucceeds, CallFails, Collects, CollectError, PushReturns, vars, registry
    <2> QED BY <1>1, <1>8, <2>1 DEF lbVars
  <1>9. CASE UNCHANGED allVars
    BY <1>1, <1>9 DEF allVars, vars, registry, lbVars
  <1> QED BY <1>2, <1>3, <1>4, <1>5, <1>6, <1>7, <1>8, <1>9 DEF DiscoveryNext, Others

\* The polled channel: a round sends what makes the services it found of those
\* it remembered, also while earlier changes are on their way.
LEMMA SentStep ==
    ASSUME IInv, SentLeads, [DiscoveryNext]_allVars PROVE SentLeads'
  <1>0. /\ sent \in Seq(Event) /\ poll.todo \subseteq Event /\ up \subseteq Gateways
        /\ services \subseteq Gateways
        /\ poll \in [pc : {"off", "sleep", "send"}, found : SUBSET Gateways, todo : SUBSET Event]
    BY SMTT(30) DEF IInv, PusherInv, TypeOK, DiscoveryTypeOK, PollTypeOK
  <1>1. CASE UNCHANGED pollVars
    BY <1>1 DEF pollVars, SentLeads
  <1>2. CASE Fetch
    <2>1. /\ poll.pc = "sleep" /\ UNCHANGED <<services, sent, endpoints>>
          /\ poll'.pc = "send" /\ poll'.found = up /\ poll'.todo = ChangeSet(up)
      BY SMTT(30), <1>2 DEF Fetch
    <2>2. \A e \in ChangeSet(up) : e.active <=> e.g \in up
      BY EventFields DEF ChangeSet, Insertions, Removals
    <2>3. ASSUME NEW g \in Gateways, \A e \in ChangeSet(up) : e.g # g
          PROVE  Tells(sent, endpoints, up, g)
      <3>1. g \notin up \ services
        <4>1. g \in up \ services => [g |-> g, active |-> TRUE] \in ChangeSet(up)
          BY DEF ChangeSet, Insertions
        <4> QED BY <2>3, <4>1, EventFields
      <3>2. g \notin services \ up
        <4>1. g \in services \ up => [g |-> g, active |-> FALSE] \in ChangeSet(up)
          BY DEF ChangeSet, Removals
        <4> QED BY <2>3, <4>1, EventFields
      <3>3. Tells(sent, endpoints, services, g)
        BY <2>1 DEF SentLeads
      <3> QED BY <3>1, <3>2, <3>3 DEF Tells
    <2> QED BY <2>1, <2>2, <2>3 DEF SentLeads
  <1>3. CASE SendChange
    <2>1. PICK e \in poll.todo : /\ poll' = [poll EXCEPT !.todo = @ \ {e}]
                                 /\ sent' = Append(sent, e)
      BY <1>3 DEF SendChange
    <2>2. /\ poll.pc = "send" /\ poll'.pc = "send" /\ poll'.found = poll.found
          /\ poll'.todo = poll.todo \ {e} /\ UNCHANGED endpoints
      BY SMTT(30), <1>0, <1>3, <2>1 DEF SendChange
    <2>3. ASSUME NEW g \in Gateways, \A f \in poll.todo \ {e} : f.g # g
          PROVE  Tells(sent', endpoints, poll.found, g)
      <3>1. CASE g = e.g
        BY <1>0, <2>1, <2>2, <3>1, TellsMore DEF SentLeads
      <3>2. CASE g # e.g
        <4>1. Tells(sent, endpoints, poll.found, g)
          BY <2>2, <2>3, <3>2 DEF SentLeads
        <4> QED BY <1>0, <2>1, <3>2, <4>1, TellsMore
      <3> QED BY <3>1, <3>2
    <2> QED BY <2>2, <2>3 DEF SentLeads
  <1>4. CASE RoundEnds
    <2>1. /\ poll.pc = "send" /\ poll.todo = {} /\ services' = poll.found
          /\ poll'.pc = "sleep" /\ UNCHANGED <<sent, endpoints>>
      BY SMTT(30), <1>4 DEF RoundEnds, Asleep
    <2> QED BY <2>1 DEF SentLeads
  <1>5. CASE Balance
    <2>1. /\ sent # <<>> /\ sent' = Tail(sent) /\ endpoints' = Applied(Head(sent), endpoints)
          /\ UNCHANGED <<poll, services>>
      BY <1>5 DEF Balance
    <2> QED BY <1>0, <2>1, TellsOn DEF SentLeads
  <1>6. CASE Subscribe \/ StreamEnds \/ Follow \/ GetService \/ Connect \/ Tick
    BY <1>1, <1>6 DEF Subscribe, StreamEnds, Follow, GetService, Connect, Tick
  <1>7. CASE \E g \in Gateways : Changes(g)
    BY <1>1, <1>7 DEF Changes
  <1>8. CASE UNCHANGED allVars
    BY <1>1, <1>8 DEF allVars
  <1> QED BY <1>1, <1>2, <1>3, <1>4, <1>5, <1>6, <1>7, <1>8 DEF DiscoveryNext, Others

\* The load balancer and the polled channel follow the registry without losing a
\* change: when one has read what was on its way to it, its service_set holds
\* the gateways that run, or its endpoints are those of the last poll, however
\* the gateways came and went meanwhile.
THEOREM FollowersLoseNothing == DiscoverySpec => []CaughtUp
  <1>1. DiscoveryInit => StreamLeads /\ SentLeads
    <2> SUFFICES ASSUME DiscoveryInit PROVE StreamLeads /\ SentLeads
      OBVIOUS
    <2>1. /\ lb \in {"off", "sleeping"} /\ stream = <<>> /\ set = {}
          /\ sent = <<>> /\ endpoints = {} /\ services = {} /\ poll.pc \in {"off", "sleep"}
      BY SMTT(30) DEF DiscoveryInit, Asleep
    <2> QED BY <2>1, TellsNothing DEF StreamLeads, SentLeads
  <1>2. IInv /\ StreamLeads /\ SentLeads => CaughtUp
    <2> SUFFICES ASSUME IInv, StreamLeads, SentLeads PROVE CaughtUp
      OBVIOUS
    <2>1. up \subseteq Gateways /\ set \subseteq Gateways
      BY DEF IInv, PusherInv, TypeOK, DiscoveryTypeOK, LbTypeOK
    <2>2. services \subseteq Gateways /\ endpoints \subseteq Gateways
      BY DEF IInv, DiscoveryTypeOK, PollTypeOK
    <2>3. ASSUME lb = "subscribed", stream = <<>> PROVE set = up
      <3>1. \A g \in Gateways : Tells(<<>>, set, up, g)
        BY <2>3 DEF StreamLeads
      <3>2. \A g \in Gateways : g \in set <=> g \in up
        BY <3>1, TellsNothing
      <3> QED BY <2>1, <3>2
    <2>4. ASSUME poll.pc = "sleep", sent = <<>> PROVE endpoints = services
      <3>1. \A g \in Gateways : Tells(<<>>, endpoints, services, g)
        BY <2>4 DEF SentLeads
      <3>2. \A g \in Gateways : g \in endpoints <=> g \in services
        BY <3>1, TellsNothing
      <3> QED BY <2>2, <3>2
    <2> QED BY <2>3, <2>4 DEF CaughtUp
  <1> QED BY <1>1, <1>2, InitIInv, NextIInv, StreamStep, SentStep, PTL DEF DiscoverySpec
-----------------------------------------------------------------------------
(* A push comes to its end.                                                *)

\* A push waits for at most one call to each gateway.
LEMMA AwaitedFinite == ASSUME PusherInv PROVE IsFiniteSet(Awaited)
  <1>1. \A c \in Awaited : c.g \in Gateways /\ c = [m |-> Cur, g |-> c.g]
    BY SMTT(30) DEF PusherInv, TypeOK, Call, Awaited
  <1> DEFINE f == [c \in Awaited |-> c.g]
  <1>2. f \in Injection(Awaited, Gateways)
    BY <1>1 DEF Injection, IsInjective
  <1> QED BY <1>2, DiscoveryAssumption, FS_Injection

\* A call that ends takes one from what the push waits for, or is not its own.
LEMMA CallSeen ==
    ASSUME PusherInv, phase = "collect", NEW c \in calls, NEW ok \in BOOLEAN,
           calls' = CallEnds(c), Reports(c, ok), UNCHANGED <<kinds, phase>>
    PROVE  UNCHANGED <<Awaited, results>> \/ PushLeft' < PushLeft
  <1>1. Cur' = Cur /\ results \in Seq(Result) /\ c.g \in Gateways
    BY DEF Cur, PusherInv, TypeOK, Call
  <1>2. CASE c.m # Cur
    <2>1. \A d : d \in Awaited' <=> d \in calls /\ d # c /\ d.m = Cur
      BY <1>1 DEF Awaited, CallEnds
    <2>2. \A d : d \in Awaited' <=> d \in Awaited
      BY <1>2, <2>1 DEF Awaited
    <2>3. Awaited' = Awaited
      BY <2>2
    <2> QED BY <1>2, <2>3 DEF Reports
  <1>3. CASE c.m = Cur
    <2>1. c \in Awaited /\ Awaited' = Awaited \ {c}
      BY <1>1, <1>3 DEF Awaited, CallEnds
    <2>2. Cardinality(Awaited') = Cardinality(Awaited) - 1
      BY <2>1, AwaitedFinite, FS_RemoveElement
    <2>3. Cardinality(Awaited) \in Nat
      BY AwaitedFinite, FS_CardinalityType
    <2>4. Len(results) \in Nat /\ Len(results') \in {Len(results), Len(results) + 1}
      <3>1. [g |-> c.g, ok |-> ok] \in Result
        BY <1>1 DEF Result
      <3>2. \/ results' = results
            \/ results' = Append(results, [g |-> c.g, ok |-> ok])
        BY DEF Reports
      <3> QED BY SMTT(30), <1>1, <3>1, <3>2
    <2> QED BY SMTT(30), <2>2, <2>3, <2>4 DEF PushLeft
  <1> QED BY <1>2, <1>3

\* A push that collects the answers of its calls gets none to wait for, and
\* each answer and each result it takes brings it nearer to its end: PushesEnd
\* needs only that calls end and that the push is polled.
THEOREM PushesGoForward == Spec => PushGoesForward
  <1> DEFINE Forward ==
               \/ phase' = "idle"
               \/ phase' = "collect" /\ UNCHANGED <<Awaited, results>>
               \/ phase' = "collect" /\ PushLeft' < PushLeft
  <1>1. ASSUME PusherInv, Next, phase = "collect" PROVE Forward
    <2>1. CASE UNCHANGED <<calls, kinds, phase, results>>
      BY <1>1, <2>1 DEF Awaited, Cur
    <2>2. ASSUME NEW c \in calls, CallSucceeds(c) \/ CallFails(c) PROVE Forward
      <3>1. \E ok \in BOOLEAN : Reports(c, ok)
        BY <2>2 DEF CallSucceeds, CallFails
      <3>2. calls' = CallEnds(c) /\ UNCHANGED <<kinds, phase>>
        BY <2>2 DEF CallSucceeds, CallFails
      <3> QED BY <1>1, <3>1, <3>2, CallSeen
    <2>3. CASE CollectError
      <3>1. /\ results # <<>> /\ results' = Tail(results) /\ results \in Seq(Result)
            /\ UNCHANGED <<calls, kinds, phase>>
        BY <1>1, <2>3 DEF CollectError, PusherInv, TypeOK
      <3>2. Awaited' = Awaited
        BY <3>1 DEF Awaited, Cur
      <3>3. Len(results') < Len(results) /\ Len(results) \in Nat /\ Len(results') \in Nat
        BY SMTT(30), <3>1
      <3>4. Cardinality(Awaited) \in Nat
        BY <1>1, AwaitedFinite, FS_CardinalityType
      <3>5. PushLeft' < PushLeft
        BY SMTT(30), <3>2, <3>3, <3>4 DEF PushLeft
      <3> QED BY <1>1, <3>1, <3>5
    <2>4. CASE PushReturns
      BY <2>4 DEF PushReturns
    <2>5. ~(\E k \in Kind : PushBegins(k)) /\ ~QueryRegistry /\ ~SendPanics /\ ~Send
      BY <1>1 DEF PushBegins, QueryRegistry, SendPanics, Send
    <2>6. Quiet \/ ApplyChange \/ (\E g \in Gateways : GatewayChanges(g))
            => UNCHANGED <<calls, kinds, phase, results>>
      BY DEF Quiet, ApplyChange, GatewayChanges, vars
    <2> HIDE DEF Forward
    <2> QED BY <1>1, <2>1, <2>2, <2>3, <2>4, <2>5, <2>6 DEF Next, Pushes, Calls, Collects
  <1> DEFINE Moves == phase = "collect" => Forward
  <1>2. PusherInv /\ [Next]_vars => [Moves]_vars
    BY <1>1
  <1> QED BY <1>2, PusherInit, PusherStep, PTL DEF Spec, PushGoesForward
=============================================================================
