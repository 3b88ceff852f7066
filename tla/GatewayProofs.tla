---------------------------- MODULE GatewayProofs -----------------------------
(***************************************************************************)
(* Proofs about Gateway, for any connections, any finite set of users, any *)
(* number of pushes at the same time, workers and capacity of the channel: *)
(* what the hub holds, what a sender writes to, and what it waits for.     *)
(***************************************************************************)
EXTENDS Gateway, FiniteSetTheorems, TLAPS

\* Zenon is tried unless a leaf names Z3, which takes the sequences.
USE Zenon
-----------------------------------------------------------------------------
(* The hub.                                                                *)

\* What is in a place of the hub.
LEMMA InPlace ==
    ASSUME TypeOK
    PROVE  \A u \in Users, p \in Platforms : hub[u][p] \in Conns \cup {None}
  <1>1. ASSUME NEW u \in Users PROVE hub[u] \in [Platforms -> Conns \cup {None}]
    BY DEF TypeOK
  <1> QED BY <1>1

\* One place of the hub changes.
LEMMA PlaceChanges ==
    ASSUME TypeOK, NEW u \in Users, NEW p \in Platforms, NEW x \in Conns \cup {None},
           hub' = [hub EXCEPT ![u][p] = x]
    PROVE  /\ hub' \in [Users -> [Platforms -> Conns \cup {None}]]
           /\ hub'[u][p] = x
           /\ \A v \in Users, q \in Platforms : v # u \/ q # p => hub'[v][q] = hub[v][q]
           /\ \A v \in Users : v # u => hub'[v] = hub[v]
  <1>1. hub \in [Users -> [Platforms -> Conns \cup {None}]]
    BY DEF TypeOK
  <1>2. hub[u] \in [Platforms -> Conns \cup {None}]
    BY <1>1
  <1> DEFINE e == [hub[u] EXCEPT ![p] = x]
  <1>3. /\ e \in [Platforms -> Conns \cup {None}] /\ e[p] = x
        /\ \A q \in Platforms : q # p => e[q] = hub[u][q]
    BY <1>2
  <1>4. hub' = [hub EXCEPT ![u] = e]
    OBVIOUS
  <1> HIDE DEF e
  <1>5. /\ hub' \in [Users -> [Platforms -> Conns \cup {None}]] /\ hub'[u] = e
        /\ \A v \in Users : v # u => hub'[v] = hub[v]
    BY <1>1, <1>3, <1>4
  <1> QED BY <1>3, <1>5

\* Nobody writes to an entry that is not guarded, so that entry may change.
LEMMA UnguardedChanges ==
    ASSUME TypeOK, GuardedWrites, NEW u \in Users, ~Guarded(u), UNCHANGED sendVars,
           \A v \in Users : v # u => hub'[v] = hub[v]
    PROVE  GuardedWrites'
  <1>1. UNCHANGED <<job, guard, targets>>
    BY DEF sendVars
  <1>2. ASSUME NEW s \in Senders, NEW i \in DOMAIN targets[s]
        PROVE  targets[s][i] \in Clients(guard[s])'
    <2>1. targets[s] # <<>>
      <3>1. DOMAIN <<>> = {}
        BY SMTT(30)
      <3> QED BY <3>1
    <2>2. guard[s] # None /\ guard[s] \in Users \cup {None}
      BY <2>1 DEF GuardedWrites, TypeOK
    <2>3. guard[s] \in Users /\ guard[s] # u
      BY <2>2 DEF Guarded
    <2>4. targets[s][i] \in Clients(guard[s])
      BY DEF GuardedWrites
    <2>5. hub'[guard[s]] = hub[guard[s]]
      BY <2>3
    <2> QED BY SMTT(30), <1>1, <2>4, <2>5 DEF Clients
  <1> QED BY <1>1, <1>2 DEF GuardedWrites

\* The hub and the senders stay.
LEMMA WritesStay ==
    ASSUME GuardedWrites, UNCHANGED <<hub, sendVars>>
    PROVE  GuardedWrites'
  <1>1. UNCHANGED <<hub, job, guard, targets>>
    BY DEF sendVars
  <1> QED BY SMTT(30), <1>1 DEF GuardedWrites, Clients
-----------------------------------------------------------------------------
(* The life of a connection.                                               *)

\* A step that changes sockets, the channel, or the state of a connection that
\* is not in the hub or stays in a state it may have there.
LEMMA HubStays ==
    ASSUME IInv, UNCHANGED <<hub, fixed, sendVars>>,
           st' \in [Conns -> State], sock' \in [Conns -> {"ok", "slow", "dead"}],
           chan' \in Seq(Frame),
           \A d \in Conns : \/ st'[d] = st[d] \/ ~InHub(d)
                            \/ st'[d] \in {"active", "unreg", "remove"}
    PROVE  IInv'
  <1>1. UNCHANGED <<hub, owner, plat, job, guard, targets>>
    BY DEF fixed, sendVars
  <1>2. TypeOK'
    BY <1>1 DEF IInv, TypeOK
  <1>3. GuardedWrites'
    BY WritesStay DEF IInv
  <1>4. HubInPlace'
    <2> SUFFICES ASSUME NEW u \in Users, NEW p \in Platforms, hub[u][p] # None
                 PROVE  /\ owner[hub[u][p]] = u /\ plat[hub[u][p]] = p
                        /\ st'[hub[u][p]] \in {"active", "unreg", "remove"}
      BY SMTT(30), <1>1 DEF HubInPlace
    <2>1. hub[u][p] \in Conns
      BY InPlace DEF IInv
    <2>2. /\ owner[hub[u][p]] = u /\ plat[hub[u][p]] = p
          /\ st[hub[u][p]] \in {"active", "unreg", "remove"}
      BY DEF IInv, HubInPlace
    <2>3. InHub(hub[u][p])
      BY <2>2 DEF InHub
    <2> QED BY <2>1, <2>2, <2>3
  <1> QED BY <1>2, <1>3, <1>4 DEF IInv

\* The state of one connection changes.
LEMMA StateChanges ==
    ASSUME TypeOK, NEW c \in Conns, NEW x \in State, st' = [st EXCEPT ![c] = x]
    PROVE  st' \in [Conns -> State] /\ st'[c] = x /\ \A d \in Conns : d # c => st'[d] = st[d]
  BY DEF TypeOK

LEMMA SocketChanges ==
    ASSUME TypeOK, NEW c \in Conns, NEW x \in {"ok", "slow", "dead"},
           sock' = [sock EXCEPT ![c] = x]
    PROVE  sock' \in [Conns -> {"ok", "slow", "dead"}]
  BY DEF TypeOK

LEMMA ArriveKeeps ==
    ASSUME IInv, NEW c \in Conns, Arrive(c)
    PROVE  IInv'
  <1>1. TypeOK /\ HubInPlace
    BY DEF IInv
  <1>2. /\ st[c] = "closed" /\ st' = [st EXCEPT ![c] = "reg"]
        /\ sock' = [sock EXCEPT ![c] = "ok"] /\ UNCHANGED <<hub, fixed, chan, sendVars>>
    BY DEF Arrive
  <1>3. st' \in [Conns -> State] /\ \A d \in Conns : d # c => st'[d] = st[d]
    BY <1>1, <1>2, StateChanges DEF State
  <1>4. sock' \in [Conns -> {"ok", "slow", "dead"}] /\ chan' \in Seq(Frame)
    BY <1>1, <1>2, SocketChanges DEF TypeOK
  <1>5. ~InHub(c)
    <2>1. c # None /\ owner[c] \in Users /\ plat[c] \in Platforms
      BY <1>1, GatewayAssumption DEF TypeOK
    <2> QED BY SMTT(30), <1>1, <1>2, <2>1 DEF HubInPlace, InHub
  <1> QED BY <1>2, <1>3, <1>4, <1>5, HubStays

LEMMA RegisterKeeps ==
    ASSUME IInv, NEW c \in Conns, Register(c)
    PROVE  IInv'
  <1>1. TypeOK /\ HubInPlace /\ GuardedWrites
    BY DEF IInv
  <1>2. /\ ~Guarded(owner[c]) /\ hub' = [hub EXCEPT ![owner[c]][plat[c]] = c]
        /\ st' = [st EXCEPT ![c] = "active"]
        /\ UNCHANGED <<owner, plat, sock, chan, job, guard, targets>>
    BY DEF Register, fixed, sendVars
  <1>3. owner[c] \in Users /\ plat[c] \in Platforms
    BY <1>1 DEF TypeOK
  <1>4. /\ hub' \in [Users -> [Platforms -> Conns \cup {None}]]
        /\ hub'[owner[c]][plat[c]] = c
        /\ \A v \in Users, q \in Platforms :
              v # owner[c] \/ q # plat[c] => hub'[v][q] = hub[v][q]
        /\ \A v \in Users : v # owner[c] => hub'[v] = hub[v]
    BY <1>1, <1>2, <1>3, PlaceChanges
  <1>5. /\ st' \in [Conns -> State] /\ st'[c] = "active"
        /\ \A d \in Conns : d # c => st'[d] = st[d]
    BY <1>1, <1>2, StateChanges DEF State
  <1>6. TypeOK'
    BY <1>1, <1>2, <1>4, <1>5 DEF TypeOK
  <1>7. HubInPlace'
    <2> SUFFICES ASSUME NEW u \in Users, NEW p \in Platforms, hub'[u][p] # None
                 PROVE  /\ owner[hub'[u][p]] = u /\ plat[hub'[u][p]] = p
                        /\ st'[hub'[u][p]] \in {"active", "unreg", "remove"}
      BY SMTT(30), <1>2 DEF HubInPlace
    <2>1. CASE u = owner[c] /\ p = plat[c]
      BY <1>4, <1>5, <2>1
    <2>2. CASE ~(u = owner[c] /\ p = plat[c])
      <3>1. hub'[u][p] = hub[u][p] /\ hub[u][p] \in Conns
        <4>1. hub'[u][p] = hub[u][p]
          BY <1>4, <2>2
        <4> QED BY <1>1, <4>1, InPlace
      <3>2. /\ owner[hub[u][p]] = u /\ plat[hub[u][p]] = p
            /\ st[hub[u][p]] \in {"active", "unreg", "remove"}
        BY <1>1, <3>1 DEF HubInPlace
      <3>3. hub[u][p] # c
        BY <2>2, <3>2
      <3> QED BY <1>5, <3>1, <3>2, <3>3
    <2> QED BY <2>1, <2>2
  <1>8. GuardedWrites'
    BY <1>1, <1>2, <1>3, <1>4, UnguardedChanges DEF sendVars
  <1> QED BY <1>6, <1>7, <1>8 DEF IInv

\* A connection that only leaves its tasks stays in the hub until it is
\* unregistered.
LEMMA EndKeeps ==
    ASSUME IInv, NEW c \in Conns, ReceiveEnds(c) \/ PingEnds(c)
    PROVE  IInv'
  <1>1. TypeOK
    BY DEF IInv
  <1>2. st' = [st EXCEPT ![c] = "unreg"] /\ UNCHANGED <<hub, fixed, sock, chan, sendVars>>
    BY DEF ReceiveEnds, PingEnds
  <1>3. /\ st' \in [Conns -> State] /\ st'[c] = "unreg"
        /\ \A d \in Conns : d # c => st'[d] = st[d]
    BY <1>1, <1>2, StateChanges DEF State
  <1>4. sock' \in [Conns -> {"ok", "slow", "dead"}] /\ chan' \in Seq(Frame)
    BY <1>1, <1>2 DEF TypeOK
  <1> QED BY <1>2, <1>3, <1>4, HubStays

LEMMA KnockOffKeeps ==
    ASSUME IInv, NEW c \in Conns, KnockOff(c)
    PROVE  IInv'
  <1>1. TypeOK
    BY DEF IInv
  <1>2. /\ ~InHub(c) /\ st' = [st EXCEPT ![c] = "closed"]
        /\ sock' = [sock EXCEPT ![c] = "dead"] /\ UNCHANGED <<hub, fixed, chan, sendVars>>
    BY DEF KnockOff, ChannelClosed, Closed
  <1>3. st' \in [Conns -> State] /\ \A d \in Conns : d # c => st'[d] = st[d]
    BY <1>1, <1>2, StateChanges DEF State
  <1>4. sock' \in [Conns -> {"ok", "slow", "dead"}] /\ chan' \in Seq(Frame)
    BY <1>1, <1>2, SocketChanges DEF TypeOK
  <1> QED BY <1>2, <1>3, <1>4, HubStays

\* An entry that nobody writes to loses the place of a connection that closes,
\* and perhaps others.
LEMMA EntryLoses ==
    ASSUME IInv, NEW c \in Conns, ~Guarded(owner[c]), Closed(c),
           UNCHANGED <<fixed, chan, sendVars>>,
           hub' \in [Users -> [Platforms -> Conns \cup {None}]],
           \A v \in Users : v # owner[c] => hub'[v] = hub[v],
           \A q \in Platforms : hub'[owner[c]][q] \in {hub[owner[c]][q], None},
           hub'[owner[c]][plat[c]] = None
    PROVE  IInv'
  <1>1. /\ TypeOK /\ HubInPlace /\ GuardedWrites
        /\ UNCHANGED <<owner, plat, job, guard, targets>>
        /\ st' = [st EXCEPT ![c] = "closed"] /\ sock' = [sock EXCEPT ![c] = "dead"]
    BY DEF IInv, fixed, sendVars, Closed
  <1>2. st' \in [Conns -> State] /\ \A d \in Conns : d # c => st'[d] = st[d]
    BY <1>1, StateChanges DEF State
  <1>3. sock' \in [Conns -> {"ok", "slow", "dead"}] /\ owner[c] \in Users
    BY <1>1, SocketChanges DEF TypeOK
  <1>4. TypeOK'
    BY <1>1, <1>2, <1>3 DEF TypeOK
  <1>5. HubInPlace'
    <2> SUFFICES ASSUME NEW u \in Users, NEW p \in Platforms, hub'[u][p] # None
                 PROVE  /\ owner[hub'[u][p]] = u /\ plat[hub'[u][p]] = p
                        /\ st'[hub'[u][p]] \in {"active", "unreg", "remove"}
      BY SMTT(30), <1>1 DEF HubInPlace
    <2>1. hub'[u][p] = hub[u][p] /\ hub[u][p] \in Conns
      <3>1. hub'[u][p] = hub[u][p]
        BY <1>1
      <3> QED BY <1>1, <3>1, InPlace
    <2>2. /\ owner[hub[u][p]] = u /\ plat[hub[u][p]] = p
          /\ st[hub[u][p]] \in {"active", "unreg", "remove"}
      BY <1>1, <2>1 DEF HubInPlace
    <2>3. hub[u][p] # c
      BY <2>1, <2>2
    <2> QED BY SMTT(30), <1>2, <2>1, <2>2, <2>3
  <1>6. GuardedWrites'
    BY <1>1, <1>3, UnguardedChanges
  <1> QED BY <1>4, <1>5, <1>6 DEF IInv

LEMMA UnregisterKeeps ==
    ASSUME IInv, NEW c \in Conns, Unregister(c)
    PROVE  IInv'
  <1>1. TypeOK /\ owner[c] \in Users /\ plat[c] \in Platforms /\ ~Guarded(owner[c])
    BY DEF IInv, TypeOK, Unregister
  <1>2. UNCHANGED <<fixed, chan, sendVars>>
    BY DEF Unregister
  <1>3. CASE st' = [st EXCEPT ![c] = "remove"] /\ UNCHANGED <<hub, sock>>
    <2>1. /\ st' \in [Conns -> State] /\ st'[c] = "remove"
          /\ \A d \in Conns : d # c => st'[d] = st[d]
      BY <1>1, <1>3, StateChanges DEF State
    <2>2. sock' \in [Conns -> {"ok", "slow", "dead"}] /\ chan' \in Seq(Frame)
      BY <1>1, <1>2, <1>3 DEF TypeOK
    <2> QED BY <1>2, <1>3, <2>1, <2>2, HubStays
  <1>4. CASE hub' = [hub EXCEPT ![owner[c]][plat[c]] = None] /\ Closed(c)
    <2>1. /\ hub' \in [Users -> [Platforms -> Conns \cup {None}]]
          /\ hub'[owner[c]][plat[c]] = None
          /\ \A v \in Users, q \in Platforms :
                v # owner[c] \/ q # plat[c] => hub'[v][q] = hub[v][q]
          /\ \A v \in Users : v # owner[c] => hub'[v] = hub[v]
      <3>1. None \in Conns \cup {None}
        OBVIOUS
      <3> QED BY <1>1, <1>4, <3>1, PlaceChanges
    <2>2. \A q \in Platforms : hub'[owner[c]][q] \in {hub[owner[c]][q], None}
      BY <1>1, <2>1
    <2> QED BY <1>1, <1>2, <1>4, <2>1, <2>2, EntryLoses
  <1> QED BY <1>3, <1>4 DEF Unregister

LEMMA RemoveEntryKeeps ==
    ASSUME IInv, NEW c \in Conns, RemoveEntry(c)
    PROVE  IInv'
  <1> DEFINE e == [p \in Platforms |-> None]
  <1>1. TypeOK /\ owner[c] \in Users /\ plat[c] \in Platforms /\ ~Guarded(owner[c])
    BY DEF IInv, TypeOK, RemoveEntry
  <1>2. /\ hub' = [hub EXCEPT ![owner[c]] = e] /\ Closed(c)
        /\ UNCHANGED <<fixed, chan, sendVars>>
    BY DEF RemoveEntry
  <1>3. e \in [Platforms -> Conns \cup {None}] /\ \A q \in Platforms : e[q] = None
    OBVIOUS
  <1> HIDE DEF e
  <1>4. /\ hub' \in [Users -> [Platforms -> Conns \cup {None}]] /\ hub'[owner[c]] = e
        /\ \A v \in Users : v # owner[c] => hub'[v] = hub[v]
    BY <1>1, <1>2, <1>3 DEF TypeOK
  <1>5. /\ \A q \in Platforms : hub'[owner[c]][q] \in {hub[owner[c]][q], None}
        /\ hub'[owner[c]][plat[c]] = None
    BY <1>1, <1>3, <1>4
  <1> QED BY <1>1, <1>2, <1>4, <1>5, EntryLoses

LEMMA SocketKeeps ==
    ASSUME IInv, NEW c \in Conns, SocketSlows(c) \/ SocketResumes(c) \/ SocketDies(c)
    PROVE  IInv'
  <1>1. TypeOK
    BY DEF IInv
  <1>2. UNCHANGED <<hub, st, fixed, chan, sendVars>>
    BY DEF SocketSlows, SocketResumes, SocketDies
  <1>3. sock' \in [Conns -> {"ok", "slow", "dead"}]
    BY <1>1, SocketChanges DEF SocketSlows, SocketResumes, SocketDies
  <1>4. st' \in [Conns -> State] /\ chan' \in Seq(Frame) /\ \A d \in Conns : st'[d] = st[d]
    BY <1>1, <1>2 DEF TypeOK
  <1> QED BY <1>2, <1>3, <1>4, HubStays

LEMMA ReceiveKeeps ==
    ASSUME IInv, NEW c \in Conns, Receive(c)
    PROVE  IInv'
  <1>1. TypeOK
    BY DEF IInv
  <1>2. UNCHANGED <<hub, st, fixed, sock, sendVars>>
    BY DEF Receive, connVars, fixed
  <1>3. chan' \in Seq(Frame)
    <2>1. [user |-> owner[c], plat |-> plat[c]] \in Frame
      BY <1>1 DEF TypeOK, Frame
    <2> QED BY SMTT(30), <1>1, <2>1 DEF Receive, TypeOK
  <1>4. /\ st' \in [Conns -> State] /\ sock' \in [Conns -> {"ok", "slow", "dead"}]
        /\ \A d \in Conns : st'[d] = st[d]
    BY <1>1, <1>2 DEF TypeOK
  <1> QED BY <1>2, <1>3, <1>4, HubStays
-----------------------------------------------------------------------------
(* Writing to the connections.                                             *)

\* A set of clients put in some order.
LEMMA SomeOrder ==
    ASSUME NEW S, IsFiniteSet(S), NEW q \in Orders(S)
    PROVE  /\ q \in Seq(S) /\ DOMAIN q = 1..Len(q)
           /\ \A i \in DOMAIN q : q[i] \in S
           /\ S # {} => q # <<>>
  <1>1. Cardinality(S) \in Nat /\ (Cardinality(S) = 0 <=> S = {})
    BY FS_CardinalityType, FS_EmptySet
  <1>2. q \in [1..Cardinality(S) -> S]
    BY DEF Orders, Bijection, Injection
  <1>3. q \in Seq(S) /\ Len(q) = Cardinality(S) /\ DOMAIN q = 1..Len(q)
    BY SMTT(30), <1>1, <1>2
  <1>4. \A i \in DOMAIN q : q[i] \in S
    BY <1>2
  <1>5. Len(<<>>) = 0
    BY SMTT(30)
  <1> QED BY <1>1, <1>3, <1>4, <1>5

LEMMA VisitRecords ==
    ASSUME NEW u \in Users
    PROVE  All(u) \in Visit /\ \A p \in Platforms : Self(u, p) \in Visit
  <1>1. \A p \in Platforms : {Other(p)} \in SUBSET Platforms
    BY DEF Other, Platforms
  <1>2. \A P \in SUBSET Platforms : [user |-> u, plats |-> P] \in Visit
    BY SMTT(30) DEF Visit
  <1> QED BY <1>1, <1>2 DEF All, Self

\* A sender that writes to nobody gets another job.
LEMMA JobKeeps ==
    ASSUME IInv, NEW s \in Senders, NEW j \in Seq(Visit), job[s] = <<>>,
           job' = [job EXCEPT ![s] = j], chan' \in Seq(Frame),
           UNCHANGED <<hub, connVars, guard, targets>>
    PROVE  IInv'
  <1>1. /\ TypeOK /\ HubInPlace /\ GuardedWrites
        /\ UNCHANGED <<hub, st, owner, plat, sock, guard, targets>>
    BY DEF IInv, connVars
  <1>2. job' \in [Senders -> Seq(Visit)] /\ \A t \in Senders : t # s => job'[t] = job[t]
    BY <1>1 DEF TypeOK
  <1>3. TypeOK'
    BY <1>1, <1>2 DEF TypeOK
  <1>4. HubInPlace'
    BY SMTT(30), <1>1 DEF HubInPlace
  <1>5. \A t \in Senders : guard[t] # None => job'[t] # <<>>
    BY <1>1, <1>2 DEF GuardedWrites
  <1>6. GuardedWrites'
    BY SMTT(30), <1>1, <1>5 DEF GuardedWrites, Clients
  <1> QED BY <1>3, <1>4, <1>6 DEF IInv

LEMMA ManagerTakesKeeps ==
    ASSUME IInv, ManagerTakes
    PROVE  IInv'
  <1> DEFINE m == Head(chan)
             j == <<All(m.user), Self(m.user, m.plat)>>
  <1>1. TypeOK /\ Manager \in Senders
    BY DEF IInv, Senders
  <1>2. /\ job[Manager] = <<>> /\ chan # <<>> /\ chan' = Tail(chan)
        /\ job' = [job EXCEPT ![Manager] = j]
        /\ UNCHANGED <<hub, connVars, guard, targets>>
    BY DEF ManagerTakes
  <1>3. m \in Frame /\ chan' \in Seq(Frame)
    BY SMTT(30), <1>1, <1>2 DEF TypeOK
  <1> HIDE DEF m
  <1>4. m.user \in Users /\ m.plat \in Platforms
    BY SMTT(30), <1>3 DEF Frame
  <1>5. All(m.user) \in Visit /\ Self(m.user, m.plat) \in Visit
    BY <1>4, VisitRecords
  <1>6. j \in Seq(Visit)
    BY SMTT(30), <1>5
  <1> HIDE DEF j
  <1> QED BY <1>1, <1>2, <1>3, <1>6, JobKeeps

LEMMA PushSingleKeeps ==
    ASSUME IInv, NEW s \in Pushers, NEW u \in Users, NEW v \in Users, NEW p \in Platforms,
           PushSingle(s, u, p, v)
    PROVE  IInv'
  <1> DEFINE j == <<All(v), Self(u, p)>>
  <1>1. s \in Senders /\ chan' \in Seq(Frame)
    BY DEF IInv, TypeOK, Senders, PushSingle
  <1>2. /\ job[s] = <<>> /\ job' = [job EXCEPT ![s] = j]
        /\ UNCHANGED <<hub, connVars, guard, targets>>
    BY DEF PushSingle
  <1>3. All(v) \in Visit /\ Self(u, p) \in Visit
    BY VisitRecords
  <1>4. j \in Seq(Visit)
    BY SMTT(30), <1>3
  <1> HIDE DEF j
  <1> QED BY <1>1, <1>2, <1>4, JobKeeps

LEMMA PushGroupKeeps ==
    ASSUME IInv, NEW s \in Pushers, NEW u \in Users, NEW p \in Platforms,
           NEW members \in Orders(Users), PushGroup(s, u, p, members)
    PROVE  IInv'
  <1> DEFINE f == [i \in DOMAIN members |-> All(members[i])]
             j == <<Self(u, p)>> \o f
  <1>1. s \in Senders /\ chan' \in Seq(Frame)
    BY DEF IInv, TypeOK, Senders, PushGroup
  <1>2. /\ job[s] = <<>> /\ job' = [job EXCEPT ![s] = j]
        /\ UNCHANGED <<hub, connVars, guard, targets>>
    BY DEF PushGroup
  <1>3. /\ members \in Seq(Users) /\ DOMAIN members = 1..Len(members)
        /\ \A i \in DOMAIN members : members[i] \in Users
    BY GatewayAssumption, SomeOrder
  <1>4. \A i \in DOMAIN members : All(members[i]) \in Visit
    BY <1>3, VisitRecords
  <1>5. f \in [1..Len(members) -> Visit] /\ Len(members) \in Nat
    <2>1. Len(members) \in Nat
      BY SMTT(30), <1>3
    <2> QED BY <1>3, <1>4, <2>1
  <1> HIDE DEF f
  <1>6. f \in Seq(Visit)
    BY SMTT(30), <1>5
  <1>7. Self(u, p) \in Visit
    BY VisitRecords
  <1>8. j \in Seq(Visit)
    BY SMTT(30), <1>6, <1>7
  <1> HIDE DEF j
  <1> QED BY <1>1, <1>2, <1>8, JobKeeps

\* What a visit finds are clients of the user.
LEMMA FoundClients ==
    ASSUME TypeOK, NEW u \in Users, NEW P \in SUBSET Platforms
    PROVE  LET cs == {hub[u][p] : p \in P} \ {None}
           IN  cs \subseteq Clients(u) /\ cs \subseteq Conns /\ IsFiniteSet(cs)
  <1> DEFINE cs == {hub[u][p] : p \in P} \ {None}
             both == {hub[u]["Desktop"]} \cup {hub[u]["Mobile"]}
  <1>1. cs \subseteq Clients(u)
    BY DEF Clients
  <1>2. cs \subseteq Conns
    BY SMTT(30) DEF TypeOK
  <1>3. IsFiniteSet(both)
    <2>1. IsFiniteSet({hub[u]["Desktop"]})
      BY FS_Singleton
    <2> QED BY <2>1, FS_AddElement
  <1>4. cs \subseteq both
    BY DEF Platforms
  <1>5. IsFiniteSet(cs)
    BY <1>3, <1>4, FS_Subset
  <1> QED BY <1>1, <1>2, <1>5

\* A sender moves on: what it has to write to are clients of its guard's entry.
LEMMA SenderMoves ==
    ASSUME IInv, NEW s \in Senders, UNCHANGED <<hub, connVars, chan>>,
           job' \in [Senders -> Seq(Visit)], guard' \in [Senders -> Users \cup {None}],
           targets' \in [Senders -> Seq(Conns)],
           \A t \in Senders : t # s => /\ job'[t] = job[t] /\ guard'[t] = guard[t]
                                       /\ targets'[t] = targets[t],
           targets'[s] # <<>> <=> guard'[s] # None,
           guard'[s] # None => job'[s] # <<>>,
           \A i \in DOMAIN targets'[s] : targets'[s][i] \in Clients(guard'[s])
    PROVE  IInv'
  <1>1. /\ TypeOK /\ HubInPlace /\ GuardedWrites
        /\ UNCHANGED <<hub, st, owner, plat, sock, chan>>
    BY DEF IInv, connVars
  <1>2. TypeOK'
    BY <1>1 DEF TypeOK
  <1>3. HubInPlace'
    BY SMTT(30), <1>1 DEF HubInPlace
  <1>4. ASSUME NEW t \in Senders
        PROVE  /\ targets'[t] # <<>> <=> guard'[t] # None
               /\ guard'[t] # None => job'[t] # <<>>
               /\ \A i \in DOMAIN targets'[t] : targets'[t][i] \in Clients(guard'[t])
    <2>1. CASE t = s
      BY <2>1
    <2>2. CASE t # s
      BY <1>1, <2>2 DEF GuardedWrites
    <2> QED BY <2>1, <2>2
  <1>5. GuardedWrites'
    BY SMTT(30), <1>1, <1>4 DEF GuardedWrites, Clients
  <1> QED BY <1>2, <1>3, <1>5 DEF IInv

LEMMA VisitsKeeps ==
    ASSUME IInv, NEW s \in Senders, Visits(s)
    PROVE  IInv'
  <1> DEFINE v == Head(job[s])
             cs == {hub[v.user][p] : p \in v.plats} \ {None}
  <1>1. TypeOK /\ GuardedWrites /\ guard[s] = None /\ targets[s] = <<>>
    BY DEF IInv, GuardedWrites, Visits
  <1>2. UNCHANGED <<hub, connVars, chan>> /\ job[s] # <<>> /\ job[s] \in Seq(Visit)
    BY <1>1 DEF Visits, TypeOK
  <1>3. v \in Visit /\ Tail(job[s]) \in Seq(Visit)
    BY SMTT(30), <1>2
  <1>4. v.user \in Users /\ v.plats \in SUBSET Platforms
    BY SMTT(30), <1>3 DEF Visit
  <1>5. cs \subseteq Clients(v.user) /\ cs \subseteq Conns /\ IsFiniteSet(cs)
    BY <1>1, <1>4, FoundClients
  <1>6. DOMAIN <<>> = {}
    BY SMTT(30)
  <1>7. \/ job' = [job EXCEPT ![s] = Tail(job[s])] /\ UNCHANGED <<guard, targets>>
        \/ /\ cs # {} /\ guard' = [guard EXCEPT ![s] = v.user]
           /\ \E q \in Orders(cs) : targets' = [targets EXCEPT ![s] = q]
           /\ UNCHANGED job
    BY DEF Visits
  <1> HIDE DEF v, cs
  <1>8. CASE job' = [job EXCEPT ![s] = Tail(job[s])] /\ UNCHANGED <<guard, targets>>
    <2>1. /\ job' \in [Senders -> Seq(Visit)] /\ guard' \in [Senders -> Users \cup {None}]
          /\ targets' \in [Senders -> Seq(Conns)]
          /\ \A t \in Senders : t # s => job'[t] = job[t]
      BY <1>1, <1>3, <1>8 DEF TypeOK
    <2>2. guard'[s] = None /\ targets'[s] = <<>>
      BY <1>1, <1>8
    <2> QED BY <1>2, <1>6, <1>8, <2>1, <2>2, SenderMoves
  <1>9. ASSUME cs # {}, guard' = [guard EXCEPT ![s] = v.user], UNCHANGED job,
               NEW q \in Orders(cs), targets' = [targets EXCEPT ![s] = q]
        PROVE  IInv'
    <2>1. /\ q \in Seq(cs) /\ (\A i \in DOMAIN q : q[i] \in cs) /\ q # <<>>
      BY <1>5, <1>9, SomeOrder
    <2>2. q \in Seq(Conns)
      BY SMTT(30), <1>5, <2>1
    <2>3. /\ guard' \in [Senders -> Users \cup {None}] /\ guard'[s] = v.user
          /\ targets' \in [Senders -> Seq(Conns)] /\ targets'[s] = q
          /\ job' \in [Senders -> Seq(Visit)] /\ job'[s] # <<>>
          /\ \A t \in Senders : t # s => guard'[t] = guard[t] /\ targets'[t] = targets[t]
      BY <1>1, <1>2, <1>4, <1>9, <2>2 DEF TypeOK
    <2>4. v.user # None
      BY <1>4, GatewayAssumption
    <2>5. \A i \in DOMAIN targets'[s] : targets'[s][i] \in Clients(guard'[s])
      BY <1>5, <2>1, <2>3
    <2> QED BY <1>2, <1>9, <2>1, <2>3, <2>4, <2>5, SenderMoves
  <1> QED BY <1>7, <1>8, <1>9

\* A sequence without its head.
LEMMA TailOf ==
    ASSUME NEW S, NEW q \in Seq(S), q # <<>>
    PROVE  /\ Tail(q) \in Seq(S) /\ (Len(q) = 1 <=> Tail(q) = <<>>)
           /\ \A i \in DOMAIN Tail(q) : \E k \in DOMAIN q : Tail(q)[i] = q[k]
  <1>1. Tail(q) \in Seq(S) /\ Len(Tail(q)) = Len(q) - 1 /\ Len(q) \in Nat
    BY SMTT(30)
  <1>2. Len(q) = 1 <=> Tail(q) = <<>>
    <2>1. \A t \in Seq(S) : Len(t) = 0 <=> t = <<>>
      BY SMTT(30)
    <2>2. Len(Tail(q)) = 0 <=> Len(q) = 1
      BY SMTT(30), <1>1
    <2> QED BY <1>1, <2>1, <2>2
  <1>3. \A i \in DOMAIN Tail(q) : i + 1 \in DOMAIN q /\ Tail(q)[i] = q[i + 1]
    BY SMTT(30)
  <1> QED BY <1>1, <1>2, <1>3

LEMMA SendsKeeps ==
    ASSUME IInv, NEW s \in Senders, Sends(s)
    PROVE  IInv'
  <1>1. /\ TypeOK /\ GuardedWrites /\ targets[s] # <<>> /\ guard[s] # None
        /\ job[s] # <<>> /\ UNCHANGED <<hub, connVars, chan>>
        /\ targets' = [targets EXCEPT ![s] = Tail(targets[s])]
    BY DEF IInv, GuardedWrites, Sends
  <1>2. targets[s] \in Seq(Conns) /\ job[s] \in Seq(Visit)
    BY <1>1 DEF TypeOK
  <1>3. /\ Tail(targets[s]) \in Seq(Conns) /\ Tail(job[s]) \in Seq(Visit)
        /\ Len(targets[s]) = 1 <=> Tail(targets[s]) = <<>>
        /\ \A i \in DOMAIN Tail(targets[s]) :
              \E k \in DOMAIN targets[s] : Tail(targets[s])[i] = targets[s][k]
    BY <1>1, <1>2, TailOf
  <1>4. DOMAIN <<>> = {}
    BY SMTT(30)
  <1>5. /\ targets' \in [Senders -> Seq(Conns)] /\ targets'[s] = Tail(targets[s])
        /\ \A t \in Senders : t # s => targets'[t] = targets[t]
    BY <1>1, <1>3 DEF TypeOK
  <1>6. \A i \in DOMAIN targets'[s] : targets'[s][i] \in Clients(guard[s])
    BY <1>1, <1>3, <1>5 DEF GuardedWrites
  <1>7. CASE Len(targets[s]) = 1
    <2>1. guard' = [guard EXCEPT ![s] = None] /\ job' = [job EXCEPT ![s] = Tail(job[s])]
      BY <1>7 DEF Sends, DropGuard
    <2>2. /\ guard' \in [Senders -> Users \cup {None}] /\ guard'[s] = None
          /\ job' \in [Senders -> Seq(Visit)]
          /\ \A t \in Senders : t # s => guard'[t] = guard[t] /\ job'[t] = job[t]
      BY <1>1, <1>3, <2>1 DEF TypeOK
    <2>3. targets'[s] = <<>>
      BY <1>3, <1>5, <1>7
    <2> QED BY <1>1, <1>4, <1>5, <2>2, <2>3, SenderMoves
  <1>8. CASE Len(targets[s]) # 1
    <2>1. UNCHANGED <<guard, job>>
      BY <1>8 DEF Sends
    <2>2. guard' \in [Senders -> Users \cup {None}] /\ job' \in [Senders -> Seq(Visit)]
      BY <1>1, <2>1 DEF TypeOK
    <2>3. targets'[s] # <<>>
      BY <1>3, <1>5, <1>8
    <2> QED BY <1>1, <1>5, <1>6, <2>1, <2>2, <2>3, SenderMoves
  <1> QED BY <1>7, <1>8
-----------------------------------------------------------------------------
(* The invariant, and what follows from it.                                *)

LEMMA InitIInv ==
    ASSUME Init
    PROVE  IInv
  <1>1. /\ hub = [u \in Users |-> [p \in Platforms |-> None]]
        /\ job = [s \in Senders |-> <<>>] /\ guard = [s \in Senders |-> None]
        /\ targets = [s \in Senders |-> <<>>]
    BY DEF Init
  <1>2. \A S : <<>> \in Seq(S)
    BY SMTT(30)
  <1>3. DOMAIN <<>> = {}
    BY SMTT(30)
  <1>4. TypeOK
    BY <1>2 DEF Init, TypeOK, State
  <1>5. HubInPlace
    BY <1>1 DEF HubInPlace
  <1>6. GuardedWrites
    BY <1>1, <1>3 DEF GuardedWrites
  <1> QED BY <1>4, <1>5, <1>6 DEF IInv

\* Whatever connections come and go and whatever is written to them, the state
\* has its type, the hub holds connections in their own places that have not
\* ended, and a sender's guard covers the clients it has yet to write to.
THEOREM InductiveInvariant == Spec => []IInv
  <1>1. ASSUME IInv, [Next]_vars PROVE IInv'
    <2>1. CASE UNCHANGED vars
      <3>1. UNCHANGED <<hub, st, owner, plat, sock, chan, job, guard, targets>>
        BY <2>1 DEF vars, connVars, sendVars
      <3> QED BY SMTT(30), <1>1, <3>1 DEF IInv, TypeOK, HubInPlace, GuardedWrites, Clients
    <2>2. ASSUME NEW c \in Conns, Connection(c) PROVE IInv'
      BY <1>1, <2>2, ArriveKeeps, RegisterKeeps, ReceiveKeeps, EndKeeps, KnockOffKeeps,
         UnregisterKeeps, RemoveEntryKeeps, SocketKeeps DEF Connection
    <2> QED
      BY <1>1, <2>1, <2>2, ManagerTakesKeeps, PushSingleKeeps, PushGroupKeeps, VisitsKeeps,
         SendsKeeps DEF Next
  <1> QED BY <1>1, InitIInv, PTL DEF Spec

\* A connection that has ended is not in the hub: knocked off or unregistered,
\* whatever else is registered and unregistered meanwhile.
THEOREM HubHasNoGhost == Spec => []NoGhostClient
  <1>1. IInv => NoGhostClient
    BY DEF IInv, HubInPlace, NoGhostClient
  <1> QED BY <1>1, InductiveInvariant, PTL

\* The clients a sender has yet to write to are in the hub: the guard it keeps
\* across its writes lets no registration in between.
THEOREM WritesGoToHub == Spec => []TargetsRegistered
  <1>1. IInv => TargetsRegistered
    BY DEF IInv, GuardedWrites, TargetsRegistered
  <1> QED BY <1>1, InductiveInvariant, PTL
-----------------------------------------------------------------------------
(* Senders and dropped connections get to their end.                       *)

\* With more workers than connections, a sender waits for nothing but the peer
\* it writes to, whose connection is open: no lock is held for another lock,
\* and the tasks that wait for the shard leave a worker to the sender.
THEOREM SendersWaitForPeers ==
    ASSUME IsFiniteSet(Conns), Cardinality(Conns) < Workers
    PROVE  Spec => []WaitsForPeerOnly
  <1>1. ASSUME IInv, NEW s \in Senders, job[s] # <<>>, guard[s] # None
        PROVE  /\ targets[s] # <<>> /\ st[Head(targets[s])] # "closed"
               /\ Cardinality(Blocked) < Workers
    <2>1. targets[s] # <<>> /\ targets[s] \in Seq(Conns) /\ guard[s] \in Users
      BY <1>1 DEF IInv, GuardedWrites, TypeOK
    <2>2. 1 \in DOMAIN targets[s] /\ Head(targets[s]) = targets[s][1]
      BY SMTT(30), <2>1
    <2>3. Head(targets[s]) \in Clients(guard[s])
      BY <1>1, <2>2 DEF IInv, GuardedWrites
    <2>4. st[Head(targets[s])] \in {"active", "unreg", "remove"}
      <3>1. PICK p \in Platforms : /\ Head(targets[s]) = hub[guard[s]][p]
                                  /\ Head(targets[s]) # None
        BY <2>3 DEF Clients
      <3>2. hub[guard[s]][p] # None
        BY <3>1
      <3>3. st[hub[guard[s]][p]] \in {"active", "unreg", "remove"}
        BY <1>1, <2>1, <3>2 DEF IInv, HubInPlace
      <3> QED BY <3>1, <3>3
    <2>5. Blocked \in SUBSET Conns
      BY DEF Blocked
    <2>6. /\ Cardinality(Blocked) <= Cardinality(Conns)
          /\ Cardinality(Blocked) \in Nat /\ Cardinality(Conns) \in Nat
      BY <2>5, FS_Subset, FS_CardinalityType
    <2>7. Cardinality(Blocked) < Workers
      BY SMTT(30), <2>6, GatewayAssumption
    <2> QED BY <2>1, <2>4, <2>7
  <1>2. IInv => WaitsForPeerOnly
    BY <1>1 DEF WaitsForPeerOnly
  <1> QED BY <1>2, InductiveInvariant, PTL

\* What a sender has to do only gets less, whatever else the gateway does: with
\* SendersWaitForPeers, SendersFinish needs only that its steps are taken.
THEOREM SendersGoForward == Spec => SenderGoesForward
  <1> DEFINE Forward(s) ==
               \/ UNCHANGED <<job[s], guard[s], targets[s]>>
               \/ job'[s] = Tail(job[s])
               \/ job'[s] = job[s] /\ guard[s] = None /\ guard'[s] # None
               \/ job'[s] = job[s] /\ guard'[s] = guard[s] /\ targets'[s] = Tail(targets[s])
  <1>1. ASSUME IInv, Next, NEW s \in Senders, job[s] # <<>> PROVE Forward(s)
    <2>1. /\ job \in [Senders -> Seq(Visit)] /\ guard \in [Senders -> Users \cup {None}]
          /\ targets \in [Senders -> Seq(Conns)]
      BY <1>1 DEF IInv, TypeOK
    <2>2. ASSUME NEW c \in Conns, Connection(c) PROVE UNCHANGED <<job, guard, targets>>
      BY <2>2 DEF Connection, Arrive, Register, Receive, ReceiveEnds, PingEnds, KnockOff,
         Unregister, RemoveEntry, SocketSlows, SocketResumes, SocketDies, sendVars
    <2>3. ASSUME NEW t \in Senders, job[t] = <<>>, NEW j, job' = [job EXCEPT ![t] = j],
                 UNCHANGED <<guard, targets>>
          PROVE  Forward(s)
      BY <1>1, <2>1, <2>3
    <2>4. ASSUME NEW t \in Senders, Visits(t) PROVE Forward(s)
      <3> DEFINE v == Head(job[t])
      <3>1. CASE job' = [job EXCEPT ![t] = Tail(job[t])] /\ UNCHANGED <<guard, targets>>
        BY <2>1, <3>1
      <3>2. ASSUME guard' = [guard EXCEPT ![t] = v.user], UNCHANGED job,
                   NEW q, targets' = [targets EXCEPT ![t] = q]
            PROVE  Forward(s)
        <4>1. guard[t] = None /\ job[t] # <<>> /\ job[t] \in Seq(Visit)
          BY <2>1, <2>4 DEF Visits
        <4>2. v \in Visit
          BY SMTT(30), <4>1
        <4>3. v.user \in Users
          BY SMTT(30), <4>2 DEF Visit
        <4>4. v.user # None
          BY <4>3, GatewayAssumption
        <4> HIDE DEF v
        <4> QED BY <2>1, <3>2, <4>1, <4>4
      <3> HIDE DEF Forward
      <3> QED BY <2>4, <3>1, <3>2 DEF Visits
    <2>5. ASSUME NEW t \in Senders, Sends(t) PROVE Forward(s)
      <3>1. targets' = [targets EXCEPT ![t] = Tail(targets[t])]
        BY <2>5 DEF Sends
      <3>2. \/ guard' = [guard EXCEPT ![t] = None] /\ job' = [job EXCEPT ![t] = Tail(job[t])]
            \/ UNCHANGED <<guard, job>>
        BY <2>5 DEF Sends, DropGuard
      <3> QED BY <2>1, <3>1, <3>2
    <2>6. CASE ManagerTakes
      BY <2>3, <2>6 DEF ManagerTakes, Senders
    <2>7. ASSUME NEW t \in Pushers, NEW u \in Users, NEW p \in Platforms,
                 \/ \E v \in Users : PushSingle(t, u, p, v)
                 \/ \E members \in Orders(Users) : PushGroup(t, u, p, members)
          PROVE  Forward(s)
      BY <2>3, <2>7 DEF PushSingle, PushGroup, Senders
    <2> QED BY <1>1, <2>2, <2>4, <2>5, <2>6, <2>7 DEF Next
  <1> DEFINE Moves == \A s \in Senders : job[s] # <<>> => Forward(s)
  <1>2. IInv /\ [Next]_vars => [Moves]_vars
    BY <1>1
  <1> QED BY <1>2, InductiveInvariant, PTL DEF Spec, SenderGoesForward

\* When one place of the hub changes, each holds what it held or the new client.
LEMMA PlaceBecomes ==
    ASSUME TypeOK, NEW u \in Users, NEW p \in Platforms, NEW x \in Conns \cup {None},
           hub' = [hub EXCEPT ![u][p] = x]
    PROVE  \A v \in Users, q \in Platforms : hub'[v][q] \in {hub[v][q], x}
  <1>1. hub \in [Users -> [Platforms -> Conns \cup {None}]]
    BY DEF TypeOK
  <1> QED BY SMTT(30), <1>1

\* A connection that was replaced in the hub, or whose entry was removed by the
\* end of another, stays out of it until it has ended.
THEOREM DroppedStayOut == Spec => DroppedStaysOut
  <1> DEFINE Out(c) == st[c] = "active" /\ ~InHub(c) => st'[c] # "active" \/ ~InHub(c)'
  <1>1. ASSUME IInv, Next, NEW c \in Conns, st[c] = "active", ~InHub(c)
        PROVE  ~InHub(c)'
    <2>1. /\ TypeOK /\ owner[c] \in Users /\ plat[c] \in Platforms /\ c # None
      BY <1>1, GatewayAssumption DEF IInv, TypeOK
    <2>2. UNCHANGED <<owner, plat>>
      BY <1>1 DEF Next, Connection, Arrive, Register, Receive, ReceiveEnds, PingEnds, KnockOff,
         Unregister, RemoveEntry, SocketSlows, SocketResumes, SocketDies, ManagerTakes,
         PushSingle, PushGroup, Visits, Sends, fixed, connVars
    <2>3. CASE hub' = hub
      BY <1>1, <2>2, <2>3 DEF InHub
    <2>4. ASSUME NEW d \in Conns, Register(d) PROVE ~InHub(c)'
      <3>1. d # c /\ hub' = [hub EXCEPT ![owner[d]][plat[d]] = d]
        BY <1>1, <2>4 DEF Register
      <3>2. owner[d] \in Users /\ plat[d] \in Platforms
        BY <2>1 DEF TypeOK
      <3>3. hub'[owner[c]][plat[c]] \in {hub[owner[c]][plat[c]], d}
        <4>1. d \in Conns \cup {None}
          OBVIOUS
        <4> QED BY <2>1, <3>1, <3>2, <4>1, PlaceBecomes
      <3> QED BY <1>1, <2>2, <3>1, <3>3 DEF InHub
    <2>5. ASSUME NEW d \in Conns, Unregister(d), hub' # hub PROVE ~InHub(c)'
      <3>1. hub' = [hub EXCEPT ![owner[d]][plat[d]] = None]
        BY <2>5 DEF Unregister
      <3>2. owner[d] \in Users /\ plat[d] \in Platforms
        BY <2>1 DEF TypeOK
      <3>3. hub'[owner[c]][plat[c]] \in {hub[owner[c]][plat[c]], None}
        <4>1. None \in Conns \cup {None}
          OBVIOUS
        <4> QED BY <2>1, <3>1, <3>2, <4>1, PlaceBecomes
      <3> QED BY <1>1, <2>1, <2>2, <3>3 DEF InHub
    <2>6. ASSUME NEW d \in Conns, RemoveEntry(d) PROVE ~InHub(c)'
      <3>1. hub' = [hub EXCEPT ![owner[d]] = [p \in Platforms |-> None]]
        BY <2>6 DEF RemoveEntry
      <3>2. hub'[owner[c]][plat[c]] \in {hub[owner[c]][plat[c]], None}
        BY <2>1, <3>1 DEF TypeOK
      <3> QED BY <1>1, <2>1, <2>2, <3>2 DEF InHub
    <2>7. \/ hub' = hub
          \/ \E d \in Conns : Register(d) \/ Unregister(d) \/ RemoveEntry(d)
      BY <1>1 DEF Next, Connection, Arrive, Receive, ReceiveEnds, PingEnds, KnockOff,
         SocketSlows, SocketResumes, SocketDies, ManagerTakes, PushSingle, PushGroup,
         Visits, Sends
    <2> QED BY <2>3, <2>4, <2>5, <2>6, <2>7
  <1> DEFINE Stay == \A c \in Conns : Out(c)
  <1>2. IInv /\ [Next]_vars => [Stay]_vars
    BY <1>1
  <1> QED BY <1>2, InductiveInvariant, PTL DEF Spec, DroppedStaysOut
=============================================================================
