------------------------------- MODULE Gateway -------------------------------
(***************************************************************************)
(* The WebSocket gateway (msg_gateway): the life of a connection, the hub  *)
(* that maps a user and a platform to the connection messages go to, and   *)
(* the tasks that write to the connections.                                *)
(*                                                                         *)
(* A connection is replaced by a newer one of the same user and platform:  *)
(* the hub drops the old Client, whose watch task then sees its channel    *)
(* closed and ends the connection without unregistering.  Every other end  *)
(* unregisters, by user and platform, in two separately locked steps.  A   *)
(* sender reads a hub entry under a guard it keeps across socket writes,   *)
(* so a slow socket delays whoever has to change that entry.               *)
(***************************************************************************)
EXTENDS Integers, Sequences, FiniteSets, Functions

CONSTANTS Users, Conns, None,
          Manager,  \* the task of the manager's loop
          Pushers,  \* the tasks of the pusher's calls; with the manager's among
                    \* them, the instance lets the two kinds take turns
          Workers,  \* worker threads of the runtime
          ChanCap   \* capacity of the manager's channel (1024)

ASSUME GatewayAssumption ==
    /\ None \notin Users \cup Conns /\ IsFiniteSet(Users)
    /\ Workers \in Nat \ {0} /\ ChanCap \in Nat \ {0}

Senders == {Manager} \cup Pushers

Platforms == {"Desktop", "Mobile"}

VARIABLES
    hub,      \* Manager.hub: user -> platform -> connection
    st,       \* where the task of each connection is in `websocket`
    owner,    \* the user of a connection
    plat,     \* the platform of a connection
    sock,     \* the peer's socket: ok, slow (a write waits), dead
    chan,     \* messages on their way to the manager
    job,      \* the hub entries a sender has yet to visit
    guard,    \* the entry a sender holds a guard of
    targets   \* the clients of that entry it has yet to write to

connVars == <<st, owner, plat, sock>>
sendVars == <<job, guard, targets>>
vars == <<hub, connVars, chan, sendVars>>

\* registering, running its tasks, in unregister before and after the entry
\* was found to hold one client, gone (or not yet there).
State == {"reg", "active", "unreg", "remove", "closed"}
Visit == [user : Users, plats : SUBSET Platforms]
Frame == [user : Users, plat : Platforms]

TypeOK ==
    /\ hub \in [Users -> [Platforms -> Conns \cup {None}]]
    /\ st \in [Conns -> State]
    /\ owner \in [Conns -> Users]
    /\ plat \in [Conns -> Platforms]
    /\ sock \in [Conns -> {"ok", "slow", "dead"}]
    /\ chan \in Seq(Frame)
    /\ job \in [Senders -> Seq(Visit)]
    /\ guard \in [Senders -> Users \cup {None}]
    /\ targets \in [Senders -> Seq(Conns)]

\* The orders of a set: of the members in a request, of a map's iterator.
Orders(S) == Bijection(1..Cardinality(S), S)

Clients(u) == {hub[u][p] : p \in Platforms} \ {None}

InHub(c) == hub[owner[c]][plat[c]] = c

\* Mutant: the entry is cloned and not guarded.
GuardedNever(u) == FALSE

\* A shard guard excludes register and unregister of the user.
Guarded(u) == \E s \in Senders : guard[s] = u

\* The DashMap lock blocks the thread: these tasks each occupy a worker.
Blocked == {c \in Conns : st[c] \in {"reg", "unreg", "remove"} /\ Guarded(owner[c])}

Init ==
    /\ hub = [u \in Users |-> [p \in Platforms |-> None]]
    /\ st = [c \in Conns |-> "closed"]
    /\ owner \in [Conns -> Users]
    /\ plat \in [Conns -> Platforms]
    /\ sock = [c \in Conns |-> "dead"]
    /\ chan = <<>>
    /\ job = [s \in Senders |-> <<>>]
    /\ guard = [s \in Senders |-> None]
    /\ targets = [s \in Senders |-> <<>>]
-----------------------------------------------------------------------------
(* The life of a connection.                                               *)

\* The user and the platform of a connection are in its URL and never change;
\* a connection that has ended may stand for a later one of the same kind.
fixed == <<owner, plat>>

\* The socket is dropped with the last reference to it.
Closed(c) ==
    /\ st' = [st EXCEPT ![c] = "closed"]
    /\ sock' = [sock EXCEPT ![c] = "dead"]

\* websocket_handler and websocket up to a verified token.  A connection that
\* is refused, for its rate or its token, leaves nothing behind.
Arrive(c) ==
    /\ st[c] = "closed"
    /\ st' = [st EXCEPT ![c] = "reg"]
    /\ sock' = [sock EXCEPT ![c] = "ok"]
    /\ UNCHANGED <<hub, fixed, chan, sendVars>>

\* register inserts the client, dropping the one in its place, and the three
\* tasks of the connection start.
Register(c) ==
    /\ st[c] = "reg"
    /\ ~Guarded(owner[c])
    /\ hub' = [hub EXCEPT ![owner[c]][plat[c]] = c]
    /\ st' = [st EXCEPT ![c] = "active"]
    /\ UNCHANGED <<fixed, sock, chan, sendVars>>

\* receive_task hands a frame to the manager; it waits while the channel is full.
Receive(c) ==
    /\ st[c] = "active"
    /\ sock[c] = "ok"
    /\ Len(chan) < ChanCap
    /\ chan' = Append(chan, [user |-> owner[c], plat |-> plat[c]])
    /\ UNCHANGED <<hub, connVars, sendVars>>

\* receive_task ends: the peer closes, or its socket fails.
ReceiveEnds(c) ==
    /\ st[c] = "active"
    /\ sock[c] \in {"ok", "dead"}
    /\ st' = [st EXCEPT ![c] = "unreg"]
    /\ UNCHANGED <<hub, fixed, sock, chan, sendVars>>

\* ping_task ends: the ping fails, or the peer was silent for MAX_IDLE_TIME.
PingEnds(c) ==
    /\ st[c] = "active"
    /\ sock[c] # "ok"
    /\ st' = [st EXCEPT ![c] = "unreg"]
    /\ UNCHANGED <<hub, fixed, sock, chan, sendVars>>

\* Mutant: the watch task fires for a client that is still registered.
ChannelClosedAlways(c) == TRUE

\* Mutant: the connection keeps a notify_sender of its own.
ChannelKeptOpen(c) == FALSE

\* notify_sender lives in the hub's Client only: it is gone with it.
ChannelClosed(c) == ~InHub(c)

\* watch_task: the client was dropped from the hub.  It sends a close frame,
\* and the connection ends without unregistering.
KnockOff(c) ==
    /\ st[c] = "active"
    /\ ChannelClosed(c)
    /\ sock[c] # "slow"
    /\ Closed(c)
    /\ UNCHANGED <<hub, fixed, chan, sendVars>>

\* The locked part of unregister: with one client left the whole entry is to
\* go, whoever that client is; otherwise the platform's client goes.
Unregister(c) ==
    /\ st[c] = "unreg"
    /\ ~Guarded(owner[c])
    /\ IF Cardinality(Clients(owner[c])) = 1
       THEN /\ st' = [st EXCEPT ![c] = "remove"]
            /\ UNCHANGED <<hub, sock>>
       ELSE /\ hub' = [hub EXCEPT ![owner[c]][plat[c]] = None]
            /\ Closed(c)
    /\ UNCHANGED <<fixed, chan, sendVars>>

\* The rest of unregister, under a lock of its own.
RemoveEntry(c) ==
    /\ st[c] = "remove"
    /\ ~Guarded(owner[c])
    /\ hub' = [hub EXCEPT ![owner[c]] = [p \in Platforms |-> None]]
    /\ Closed(c)
    /\ UNCHANGED <<fixed, chan, sendVars>>

\* The peer stops reading, reads again, or is lost.
SocketSlows(c) ==
    /\ st[c] # "closed" /\ sock[c] = "ok"
    /\ sock' = [sock EXCEPT ![c] = "slow"]
    /\ UNCHANGED <<hub, st, fixed, chan, sendVars>>

SocketResumes(c) ==
    /\ sock[c] = "slow"
    /\ sock' = [sock EXCEPT ![c] = "ok"]
    /\ UNCHANGED <<hub, st, fixed, chan, sendVars>>

SocketDies(c) ==
    /\ st[c] # "closed" /\ sock[c] # "dead"
    /\ sock' = [sock EXCEPT ![c] = "dead"]
    /\ UNCHANGED <<hub, st, fixed, chan, sendVars>>
-----------------------------------------------------------------------------
(* Writing to the connections.                                             *)

Other(p) == IF p = "Mobile" THEN "Desktop" ELSE "Mobile"

All(u) == [user |-> u, plats |-> Platforms]

\* send_to_self: the sender's client on the other platform.
Self(u, p) == [user |-> u, plats |-> {Other(p)}]

\* run takes the next frame.  process_message numbers it and passes it on (or
\* turns it into an error); either way the outcome goes to the sender's clients.
ManagerTakes ==
    /\ job[Manager] = <<>> /\ chan # <<>>
    /\ LET m == Head(chan) IN
         job' = [job EXCEPT ![Manager] = <<All(m.user), Self(m.user, m.plat)>>]
    /\ chan' = Tail(chan)
    /\ UNCHANGED <<hub, connVars, guard, targets>>

\* send_msg_to_user
PushSingle(s, sender, p, receiver) ==
    /\ job[s] = <<>>
    /\ job' = [job EXCEPT ![s] = <<All(receiver), Self(sender, p)>>]
    /\ UNCHANGED <<hub, connVars, chan, guard, targets>>

\* send_group_msg_to_user, with the members in the order of the request.
PushGroup(s, sender, p, members) ==
    /\ job[s] = <<>>
    /\ job' = [job EXCEPT ![s] =
                  <<Self(sender, p)>> \o [i \in DOMAIN members |-> All(members[i])]]
    /\ UNCHANGED <<hub, connVars, chan, guard, targets>>

\* A sender looks an entry up; it keeps the guard if there is a client to
\* write to, and writes in the order of the map's iterator.
Visits(s) ==
    /\ guard[s] = None
    /\ job[s] # <<>>
    /\ LET v == Head(job[s])
           cs == {hub[v.user][p] : p \in v.plats} \ {None}
       IN IF cs = {}
          THEN job' = [job EXCEPT ![s] = Tail(@)] /\ UNCHANGED <<guard, targets>>
          ELSE /\ guard' = [guard EXCEPT ![s] = v.user]
               /\ \E q \in Orders(cs) : targets' = [targets EXCEPT ![s] = q]
               /\ UNCHANGED job
    /\ UNCHANGED <<hub, connVars, chan>>

\* Mutant: the guard is kept when the last client was written to.
KeepGuard(s) == guard

\* The guard is dropped at the end of the visit.
DropGuard(s) == [guard EXCEPT ![s] = None]

\* send_binary waits for a slow socket; its errors are logged.  The sender
\* needs a worker that is not blocked on a shard lock.
Sends(s) ==
    /\ targets[s] # <<>>
    /\ sock[Head(targets[s])] # "slow"
    /\ Cardinality(Blocked) < Workers
    /\ targets' = [targets EXCEPT ![s] = Tail(@)]
    /\ IF Len(targets[s]) = 1
       THEN guard' = DropGuard(s) /\ job' = [job EXCEPT ![s] = Tail(@)]
       ELSE UNCHANGED <<guard, job>>
    /\ UNCHANGED <<hub, connVars, chan>>
-----------------------------------------------------------------------------
Connection(c) ==
    \/ Arrive(c)
    \/ Register(c)
    \/ Receive(c)
    \/ ReceiveEnds(c)
    \/ PingEnds(c)
    \/ KnockOff(c)
    \/ Unregister(c)
    \/ RemoveEntry(c)
    \/ SocketSlows(c)
    \/ SocketResumes(c)
    \/ SocketDies(c)

Next ==
    \/ \E c \in Conns : Connection(c)
    \/ ManagerTakes
    \/ \E s \in Pushers, u, v \in Users, p \in Platforms : PushSingle(s, u, p, v)
    \/ \E s \in Pushers, u \in Users, p \in Platforms, members \in Orders(Users) :
          PushGroup(s, u, p, members)
    \/ \E s \in Senders : Visits(s) \/ Sends(s)

Spec == Init /\ [][Next]_vars

\* The runtime polls every task that is ready and shard locks are granted in
\* the end.  A peer that stops reading reads again or is given up by TCP, and
\* the receive task of a lost connection gets the error.
Fairness ==
    /\ \A c \in Conns :
         /\ SF_vars(Register(c) \/ Unregister(c) \/ RemoveEntry(c) \/ KnockOff(c))
         /\ WF_vars(sock[c] = "dead" /\ ReceiveEnds(c))
         /\ WF_vars(sock[c] = "slow" /\ (SocketResumes(c) \/ SocketDies(c)))
    /\ WF_vars(ManagerTakes)
    /\ \A s \in Senders : WF_vars(Visits(s)) /\ SF_vars(Sends(s))

FairSpec == Spec /\ Fairness
-----------------------------------------------------------------------------
(* Properties.                                                             *)

\* A connection that has ended is never left in the hub, where messages would
\* be written to it for ever: whether it was knocked off or unregistered, and
\* whatever else was registered and unregistered meanwhile (ws_server.rs,
\* websocket; manager.rs, unregister).
NoGhostClient ==
    \A u \in Users, p \in Platforms :
      hub[u][p] # None => st[hub[u][p]] \in {"active", "unreg", "remove"}

\* While a sender writes, the clients it has yet to write to are the ones in
\* the hub: no registration gets between the lookup and the writes.
TargetsRegistered ==
    \A s \in Senders : \A i \in DOMAIN targets[s] :
      targets[s][i] \in Clients(guard[s])

\* Writes to a user leave gaps.  The shard lock admits readers while a writer
\* waits, so overlapping writes without end would keep a writer out.
Gaps == \A u \in Users : []<>~Guarded(u)

\* A connection that messages no longer reach is closed in the end: one that
\* dropped out of the hub does not stay open.
UnreachableCloses ==
    Gaps => \A c \in Conns : (st[c] = "active" /\ ~InHub(c)) ~> st[c] = "closed"

\* A frame handed to the manager is answered, and a push returns: no peer that
\* stops reading holds up a sender for ever, given more worker threads than
\* connections that register or end at the same time.
SendersFinish == \A s \in Senders : job[s] # <<>> ~> job[s] = <<>>
-----------------------------------------------------------------------------
(* The inductive invariant of GatewayProofs.                               *)

\* A client in the hub is in its own place and has not ended.
HubInPlace ==
    \A u \in Users, p \in Platforms : hub[u][p] # None =>
        /\ owner[hub[u][p]] = u /\ plat[hub[u][p]] = p
        /\ st[hub[u][p]] \in {"active", "unreg", "remove"}

\* A sender has a guard exactly while it has clients to write to, which are
\* those of an entry of its job.
GuardedWrites ==
    \A s \in Senders :
        /\ targets[s] # <<>> <=> guard[s] # None
        /\ guard[s] # None => job[s] # <<>>
        /\ \A i \in DOMAIN targets[s] : targets[s][i] \in Clients(guard[s])

IInv == TypeOK /\ HubInPlace /\ GuardedWrites
-----------------------------------------------------------------------------
(* What SendersFinish and UnreachableCloses rest on.                       *)

\* A sender with something to do waits for nothing but the peer it writes to:
\* that connection is open, so that it reads again or is given up, and a worker
\* is free for the write.
WaitsForPeerOnly ==
    \A s \in Senders : job[s] # <<>> =>
        \/ guard[s] = None
        \/ /\ targets[s] # <<>> /\ st[Head(targets[s])] # "closed"
           /\ Cardinality(Blocked) < Workers

\* Nothing adds to what a sender has to do: it stays, it is done with a client
\* or with an entry, or it begins with one.
SenderGoesForward ==
    [][\A s \in Senders : job[s] # <<>> =>
         \/ UNCHANGED <<job[s], guard[s], targets[s]>>
         \/ job'[s] = Tail(job[s])
         \/ job'[s] = job[s] /\ guard[s] = None /\ guard'[s] # None
         \/ job'[s] = job[s] /\ guard'[s] = guard[s] /\ targets'[s] = Tail(targets[s])]_vars

\* A connection that dropped out of the hub does not get back into it: nothing
\* but its end takes it out of the hands of its watch task.
DroppedStaysOut ==
    [][\A c \in Conns : st[c] = "active" /\ ~InHub(c) =>
         st'[c] # "active" \/ ~InHub(c)']_vars
=============================================================================
