---------------------------- MODULE GroupsProofs ----------------------------
(***************************************************************************)
(* The group's rows, its Redis set and its consumer, and what its members  *)
(* put into it, for any users, number of requests at a time and            *)
(* operations.                                                             *)
(***************************************************************************)
EXTENDS GroupContent, TLAPS

\* Zenon is tried unless a leaf names Z3, which takes the arithmetic.
USE Zenon

AnyRequest == Request \cup ContentRequest \cup {NoRequest}

\* The request of h becomes r.
Becomes(h, r) == req' = [req EXCEPT ![h] = r]

\* Where a request is tells which kind it is of.
LEMMA KindByPlace ==
    ASSUME ContentTypeOK, NEW h \in Handlers
    PROVE  /\ req[h] \in AnyRequest
           /\ req[h].pc \in {"check", "write", "second", "send"} => req[h] \in Request
           /\ req[h].pc \in {"look", "store"} => req[h] \in ContentRequest
           /\ req[h].pc = "done" => req[h] = NoRequest
           /\ req[h].pc \in {"check", "write", "second", "send", "look", "store", "done"}
  BY SMTT(30) DEF ContentTypeOK, AnyRequest, Request, ContentRequest, NoRequest

\* Going on changes where a request is and nothing else of it.
LEMMA GoesOn ==
    ASSUME ContentTypeOK, NEW h \in Handlers, NEW pc, Goto(h, pc)
    PROVE  /\ Becomes(h, [req[h] EXCEPT !.pc = pc])
           /\ req[h] \in Request /\ pc \in {"check", "write", "second", "send"} =>
                [req[h] EXCEPT !.pc = pc] \in Request
           /\ req[h] \in ContentRequest /\ pc \in {"look", "store"} =>
                [req[h] EXCEPT !.pc = pc] \in ContentRequest
  BY DEF Goto, Becomes, Request, ContentRequest

\* A request is one of the requests after a step as before it.
LEMMA StaysRequests ==
    ASSUME ContentTypeOK, NEW h \in Handlers, NEW r \in AnyRequest, Becomes(h, r)
    PROVE  /\ req' \in [Handlers -> AnyRequest]
           /\ req'[h] = r
           /\ \A g \in Handlers : g # h => req'[g] = req[g]
  BY DEF ContentTypeOK, Becomes, AnyRequest

\* While requests come one at a time the others are done.
LEMMA OthersDone ==
    ASSUME GroupInv, NEW h \in Handlers, NEW r \in AnyRequest, Becomes(h, r),
           req[h].pc # "done", apart' => apart
    PROVE  /\ OneAtATime'
           /\ apart => \A g \in Handlers : g # h => req[g].pc = "done" /\ req'[g].pc = "done"
  BY SMTT(30), StaysRequests DEF GroupInv, OneAtATime

\* Who is leaving stays so until the message is handled.
LEMMA StillLeaving ==
    ASSUME GroupInv, NEW h \in Handlers, NEW r \in AnyRequest, Becomes(h, r),
           req[h].pc # "send", UNCHANGED topic, NEW u, Leaving(u)
    PROVE  Leaving(u)'
  BY StaysRequests DEF GroupInv, Leaving

\* A request that moves and leaves the stores alone.
LEMMA RequestMoves ==
    ASSUME GroupInv, NEW h \in Handlers, NEW r \in AnyRequest, Becomes(h, r),
           req[h].pc \notin {"second", "send"}, r.pc # "second",
           UNCHANGED <<rows, cache, topic, cons>>,
           apart' => apart,
           apart' /\ req[h].pc = "done" => \A g \in Handlers : req[g].pc = "done"
    PROVE  (OneAtATime /\ CacheFollows /\ FlagFollows)'
  <1>1. \A g \in Handlers : req'[g] = IF g = h THEN r ELSE req[g]
    BY StaysRequests DEF GroupInv
  <1>2. OneAtATime'
    BY <1>1 DEF GroupInv, OneAtATime
  <1>3. CacheFollows'
    <2>1. \A u : Leaving(u) => Leaving(u)'
      BY StillLeaving
    <2>2. Members' = Members
      BY DEF Members, rows
    <2> QED BY <1>1, <2>1, <2>2 DEF GroupInv, CacheFollows, At
  <1>4. FlagFollows'
    <2>1. Members' = Members
      BY DEF Members, rows
    <2> QED BY <1>1, <2>1 DEF GroupInv, FlagFollows, At, rows
  <1> QED BY <1>2, <1>3, <1>4

\* The group as it is at the start.
LEMMA InitGroupInv == ContentInit => GroupInv
  <1> SUFFICES ASSUME ContentInit PROVE GroupInv
    OBVIOUS
  <1> USE DEF ContentInit, Init
  <1>1. StoresOK
    <2>1. apart \in BOOLEAN
      OBVIOUS
    <2>2. 0 \in 0..MaxReq
      BY SMTT(30), GroupsAssumption
    <2> QED BY SMTT(30), <2>1, <2>2 DEF StoresOK, Roles, Members, Start, Reading
  <1>2. req \in [Handlers -> AnyRequest] /\ \A h \in Handlers : req[h].pc = "done"
    BY DEF AnyRequest, NoRequest
  <1>3. content \subseteq Item
    <2>1. 0 \in Id
      BY SMTT(30), GroupsAssumption DEF Id
    <2>2. \A op \in DOMAIN KindOf : KindOf[op] \in Kind
      BY SMTT(30) DEF KindOf, Kind
    <2>3. \A k \in Kind, u \in Users : New(0, k, u) \in Item
      BY <2>1 DEF New, Item
    <2> QED BY SMTT(30), <2>2, <2>3
  <1>4. cats \subseteq Id /\ category \subseteq Id
    BY SMTT(30), GroupsAssumption DEF Id
  <1>5. OneAtATime /\ FlagFollows /\ CacheFollows
    BY SMTT(30), <1>2 DEF OneAtATime, FlagFollows, CacheFollows, At, Start, Members
  <1> QED BY <1>1, <1>2, <1>3, <1>4, <1>5 DEF GroupInv, ContentTypeOK, AnyRequest

\* A request begins.
LEMMA BeginStep ==
    ASSUME GroupInv, UNCHANGED items, NEW h \in Handlers, NEW op \in Op,
           NEW by \in Users, NEW t \in Users, NEW new \in Roles,
           Begin(h, op, by, t, new)
    PROVE  GroupInv'
  <1> DEFINE r == [op |-> op, by |-> by, t |-> t, new |-> new, pc |-> FirstStep(op)]
  <1>1. r \in Request /\ r.pc # "second" /\ Becomes(h, r)
    BY DEF Begin, Becomes, Request, FirstStep
  <1> HIDE DEF r
  <1>2. ContentTypeOK
    BY DEF GroupInv
  <1>3. StoresOK'
    <2>1. apart' \in BOOLEAN
      BY DEF Begin
    <2>2. served' \in 0..MaxReq
      BY SMTT(30), <1>2, GroupsAssumption DEF Begin, ContentTypeOK, StoresOK
    <2> QED BY <1>2, <2>1, <2>2 DEF Begin, ContentTypeOK, StoresOK, rows
  <1>4. ContentTypeOK'
    BY <1>1, <1>2, <1>3, StaysRequests DEF ContentTypeOK, AnyRequest, items
  <1>5. (OneAtATime /\ CacheFollows /\ FlagFollows)'
    <2>1. /\ r \in AnyRequest /\ req[h].pc = "done"
          /\ UNCHANGED <<rows, cache, topic, cons>>
      BY <1>1 DEF Begin, AnyRequest
    <2>2. apart' => apart /\ \A g \in Handlers : req[g].pc = "done"
      BY DEF Begin
    <2> QED BY <1>1, <2>1, <2>2, RequestMoves
  <1> QED BY <1>4, <1>5 DEF GroupInv

\* A request of Groups moves to another place, or ends, and leaves the stores
\* alone.
LEMMA MovesOn ==
    ASSUME GroupInv, NEW h \in Handlers, NEW r \in AnyRequest, Becomes(h, r),
           req[h].pc \in {"check", "write", "look", "store"}, r.pc # "second",
           UNCHANGED <<rows, cache, load, topic, apart, cons>>
    PROVE  /\ StoresOK' /\ req' \in [Handlers -> AnyRequest]
           /\ (OneAtATime /\ CacheFollows /\ FlagFollows)'
  <1>1. ContentTypeOK
    BY DEF GroupInv
  <1>2. StoresOK'
    BY <1>1 DEF ContentTypeOK, StoresOK, rows, load
  <1>3. req' \in [Handlers -> AnyRequest]
    BY <1>1, StaysRequests
  <1>4. (OneAtATime /\ CacheFollows /\ FlagFollows)'
    BY RequestMoves
  <1> QED BY <1>2, <1>3, <1>4

\* The permission checks, and the write of a dismissal, which is rolled back.
LEMMA CheckStep ==
    ASSUME GroupInv, UNCHANGED items, NEW h \in Handlers, Check(h) \/ DismissWrite(h)
    PROVE  GroupInv'
  <1>1. ContentTypeOK
    BY DEF GroupInv
  <1>2. PICK r \in AnyRequest : Becomes(h, r) /\ r.pc # "second"
    <2>1. CASE Goto(h, "write") /\ req[h].pc = "check"
      <3> DEFINE r == [req[h] EXCEPT !.pc = "write"]
      <3>1. req[h] \in Request
        BY <1>1, <2>1, KindByPlace
      <3>2. Becomes(h, r) /\ r \in Request /\ r.pc # "second"
        BY <1>1, <2>1, <3>1, GoesOn DEF Request
      <3> HIDE DEF r
      <3> QED BY <3>2 DEF AnyRequest
    <2>2. CASE Done(h)
      <3>1. NoRequest \in AnyRequest /\ NoRequest.pc # "second" /\ Becomes(h, NoRequest)
        BY <2>2 DEF Done, Becomes, AnyRequest, NoRequest
      <3> QED BY <3>1
    <2> QED BY <2>1, <2>2 DEF Check, DismissWrite
  <1>3. /\ req[h].pc \in {"check", "write"}
        /\ UNCHANGED <<rows, cache, load, topic, apart, cons>>
    BY DEF Check, DismissWrite, At
  <1>4. StoresOK' /\ req' \in [Handlers -> AnyRequest] /\ (OneAtATime /\ CacheFollows /\ FlagFollows)'
    BY <1>2, <1>3, MovesOn
  <1> QED BY <1>1, <1>4 DEF GroupInv, ContentTypeOK, AnyRequest, items

\* A request of Groups is now at pc, or done, and the rest are where they were.
Moved(h, pc) ==
    /\ req[h] \in Request /\ req' \in [Handlers -> AnyRequest]
    /\ req'[h].pc = pc
    /\ pc # "done" =>
          req'[h].op = req[h].op /\ req'[h].by = req[h].by /\ req'[h].t = req[h].t
    /\ \A g \in Handlers : g # h => req'[g] = req[g]
    /\ OneAtATime'
    /\ apart' => \A g \in Handlers : g # h => req[g].pc = "done"

\* A request goes on.
LEMMA GoesTo ==
    ASSUME GroupInv, NEW h \in Handlers, NEW pc \in {"second", "send"}, Goto(h, pc),
           req[h].pc \in {"write", "second"}, UNCHANGED <<topic, apart>>
    PROVE  Moved(h, pc) /\ \A u : Leaving(u) => Leaving(u)'
  <1> DEFINE r == [req[h] EXCEPT !.pc = pc]
  <1>1. ContentTypeOK /\ req[h] \in Request
    BY KindByPlace DEF GroupInv
  <1>2. Becomes(h, r) /\ r \in AnyRequest
    BY <1>1, GoesOn DEF AnyRequest
  <1>3. r.pc = pc /\ r.op = req[h].op /\ r.by = req[h].by /\ r.t = req[h].t
    BY <1>1 DEF Request
  <1> HIDE DEF r
  <1>4. req' \in [Handlers -> AnyRequest] /\ req'[h] = r /\ \A g \in Handlers : g # h => req'[g] = req[g]
    BY <1>1, <1>2, StaysRequests
  <1>5. OneAtATime' /\ (apart => \A g \in Handlers : g # h => req[g].pc = "done")
    BY <1>2, OthersDone
  <1>6. \A u : Leaving(u) => Leaving(u)'
    BY <1>2, StillLeaving
  <1> QED BY <1>1, <1>3, <1>4, <1>5, <1>6 DEF Moved

\* A request ends.
LEMMA Ends ==
    ASSUME GroupInv, NEW h \in Handlers, Done(h),
           req[h].pc \in {"write", "second", "send"}, UNCHANGED apart
    PROVE  /\ Moved(h, "done")
           /\ req[h].pc # "send" /\ UNCHANGED topic => \A u : Leaving(u) => Leaving(u)'
  <1>1. ContentTypeOK /\ req[h] \in Request
    BY KindByPlace DEF GroupInv
  <1>2. Becomes(h, NoRequest) /\ NoRequest \in AnyRequest /\ NoRequest.pc = "done"
    BY DEF AnyRequest, Done, Becomes, NoRequest
  <1>3. req' \in [Handlers -> AnyRequest] /\ req'[h] = NoRequest /\ \A g \in Handlers : g # h => req'[g] = req[g]
    BY <1>1, <1>2, StaysRequests
  <1>4. OneAtATime' /\ (apart => \A g \in Handlers : g # h => req[g].pc = "done")
    BY <1>2, OthersDone
  <1>5. req[h].pc # "send" /\ UNCHANGED topic => \A u : Leaving(u) => Leaving(u)'
    BY <1>2, StillLeaving
  <1> QED BY <1>1, <1>2, <1>3, <1>4, <1>5 DEF Moved

\* Where the flags and the records differ, seen from the request under way.
Differ(h) ==
    /\ At(h, "mute", "second") => records = muted \cup {req[h].t} /\ req[h].t \in Members
    /\ At(h, "unmute", "second") => records = muted \ {req[h].t}
    /\ ~At(h, "mute", "second") /\ ~At(h, "unmute", "second") => muted = records

LEMMA FlagsBefore ==
    ASSUME GroupInv, NEW h \in Handlers, apart, req[h].pc # "done"
    PROVE  Differ(h)
  BY DEF GroupInv, OneAtATime, FlagFollows, Differ, At

\* What is left to show of a step of a request that writes to the rows or to the
\* set: who is no longer a member is leaving, and who is added to the set is one.
LEMMA WritesKeep ==
    ASSUME GroupInv, UNCHANGED <<items, topic, apart, cons>>, StoresOK',
           NEW h \in Handlers, NEW pc \in {"second", "send", "done"}, Moved(h, pc),
           \A u : Leaving(u) => Leaving(u)',
           \A u \in Members : u \in Members' \/ Leaving(u)',
           apart => \A u \in cache' : u \in cache \/ u \in Members',
           apart => Differ(h)',
           At(h, "invite", "second")' => req[h].t \in Members'
    PROVE  GroupInv'
  <1>1. ContentTypeOK'
    BY DEF Moved, GroupInv, ContentTypeOK, AnyRequest, items
  <1>2. CacheFollows'
    BY DEF Moved, GroupInv, CacheFollows, At
  <1>3. FlagFollows'
    BY DEF Moved, FlagFollows, Differ, At
  <1> QED BY <1>1, <1>2, <1>3 DEF Moved, GroupInv

\* invite_new_members adds the row, then the id to the set.
LEMMA InviteStep ==
    ASSUME GroupInv, UNCHANGED items, NEW h \in Handlers, InviteWrite(h) \/ InviteCache(h)
    PROVE  GroupInv'
  <1>1. UNCHANGED <<muted, records, load, topic, apart, cons>> /\ req[h].op = "invite"
    BY DEF InviteWrite, InviteCache, At, rows
  <1>2. CASE InviteWrite(h)
    <2>1. Moved(h, "second") /\ (\A u : Leaving(u) => Leaving(u)') /\ (apart => Differ(h))
      BY <1>1, <1>2, GoesTo, FlagsBefore DEF InviteWrite, At
    <2>2. StoresOK' /\ Members \subseteq Members' /\ req[h].t \in Members'
      BY SMTT(30), <1>1, <1>2, <2>1 DEF InviteWrite, Moved, Request, GroupInv, ContentTypeOK, StoresOK,
            Roles, Members, load
    <2>3. cache' = cache /\ (apart => Differ(h)')
      BY <1>1, <1>2, <2>1 DEF InviteWrite, Moved, Differ, At
    <2> QED BY <1>1, <2>1, <2>2, <2>3, WritesKeep
  <1>3. CASE InviteCache(h)
    <2>1. Moved(h, "send") /\ (\A u : Leaving(u) => Leaving(u)') /\ (apart => Differ(h))
      BY <1>1, <1>3, GoesTo, FlagsBefore DEF InviteCache, At
    <2>2. StoresOK' /\ Members' = Members /\ cache' = cache \cup {req[h].t}
      BY <1>1, <1>3, <2>1 DEF InviteCache, SaveMembers, Moved, Request, GroupInv, ContentTypeOK,
            StoresOK, Members, load, rows
    <2>3. /\ apart => Differ(h)' /\ req[h].t \in Members
          /\ ~At(h, "invite", "second")'
      BY <1>1, <1>3, <2>1 DEF InviteCache, GroupInv, CacheFollows, Moved, Differ, At
    <2> QED BY <1>1, <2>1, <2>2, <2>3, WritesKeep
  <1> QED BY <1>2, <1>3

\* remove_member and exit_group delete the row; the message is yet to be sent.
\* Without the permission remove_member deletes nothing and sends it as well.
LEMMA LeaveStep ==
    ASSUME GroupInv, UNCHANGED items, NEW h \in Handlers, RemoveWrite(h) \/ ExitWrite(h)
    PROVE  GroupInv'
  <1>1. /\ UNCHANGED <<cache, load, topic, apart, cons>>
        /\ Moved(h, "send") /\ (\A u : Leaving(u) => Leaving(u)') /\ (apart => Differ(h))
    BY GoesTo, FlagsBefore DEF RemoveWrite, ExitWrite, At
  <1>2. ~At(h, "mute", "second") /\ ~At(h, "unmute", "second") /\ ~At(h, "invite", "second")
    BY DEF RemoveWrite, ExitWrite, At
  <1>3. PICK v \in Users : (Delete(v) /\ v \in Gone(req'[h])) \/ UNCHANGED rows
    BY <1>1 DEF RemoveWrite, ExitWrite, At, Moved, Request, Gone
  <1>4. StoresOK' /\ (\A u \in Members : u \in Members' \/ u \in Gone(req'[h]))
    BY <1>1, <1>3 DEF Delete, GroupInv, ContentTypeOK, StoresOK, Members, rows, load
  <1>5. \A u \in Gone(req'[h]) : Leaving(u)'
    BY <1>1 DEF Moved, Leaving
  <1>6. (apart => Differ(h)') /\ ~At(h, "invite", "second")'
    <2>1. apart => muted' = records'
      BY <1>1, <1>2, <1>3 DEF Differ, Delete, rows
    <2>2. req'[h].pc # "second"
      BY <1>1 DEF Moved
    <2> QED BY <2>1, <2>2 DEF Differ, At
  <1> QED BY <1>1, <1>4, <1>5, <1>6, WritesKeep

\* change_member_role changes the role of a member.
LEMMA RoleStep ==
    ASSUME GroupInv, UNCHANGED items, NEW h \in Handlers, RoleWrite(h)
    PROVE  GroupInv'
  <1>1. /\ UNCHANGED <<muted, records, cache, load, topic, apart, cons>>
        /\ Moved(h, "done") /\ (\A u : Leaving(u) => Leaving(u)') /\ (apart => Differ(h))
    BY Ends, FlagsBefore DEF RoleWrite, At
  <1>2. StoresOK' /\ Members' = Members
    BY SMTT(30), <1>1 DEF RoleWrite, Moved, Request, GroupInv, ContentTypeOK, StoresOK, Roles, Members, load
  <1>3. (apart => Differ(h)') /\ ~At(h, "invite", "second")'
    BY <1>1 DEF RoleWrite, Moved, Differ, At
  <1> QED BY <1>1, <1>2, <1>3, WritesKeep

\* mute_group_member writes the record, then the flag; taking the mute back
\* deletes the record, then clears the flag.
LEMMA MuteStep ==
    ASSUME GroupInv, UNCHANGED items, NEW h \in Handlers,
           MuteRecord(h) \/ MuteFlag(h) \/ UnmuteRecord(h) \/ UnmuteFlag(h)
    PROVE  GroupInv'
  <1>1. UNCHANGED <<role, cache, load, topic, apart, cons>> /\ req[h].op \in {"mute", "unmute"}
    BY DEF MuteRecord, MuteFlag, UnmuteRecord, UnmuteFlag, At
  <1>2. PICK pc \in {"second", "done"} :
           /\ pc = "second" => Goto(h, "second") /\ req[h].pc = "write"
           /\ pc = "done" => Done(h) /\ req[h].pc \in {"write", "second"}
           /\ MuteRecord(h) => (pc = "second" <=> role[req[h].t] # "None")
           /\ UnmuteRecord(h) => pc = "second"
    BY DEF MuteRecord, MuteFlag, UnmuteRecord, UnmuteFlag, At
  <1>3. Moved(h, pc) /\ (\A u : Leaving(u) => Leaving(u)') /\ (apart => Differ(h))
    BY <1>1, <1>2, GoesTo, Ends, FlagsBefore
  <1>4. StoresOK' /\ Members' = Members
    BY SMTT(30), <1>1, <1>3 DEF MuteRecord, MuteFlag, UnmuteRecord, UnmuteFlag, At, Clears, Moved,
          Request, GroupInv, ContentTypeOK, StoresOK, Members, load
  <1>5. ~At(h, "invite", "second")'
    BY <1>1, <1>2, <1>3 DEF Moved, At
  <1>6. /\ req'[h].pc = pc /\ (pc = "second" => req'[h].op = req[h].op /\ req'[h].t = req[h].t)
        /\ role[req[h].t] # "None" => req[h].t \in Members
    BY <1>3 DEF Moved, Request, Members
  <1>7. apart => Differ(h)'
    <2>1. CASE MuteRecord(h)
      BY <1>2, <1>3, <1>4, <1>6, <2>1 DEF MuteRecord, Differ, At
    <2>2. CASE MuteFlag(h)
      BY <1>2, <1>3, <1>4, <1>6, <2>2 DEF MuteFlag, Differ, At
    <2>3. CASE UnmuteRecord(h)
      BY <1>2, <1>3, <1>6, <2>3 DEF UnmuteRecord, Differ, At
    <2>4. CASE UnmuteFlag(h)
      BY <1>2, <1>3, <1>6, <2>4 DEF UnmuteFlag, Clears, Differ, At
    <2> QED BY <2>1, <2>2, <2>3, <2>4
  <1> QED BY <1>1, <1>3, <1>4, <1>5, <1>7, WritesKeep

\* The message takes over from the request.
LEMMA SendStep ==
    ASSUME GroupInv, UNCHANGED items, NEW h \in Handlers, Send(h)
    PROVE  GroupInv'
  <1> DEFINE m == [op |-> req[h].op, by |-> req[h].by, t |-> req[h].t]
  <1>1. /\ UNCHANGED <<rows, cache, load, apart, cons>>
        /\ req[h].pc = "send" /\ Moved(h, "done") /\ (apart => Differ(h))
    BY Ends, FlagsBefore DEF Send
  <1>2. m \in Message /\ Gone(m) = Gone(req[h]) /\ topic' = Append(topic, m)
    BY <1>1 DEF Send, Moved, Request, Message, Gone
  <1> HIDE DEF m
  <1>3. /\ topic' \in Seq(Message) /\ topic' # <<>>
        /\ Len(topic') = Len(topic) + 1 /\ Len(topic) \in Nat
        /\ topic'[Len(topic')] = m /\ \A i \in 1..Len(topic) : topic'[i] = topic[i]
    BY SMTT(30), <1>2 DEF GroupInv, ContentTypeOK, StoresOK
  <1>4. ASSUME NEW u, Leaving(u) PROVE Leaving(u)'
    <2>1. CASE \E i \in 1..Len(topic) : u \in Gone(topic[i])
      BY SMTT(30), <1>3, <2>1 DEF Leaving
    <2>2. CASE u \in Gone(req[h])
      <3>1. u \in Gone(topic'[Len(topic')]) /\ Len(topic') \in 1..Len(topic')
        BY SMTT(30), <1>2, <1>3, <2>2
      <3> QED BY <3>1 DEF Leaving
    <2>3. CASE \E g \in Handlers : g # h /\ req[g].pc = "send" /\ u \in Gone(req[g])
      BY <1>1, <2>3 DEF Leaving, Moved
    <2> QED BY <1>4, <2>1, <2>2, <2>3 DEF Leaving
  <1>5. ContentTypeOK' /\ Members' = Members
    BY <1>1, <1>3 DEF Moved, GroupInv, ContentTypeOK, StoresOK, AnyRequest, items, load, rows, Members
  <1>6. CacheFollows'
    BY <1>1, <1>3, <1>4, <1>5 DEF Moved, GroupInv, CacheFollows, At
  <1>7. FlagFollows'
    BY <1>1 DEF Moved, FlagFollows, Differ, At, rows
  <1> QED BY <1>1, <1>5, <1>6, <1>7 DEF Moved, GroupInv

\* A request is cut off, or Redis is lost: from then on requests are not apart,
\* or the set is empty.
LEMMA FaultStep ==
    ASSUME GroupInv, UNCHANGED items,
           RedisLoss \/ \E h \in Handlers : CutOff(h)
    PROVE  GroupInv'
  <1>1. CASE RedisLoss
    <2>1. cache' = {} /\ UNCHANGED <<rows, req, load, topic, apart, cons>>
      BY <1>1 DEF RedisLoss
    <2>2. ContentTypeOK'
      BY <2>1 DEF GroupInv, ContentTypeOK, StoresOK, rows, load, items
    <2>3. Members' = Members /\ \A u : Leaving(u) => Leaving(u)'
      BY <2>1 DEF Members, Leaving, rows
    <2>4. (OneAtATime /\ CacheFollows /\ FlagFollows)'
      BY <2>1, <2>3 DEF GroupInv, OneAtATime, CacheFollows, FlagFollows, At, rows
    <2> QED BY <2>2, <2>4 DEF GroupInv
  <1>2. ASSUME NEW h \in Handlers, CutOff(h) PROVE GroupInv'
    <2>1. apart' = FALSE /\ UNCHANGED <<rows, cache, load, topic, cons>> /\ Done(h)
      BY <1>2 DEF CutOff
    <2>2. req' \in [Handlers -> AnyRequest]
      BY <2>1, StaysRequests DEF Done, Becomes, GroupInv, AnyRequest
    <2>3. apart' \in BOOLEAN
      BY <2>1
    <2>4. ContentTypeOK'
      BY <2>1, <2>2, <2>3 DEF GroupInv, ContentTypeOK, StoresOK, AnyRequest, rows, load, items
    <2>5. (OneAtATime /\ CacheFollows /\ FlagFollows)'
      BY <2>1 DEF GroupInv, OneAtATime, CacheFollows, FlagFollows
    <2> QED BY <2>4, <2>5 DEF GroupInv
  <1> QED BY <1>1, <1>2

\* get_members_id: the set, the rows instead, and the rows into the set.
LEMMA ReadStep ==
    ASSUME GroupInv, UNCHANGED items, QueryCache \/ QueryDb \/ SaveCache
    PROVE  GroupInv'
  <1>1. UNCHANGED <<rows, req, load, topic, apart>>
    BY DEF QueryCache, QueryDb, SaveCache
  <1>2. ContentTypeOK'
    BY SMTT(30), <1>1 DEF QueryCache, QueryDb, SaveCache, SaveMembers, GroupInv, ContentTypeOK, StoresOK,
          Reading, Members, rows, load, items
  <1>3. Members' = Members /\ \A u : Leaving(u) => Leaving(u)'
    BY <1>1 DEF Members, Leaving, rows
  <1>4. CacheFollows'
    <2>1. CASE QueryCache
      BY SMTT(30), <1>1, <1>3, <2>1 DEF QueryCache, GroupInv, CacheFollows, At
    <2>2. CASE QueryDb
      BY SMTT(30), <1>1, <1>3, <2>2 DEF QueryDb, GroupInv, CacheFollows, At
    <2>3. CASE SaveCache
      BY SMTT(30), <1>1, <1>3, <2>3 DEF SaveCache, SaveMembers, GroupInv, CacheFollows, At,
            ContentTypeOK, StoresOK, Reading
    <2> QED BY <2>1, <2>2, <2>3
  <1>5. OneAtATime' /\ FlagFollows'
    BY <1>1, <1>3 DEF GroupInv, OneAtATime, FlagFollows, At, rows
  <1> QED BY <1>2, <1>4, <1>5 DEF GroupInv

\* The first message is handled: it takes out who has left.
LEMMA UpdateStep ==
    ASSUME GroupInv, UNCHANGED items, UpdateCache
    PROVE  GroupInv'
  <1>1. /\ UNCHANGED <<rows, req, load, apart>> /\ cons' = Start
        /\ cache' = cache \ Gone(Head(topic)) /\ topic' = Tail(topic)
    BY DEF UpdateCache
  <1>2. topic # <<>> /\ topic \in Seq(Message)
    BY DEF UpdateCache, GroupInv, CacheFollows, ContentTypeOK, StoresOK
  <1>3. /\ topic' \in Seq(Message) /\ Len(topic) \in Nat /\ Len(topic') = Len(topic) - 1
        /\ Head(topic) = topic[1]
        /\ \A i \in 1..Len(topic') : topic'[i] = topic[i + 1]
    BY SMTT(30), <1>1, <1>2
  <1>4. ContentTypeOK'
    BY <1>1, <1>3 DEF GroupInv, ContentTypeOK, StoresOK, Start, Reading, rows, load, items
  <1>5. Members' = Members
    BY <1>1 DEF Members, rows
  <1>6. ASSUME NEW u, Leaving(u), u \notin Gone(Head(topic)) PROVE Leaving(u)'
    <2>1. CASE \E i \in 1..Len(topic) : u \in Gone(topic[i])
      <3>1. PICK i \in 1..Len(topic) : u \in Gone(topic[i])
        BY <2>1
      <3>2. i # 1
        BY <1>3, <1>6, <3>1
      <3>3. i - 1 \in 1..Len(topic') /\ topic'[i - 1] = topic[i]
        BY SMTT(30), <1>3, <3>2
      <3> QED BY <3>1, <3>3 DEF Leaving
    <2>2. CASE \E h \in Handlers : req[h].pc = "send" /\ u \in Gone(req[h])
      BY <1>1, <2>2 DEF Leaving
    <2> QED BY <1>6, <2>1, <2>2 DEF Leaving
  <1>7. CacheFollows'
    BY <1>1, <1>5, <1>6 DEF GroupInv, CacheFollows, At, Start
  <1>8. OneAtATime' /\ FlagFollows'
    BY <1>1, <1>5 DEF GroupInv, OneAtATime, FlagFollows, At, rows
  <1> QED BY <1>4, <1>7, <1>8 DEF GroupInv

-----------------------------------------------------------------------------
(* The items.                                                              *)

\* What a step of h may do to the items: change nothing but the status of the
\* poll it closes, delete what it names if that is no poll, and add a new one.
ItemsAfter(h) ==
    /\ content' \subseteq Item
    /\ \A o, p \in content' : o.id = p.id => o = p
    /\ \A p \in content' :
         \/ \E o \in content : o.id = p.id /\ o.kind = p.kind
         \/ /\ req[h].pc = "store" /\ req[h].op \in Creating /\ p.id = req[h].obj
            /\ p.kind = "announcement" => req[h].op = "create_announcement"
    /\ \A o \in content :
         \/ \E p \in content' : /\ p.id = o.id /\ p.by = o.by /\ p.options = o.options
                                /\ \/ p.status = o.status
                                   \/ /\ req[h].pc = "store" /\ req[h].op = "close_poll"
                                      /\ o.id = req[h].obj /\ p.status = "closed"
         \/ /\ req[h].pc = "store" /\ req[h].op \in Ending
            /\ o.id = req[h].obj /\ o.kind # "poll"

\* A new row has an id of its own.
LEMMA InsertKeeps ==
    ASSUME ItemInv, NEW h \in Handlers, req[h].pc = "store", req[h].op \in Creating,
           NEW n \in Item, n.id = req[h].obj, content' = content \cup {n},
           n.kind = "announcement" => req[h].op = "create_announcement"
    PROVE  ItemsAfter(h)
  <1>1. content \subseteq Item /\ \A o, p \in content : o.id = p.id => o = p
    BY DEF ItemInv, ContentTypeOK, OneItemEach
  <1>2. \A o \in content : o.id # n.id
    BY DEF ItemInv, OneItemEach, IsCreating
  <1> QED BY <1>1, <1>2 DEF ItemsAfter

\* An UPDATE of the row the request names, which keeps its id.
LEMMA UpdateKeeps ==
    ASSUME ItemInv, NEW h \in Handlers, req[h].pc = "store", NEW new,
           content' = Updated(req[h], new),
           \A n \in new : \E o \in Named(req[h]) : n.id = o.id /\ n.kind = o.kind,
           \A n \in new : n \in Item,
           \A n, m \in new : n = m,
           \A o \in Named(req[h]) : \E n \in new :
              /\ n.id = o.id /\ n.by = o.by /\ n.options = o.options
              /\ n.status = o.status \/ (req[h].op = "close_poll" /\ n.status = "closed")
    PROVE  ItemsAfter(h)
  <1>1. content \subseteq Item /\ \A o, p \in content : o.id = p.id => o = p
    BY DEF ItemInv, ContentTypeOK, OneItemEach
  <1>2. content' = (content \ Named(req[h])) \cup new /\ Named(req[h]) \subseteq content
    BY DEF Updated, Named
  <1>3. \A o \in content : o.id = req[h].obj \/ o \notin Named(req[h])
    BY DEF Named
  <1>4. \A n \in new, p \in content \ Named(req[h]) : n.id # p.id
    BY SMTT(30), <1>1, <1>2
  <1> QED BY SMTT(30), <1>1, <1>2, <1>3, <1>4 DEF ItemsAfter

\* A DELETE of the row the request names.
LEMMA DeleteKeeps ==
    ASSUME ItemInv, NEW h \in Handlers, req[h].pc = "store",
           req[h].op \in {"delete_group_file", "delete_announcement"},
           content' = Deleted(req[h])
    PROVE  ItemsAfter(h)
  <1>1. content \subseteq Item /\ \A o, p \in content : o.id = p.id => o = p
    BY DEF ItemInv, ContentTypeOK, OneItemEach
  <1>2. \A o \in Named(req[h]) : o.id = req[h].obj /\ o.kind # "poll"
    BY SMTT(30) DEF Named, KindOf
  <1>3. req[h].op \in Ending
    BY DEF Ending
  <1> QED BY <1>1, <1>2, <1>3 DEF ItemsAfter, Deleted

\* A step that leaves the rows alone.
LEMMA NothingKeeps ==
    ASSUME ItemInv, NEW h \in Handlers, UNCHANGED content
    PROVE  ItemsAfter(h)
  BY DEF ItemInv, ContentTypeOK, OneItemEach, ItemsAfter

LEMMA ContentKeeps ==
    ASSUME ItemInv, NEW h \in Handlers, ContentStep(h)
    PROVE  ItemsAfter(h)
  <1>1. req[h].pc = "store" => req[h] \in ContentRequest
    BY KindByPlace DEF ItemInv
  <1>2. ASSUME UploadGroupFile(h) \/ CreatePoll(h) PROVE ItemsAfter(h)
    <2> DEFINE n == New(req[h].obj, KindOf[req[h].op], req[h].by)
    <2>1. /\ req[h].pc = "store" /\ req[h].op \in {"upload_group_file", "create_poll"}
          /\ content' = content \cup {n}
      BY <1>2 DEF UploadGroupFile, CreatePoll, StoresItems, Stores, Inserted
    <2>2. KindOf[req[h].op] \in Kind /\ KindOf[req[h].op] # "announcement"
      BY SMTT(30), <2>1 DEF KindOf, Kind
    <2>3. FALSE \in BOOLEAN
      OBVIOUS
    <2>4. n \in Item /\ n.id = req[h].obj /\ n.kind = KindOf[req[h].op]
      BY <1>1, <2>1, <2>2, <2>3 DEF New, Item, ContentRequest
    <2> HIDE DEF n
    <2> QED BY <2>1, <2>2, <2>4, InsertKeeps DEF Creating
  <1>3. ASSUME NEW pinned \in BOOLEAN, CreateAnnouncement(h, pinned) PROVE ItemsAfter(h)
    <2> DEFINE n == [New(req[h].obj, "announcement", req[h].by) EXCEPT !.pinned = pinned]
    <2>1. /\ req[h].pc = "store" /\ req[h].op = "create_announcement"
          /\ content' = content \cup {n}
      BY <1>3 DEF CreateAnnouncement, StoresItems, Stores
    <2>2. n \in Item /\ n.id = req[h].obj /\ n.kind = "announcement"
      BY <1>1, <2>1 DEF New, Item, ContentRequest, Kind
    <2> HIDE DEF n
    <2> QED BY <2>1, <2>2, InsertKeeps DEF Creating
  <1>4. \A o, p \in Named(req[h]) : o = p /\ o \in Item
    BY DEF Named, ItemInv, OneItemEach, ContentTypeOK
  <1>5. ASSUME NEW pinned \in BOOLEAN, UpdateFilePinStatus(h, pinned) \/ PinAnnouncement(h, pinned)
        PROVE  ItemsAfter(h)
    <2> DEFINE Made(o) == [o EXCEPT !.pinned = pinned]
               new == {Made(o) : o \in Named(req[h])}
    <2>1. req[h].pc = "store" /\ content' = Updated(req[h], new)
      BY <1>5 DEF UpdateFilePinStatus, PinAnnouncement, StoresItems, Stores, Pinned
    <2>2. \A o \in Item :
             /\ Made(o) \in Item /\ Made(o).id = o.id /\ Made(o).kind = o.kind
             /\ Made(o).by = o.by /\ Made(o).options = o.options /\ Made(o).status = o.status
      BY DEF Item
    <2> HIDE DEF Made
    <2>3. /\ \A n \in new : n \in Item
          /\ \A n \in new : \E o \in Named(req[h]) : n.id = o.id /\ n.kind = o.kind
          /\ \A n, m \in new : n = m
          /\ \A o \in Named(req[h]) : \E n \in new :
                n.id = o.id /\ n.by = o.by /\ n.options = o.options /\ n.status = o.status
      BY SMTT(30), <1>4, <2>2
    <2> HIDE DEF new
    <2> QED BY <2>1, <2>3, UpdateKeeps
  <1>6. ASSUME ClosePoll(h) PROVE ItemsAfter(h)
    <2> DEFINE Made(o) == [o EXCEPT !.status = "closed"]
               new == {Made(o) : o \in Named(req[h])}
    <2>1. req[h].pc = "store" /\ req[h].op = "close_poll" /\ content' = Updated(req[h], new)
      BY <1>6 DEF ClosePoll, StoresItems, Stores
    <2>2. \A o \in Item :
             /\ Made(o) \in Item /\ Made(o).id = o.id /\ Made(o).kind = o.kind
             /\ Made(o).by = o.by /\ Made(o).options = o.options /\ Made(o).status = "closed"
      BY DEF Item
    <2> HIDE DEF Made
    <2>3. /\ \A n \in new : n \in Item
          /\ \A n \in new : \E o \in Named(req[h]) : n.id = o.id /\ n.kind = o.kind
          /\ \A n, m \in new : n = m
          /\ \A o \in Named(req[h]) : \E n \in new :
                n.id = o.id /\ n.by = o.by /\ n.options = o.options /\ n.status = "closed"
      BY SMTT(30), <1>4, <2>2
    <2> HIDE DEF new
    <2> QED BY <2>1, <2>3, UpdateKeeps
  <1>7. ASSUME DeleteGroupFile(h) \/ DeleteAnnouncement(h) PROVE ItemsAfter(h)
    BY <1>7, DeleteKeeps DEF DeleteGroupFile, DeleteAnnouncement, StoresItems, Stores
  <1>8. ASSUME UNCHANGED content PROVE ItemsAfter(h)
    BY <1>8, NothingKeeps
  <1>9. VotePoll(h) => UNCHANGED content
    BY DEF VotePoll, Binds
  <1> QED BY <1>2, <1>3, <1>5, <1>6, <1>7, <1>8, <1>9 DEF ContentStep, Look, items,
          CreateGroupCategory, DeleteGroupCategory, UpdateGroupSettings, UpdateGroup,
          UpdateGroupCategory, UpdateMemberSettings

\* The content of the tables stays typed, and the group's category stays one
\* that exists: Postgres refuses the statement that would set another.
LEMMA TablesStep ==
    ASSUME ItemInv, NEW h \in Handlers, ContentStep(h)
    PROVE  /\ content' \subseteq Item /\ cats' \subseteq Id /\ category' \subseteq Id
           /\ CategoryExists'
  <1>1. content' \subseteq Item
    BY ContentKeeps DEF ItemsAfter
  <1>2. cats \subseteq Id /\ category \subseteq cats
    BY DEF ItemInv, ContentTypeOK, CategoryExists
  <1>3. CASE UNCHANGED <<cats, category>>
    BY <1>1, <1>2, <1>3 DEF CategoryExists
  <1>4. CASE CreateGroupCategory(h)
    <2>1. req[h] \in ContentRequest
      BY <1>4, KindByPlace DEF CreateGroupCategory, Stores, ItemInv
    <2> QED BY <1>1, <1>2, <1>4, <2>1 DEF CreateGroupCategory, CategoryExists, ContentRequest
  <1>5. CASE DeleteGroupCategory(h)
    BY <1>1, <1>2, <1>5 DEF DeleteGroupCategory, Cleared, CategoryExists
  <1>6. CASE UpdateGroupSettings(h)
    BY <1>1, <1>2, <1>6 DEF UpdateGroupSettings, Binds, CategoryExists
  <1> QED BY <1>3, <1>4, <1>5, <1>6 DEF ContentStep, Look, UploadGroupFile, DeleteGroupFile,
          DeleteAnnouncement, CreatePoll, ClosePoll, VotePoll, UpdateGroup,
          UpdateGroupCategory, UpdateMemberSettings, UpdateFilePinStatus, PinAnnouncement,
          CreateAnnouncement, StoresItems, items

\* A request about content moves from the first statement to the second or ends,
\* and leaves the group alone.
LEMMA ContentMoves ==
    ASSUME ContentTypeOK, NEW h \in Handlers, ContentStep(h)
    PROVE  /\ UNCHANGED <<rows, cache, load, topic, apart, cons>>
           /\ req[h] \in ContentRequest
           /\ \E r \in AnyRequest :
                /\ Becomes(h, r)
                /\ \/ r = NoRequest
                   \/ /\ r \in ContentRequest /\ r.pc = "store" /\ req[h].pc = "look"
                      /\ r.op = req[h].op /\ r.by = req[h].by /\ r.obj = req[h].obj
                      /\ r.op \in Ending => MayEnd(req[h])
                      /\ r.op = "create_announcement" => MayAnnounce(req[h])
  <1>1. NoRequest \in AnyRequest
    BY DEF AnyRequest
  <1>2. CASE Look(h)
    <2>1. UNCHANGED <<rows, cache, load, topic, apart, cons>> /\ req[h].pc = "look"
      BY <1>2 DEF Look
    <2>2. req[h] \in ContentRequest
      BY <2>1, KindByPlace
    <2>3. CASE Done(h)
      BY <1>1, <2>1, <2>2, <2>3 DEF Done, Becomes
    <2>4. CASE /\ Goto(h, "store")
               /\ \/ req[h].op \in Ending /\ MayEnd(req[h])
                  \/ req[h].op = "create_announcement" /\ MayAnnounce(req[h])
                  \/ req[h].op = "vote_poll" /\ MayVote(req[h])
      <3> DEFINE r == [req[h] EXCEPT !.pc = "store"]
      <3>1. Becomes(h, r) /\ r \in ContentRequest
        BY <2>2, <2>4, GoesOn
      <3>2. r.pc = "store" /\ r.op = req[h].op /\ r.by = req[h].by /\ r.obj = req[h].obj
        BY <2>2 DEF ContentRequest
      <3> HIDE DEF r
      <3>3. r \in AnyRequest
        BY <3>1 DEF AnyRequest
      <3>4. r.op \in Ending => MayEnd(req[h])
        BY <2>4, <3>2 DEF Ending
      <3>5. r.op = "create_announcement" => MayAnnounce(req[h])
        BY <2>4, <3>2 DEF Ending
      <3> QED BY <2>1, <2>2, <3>1, <3>2, <3>3, <3>4, <3>5
    <2> QED BY <1>2, <2>3, <2>4 DEF Look
  <1>3. CASE \E op \in ContentOp : Stores(h, op)
    BY <1>1, <1>3, KindByPlace DEF Stores, Done, Becomes
  <1>4. ASSUME ~Look(h) PROVE \E op \in ContentOp : Stores(h, op)
    BY <1>4 DEF ContentStep, Look, UploadGroupFile, DeleteGroupFile,
          DeleteAnnouncement, CreatePoll, ClosePoll, VotePoll, UpdateGroup,
          UpdateGroupCategory, UpdateMemberSettings, UpdateFilePinStatus, PinAnnouncement,
          CreateAnnouncement, CreateGroupCategory, DeleteGroupCategory, UpdateGroupSettings,
          StoresItems, ContentOp, KindOf, Rewording
  <1> QED BY <1>2, <1>3, <1>4
-----------------------------------------------------------------------------
(* Requests and steps on the content together.                             *)

\* A step on the content keeps the invariant.
LEMMA ContentStepIInv ==
    ASSUME IInv, NEW h \in Handlers, ContentStep(h)
    PROVE  IInv'
  <1>1. ContentTypeOK /\ ItemInv /\ GroupInv
    BY DEF IInv, ItemInv
  <1>2. /\ UNCHANGED <<rows, cache, load, topic, apart, cons>>
        /\ req[h] \in ContentRequest
    BY <1>1, ContentMoves
  <1>3. PICK r \in AnyRequest :
           /\ Becomes(h, r)
           /\ \/ r = NoRequest
              \/ /\ r \in ContentRequest /\ r.pc = "store" /\ req[h].pc = "look"
                 /\ r.op = req[h].op /\ r.by = req[h].by /\ r.obj = req[h].obj
    BY <1>1, ContentMoves
  <1>4. req[h].pc \in {"look", "store"} /\ r.pc # "second"
    BY SMTT(30), <1>2, <1>3 DEF ContentRequest, NoRequest
  <1>5. StoresOK' /\ req' \in [Handlers -> AnyRequest] /\ (OneAtATime /\ CacheFollows /\ FlagFollows)'
    BY <1>1, <1>2, <1>3, <1>4, MovesOn
  <1>6. /\ content' \subseteq Item /\ cats' \subseteq Id /\ category' \subseteq Id
        /\ CategoryExists' /\ ItemsAfter(h)
    BY <1>1, TablesStep, ContentKeeps
  <1>7. ContentTypeOK'
    BY <1>5, <1>6 DEF ContentTypeOK, AnyRequest
  <1>8. /\ \A g \in Handlers : IsCreating(g)' => IsCreating(g) /\ req'[g].obj = req[g].obj
        /\ IsCreating(h)' => req[h].pc = "look"
    BY SMTT(30), <1>1, <1>3, <1>4, StaysRequests DEF IsCreating, NoRequest
  <1>9. \A p \in content' : \/ \E o \in content : o.id = p.id
                            \/ req[h].pc = "store" /\ IsCreating(h) /\ p.id = req[h].obj
    BY <1>6 DEF ItemsAfter, IsCreating
  <1>10. served' = served
    BY <1>2 DEF load
  <1>11. \A p \in content' : p.id <= served'
    BY <1>1, <1>9, <1>10 DEF ItemInv, OneItemEach
  <1>12. \A g \in Handlers : IsCreating(g)' =>
            req'[g].obj <= served' /\ \A p \in content' : p.id # req'[g].obj
    BY SMTT(30), <1>1, <1>8, <1>9, <1>10 DEF ItemInv, OneItemEach
  <1>13. \A f, g \in Handlers : IsCreating(f)' /\ IsCreating(g)' /\ req'[f].obj = req'[g].obj => f = g
    BY <1>1, <1>8 DEF ItemInv, OneItemEach
  <1>14. OneItemEach'
    BY <1>6, <1>11, <1>12, <1>13 DEF OneItemEach, ItemsAfter
  <1> QED BY <1>5, <1>6, <1>7, <1>14 DEF IInv, GroupInv, ItemInv

\* A request about content begins.
LEMMA BeginContentStep ==
    ASSUME IInv, NEW h \in Handlers, NEW op \in ContentOp, NEW by \in Users,
           NEW obj \in Nameable(op), BeginContent(h, op, by, obj)
    PROVE  IInv'
  <1> DEFINE r == [op |-> op, by |-> by, obj |-> obj, pc |-> ContentFirst(op)]
  <1>1. ContentTypeOK /\ ItemInv /\ GroupInv /\ served \in 0..MaxReq /\ served < MaxReq /\ MaxReq \in Nat
    BY GroupsAssumption DEF IInv, ItemInv, GroupInv, ContentTypeOK, StoresOK, BeginContent
  <1>2. obj \in Id /\ (op \in Creating => obj = served + 1)
    <2>1. 0 \in Id /\ served + 1 \in Id /\ cats \subseteq Id /\ \A o \in content : o.id \in Id
      BY SMTT(30), <1>1 DEF Id, ContentTypeOK, Item
    <2>2. CASE op \in Creating \cup {"create_group_category"}
      <3>1. /\ op \notin DOMAIN KindOf \ Creating /\ op \notin Rewording
            /\ op \notin {"delete_group_category", "update_group_settings"}
        BY <2>2 DEF KindOf, Creating, Rewording
      <3>2. Nameable(op) = {served + 1}
        BY <2>2, <3>1 DEF Nameable
      <3> QED BY <2>1, <3>2
    <2>3. CASE op \in DOMAIN KindOf \ Creating
      <3>1. op \notin {"create_group_category", "delete_group_category", "update_group_settings"}
               /\ op \notin Rewording
        BY <2>3 DEF KindOf, Rewording
      <3>2. Nameable(op) = {o.id : o \in {i \in content : i.kind = KindOf[op]}}
        BY <2>3, <3>1 DEF Nameable
      <3> QED BY <2>1, <2>3, <3>2
    <2>4. CASE op \in {"delete_group_category", "update_group_settings"}
      BY <2>1, <2>4 DEF Nameable, KindOf, Creating
    <2>5. CASE op \in Rewording
      BY <2>1, <2>5 DEF Nameable, KindOf, Creating, Rewording
    <2> QED BY <2>2, <2>3, <2>4, <2>5 DEF ContentOp
  <1>3. r \in ContentRequest /\ r.op = op /\ r.obj = obj /\ r.pc \in {"look", "store"} /\ Becomes(h, r)
    BY <1>2 DEF BeginContent, Becomes, ContentRequest, ContentFirst
  <1> HIDE DEF r
  <1>4. /\ req[h].pc = "done" /\ served' = served + 1
        /\ UNCHANGED <<rows, cache, mix, topic, cons, content, category, cats>>
    BY DEF BeginContent, items
  <1>5. /\ apart' \in BOOLEAN
        /\ apart' => apart /\ \A g \in Handlers : req[g].pc = "done"
    BY DEF BeginContent
  <1>6. r \in AnyRequest /\ r.pc # "second"
    BY <1>3 DEF AnyRequest
  <1>7. ContentTypeOK' /\ req' \in [Handlers -> AnyRequest]
    <2>1. req' \in [Handlers -> AnyRequest]
      BY <1>1, <1>3, <1>6, StaysRequests
    <2>2. served' \in 0..MaxReq
      BY SMTT(30), <1>1, <1>4
    <2> QED BY <1>1, <1>4, <1>5, <2>1, <2>2 DEF ContentTypeOK, StoresOK, AnyRequest, rows
  <1>8. (OneAtATime /\ CacheFollows /\ FlagFollows)'
    BY <1>1, <1>3, <1>4, <1>5, <1>6, RequestMoves
  <1>9. \A g \in Handlers : IsCreating(g)' =>
           \/ g = h /\ req'[g].obj = served + 1
           \/ g # h /\ IsCreating(g) /\ req'[g].obj = req[g].obj
    BY <1>1, <1>2, <1>3, <1>6, StaysRequests DEF IsCreating
  <1>10. \A g \in Handlers : IsCreating(g) => req[g].obj <= served /\ req[g].obj \in Int
    <2>1. \A g \in Handlers : req[g] \in ContentRequest => req[g].obj \in Int
      BY SMTT(30), <1>1 DEF ContentRequest, Id
    <2>2. \A g \in Handlers : IsCreating(g) => req[g] \in ContentRequest
      BY <1>1, KindByPlace DEF IsCreating, Creating, Request, Op
    <2> QED BY <1>1, <2>1, <2>2 DEF ItemInv, OneItemEach
  <1>11. \A o \in content : o.id <= served /\ o.id \in Int
    BY SMTT(30), <1>1 DEF ItemInv, OneItemEach, ContentTypeOK, Item, Id
  <1>12. \A g \in Handlers : IsCreating(g)' =>
           req'[g].obj <= served' /\ \A o \in content' : o.id # req'[g].obj
    BY SMTT(30), <1>1, <1>4, <1>9, <1>10, <1>11 DEF ItemInv, OneItemEach
  <1>13. \A f, g \in Handlers : IsCreating(f)' /\ IsCreating(g)' /\ req'[f].obj = req'[g].obj => f = g
    BY SMTT(30), <1>1, <1>9, <1>10 DEF ItemInv, OneItemEach
  <1>14. \A o \in content' : o.id <= served'
    BY SMTT(30), <1>1, <1>4, <1>11
  <1>15. OneItemEach' /\ CategoryExists'
    BY <1>1, <1>4, <1>12, <1>13, <1>14 DEF OneItemEach, ItemInv, CategoryExists
  <1> QED BY <1>7, <1>8, <1>15 DEF IInv, GroupInv, ItemInv

\* A step of Groups leaves every request alone or makes it one of Groups.
LEMMA GroupRequests ==
    ASSUME ContentTypeOK, Next
    PROVE  \A g \in Handlers : req'[g] = req[g] \/ req'[g] \in Request \cup {NoRequest}
  <1>1. ASSUME NEW h \in Handlers, NEW r \in Request \cup {NoRequest}, Becomes(h, r)
        PROVE  \A g \in Handlers : req'[g] = req[g] \/ req'[g] \in Request \cup {NoRequest}
    BY <1>1 DEF Becomes, ContentTypeOK
  <1>2. ASSUME NEW h \in Handlers, NEW op \in Op, NEW by \in Users, NEW t \in Users,
               NEW new \in Roles, Begin(h, op, by, t, new)
        PROVE  \A g \in Handlers : req'[g] = req[g] \/ req'[g] \in Request \cup {NoRequest}
    <2> DEFINE r == [op |-> op, by |-> by, t |-> t, new |-> new, pc |-> FirstStep(op)]
    <2>1. r \in Request /\ Becomes(h, r)
      BY <1>2 DEF Begin, Becomes, Request, FirstStep
    <2> HIDE DEF r
    <2> QED BY <1>1, <2>1
  <1>3. ASSUME NEW h \in Handlers, Step(h)
        PROVE  \A g \in Handlers : req'[g] = req[g] \/ req'[g] \in Request \cup {NoRequest}
    <2>1. CASE Done(h)
      BY <1>1, <2>1 DEF Done, Becomes
    <2>2. ASSUME NEW pc \in {"write", "second", "send"}, Goto(h, pc),
                 req[h].pc \in {"check", "write", "second", "send"}
          PROVE  \A g \in Handlers : req'[g] = req[g] \/ req'[g] \in Request \cup {NoRequest}
      <3> DEFINE r == [req[h] EXCEPT !.pc = pc]
      <3>1. r \in Request /\ Becomes(h, r)
        BY <2>2, KindByPlace, GoesOn
      <3> HIDE DEF r
      <3> QED BY <1>1, <3>1
    <2> QED BY <1>3, <2>1, <2>2 DEF Step, Check, Send, CutOff, InviteWrite, InviteCache,
          RemoveWrite, ExitWrite, DismissWrite, RoleWrite, MuteRecord, MuteFlag, UnmuteRecord,
          UnmuteFlag, At
  <1> QED BY <1>2, <1>3 DEF Next, QueryCache, QueryDb, SaveCache, UpdateCache, RedisLoss,
          Idle, vars

\* A step of Groups keeps the invariant.
LEMMA GroupStepIInv ==
    ASSUME IInv, Next, UNCHANGED items
    PROVE  IInv'
  <1>1. ContentTypeOK /\ ItemInv /\ GroupInv
    BY DEF IInv, ItemInv
  <1>2. GroupInv'
    <2>1. ASSUME NEW h \in Handlers, Step(h) PROVE GroupInv'
      BY <1>1, <2>1, CheckStep, SendStep, FaultStep, InviteStep, LeaveStep, RoleStep,
         MuteStep DEF Step
    <2>2. CASE Idle
      BY <1>1, <2>2 DEF Idle, vars, rows, load, items, GroupInv, ContentTypeOK, StoresOK,
         OneAtATime, CacheFollows, FlagFollows, Leaving, Members, At
    <2> QED BY <1>1, <2>1, <2>2, BeginStep, ReadStep, UpdateStep, FaultStep DEF Next
  <1>3. UNCHANGED <<content, category, cats>>
    BY DEF items
  <1>4. served \in Int /\ served' \in Int /\ served <= served'
    <2>1. served' = served + 1 \/ served' = served
      BY DEF Next, Begin, Step, Check, Send, CutOff, InviteWrite, InviteCache, RemoveWrite,
            ExitWrite, DismissWrite, RoleWrite, MuteRecord, MuteFlag, UnmuteRecord, UnmuteFlag,
            QueryCache, QueryDb, SaveCache, UpdateCache, RedisLoss, Idle, vars, load
    <2>2. served \in Int
      BY SMTT(30), <1>1 DEF ContentTypeOK, StoresOK
    <2> QED BY SMTT(30), <2>1, <2>2
  <1>5. \A g \in Handlers : IsCreating(g)' => IsCreating(g) /\ req'[g].obj = req[g].obj
    BY SMTT(30), <1>1, GroupRequests DEF IsCreating, Request, Op, NoRequest, Creating
  <1>6. \A g \in Handlers : IsCreating(g) => req[g].obj \in Int
    <2>1. \A g \in Handlers : req[g] \in ContentRequest => req[g].obj \in Int
      BY SMTT(30), <1>1, GroupsAssumption DEF ContentRequest, Id
    <2>2. \A g \in Handlers : IsCreating(g) => req[g] \in ContentRequest
      BY <1>1, KindByPlace DEF IsCreating, Creating, Request, Op
    <2> QED BY <2>1, <2>2
  <1>7. \A o \in content : o.id \in Int
    BY SMTT(30), <1>1, GroupsAssumption DEF ContentTypeOK, Item, Id
  <1>8. \A o \in content' : o.id <= served'
    BY SMTT(30), <1>1, <1>3, <1>4, <1>7 DEF ItemInv, OneItemEach
  <1>9. \A g \in Handlers : IsCreating(g)' => req'[g].obj <= served'
    BY SMTT(30), <1>1, <1>4, <1>5, <1>6 DEF ItemInv, OneItemEach
  <1>10. OneItemEach' /\ CategoryExists'
    BY <1>1, <1>3, <1>5, <1>8, <1>9 DEF ItemInv, OneItemEach, CategoryExists
  <1> QED BY <1>2, <1>10 DEF IInv, GroupInv, ItemInv

LEMMA InitIInv == ContentInit => IInv
  <1> SUFFICES ASSUME ContentInit PROVE IInv
    OBVIOUS
  <1>1. GroupInv
    BY InitGroupInv
  <1>2. \A o, p \in content : o = p /\ o.id = 0
    <2>1. \A k, u : New(0, k, u).id = 0
      BY DEF New
    <2>2. content = {} \/ \E k, u : content = {New(0, k, u)}
      BY SMTT(30) DEF ContentInit
    <2> QED BY SMTT(30), <2>1, <2>2
  <1>3. \A h \in Handlers : ~IsCreating(h)
    BY DEF ContentInit, Init, IsCreating, NoRequest
  <1>4. served = 0 /\ category \subseteq cats
    BY SMTT(30) DEF ContentInit, Init
  <1>5. OneItemEach
    BY SMTT(30), <1>2, <1>3, <1>4 DEF OneItemEach
  <1> QED BY <1>1, <1>4, <1>5 DEF IInv, GroupInv, ItemInv, CategoryExists

LEMMA NextIInv == IInv /\ [ContentNext]_contentVars => IInv'
  <1> SUFFICES ASSUME IInv, [ContentNext]_contentVars PROVE IInv'
    OBVIOUS
  <1>1. CASE ContentNext
    BY <1>1, GroupStepIInv, BeginContentStep, ContentStepIInv DEF ContentNext
  <1>2. CASE UNCHANGED contentVars
    <2>1. /\ UNCHANGED <<role, muted, records, cache, req, mix, served, topic, apart, cons>>
          /\ UNCHANGED <<content, category, cats>>
      BY <1>2 DEF contentVars, vars, rows, load, items
    <2> QED BY <2>1 DEF IInv, GroupInv, ItemInv, ContentTypeOK, StoresOK, OneAtATime,
            CacheFollows, FlagFollows, Leaving, Members, At, OneItemEach, IsCreating, CategoryExists
  <1> QED BY <1>1, <1>2

\* The invariant holds of every behaviour of the group and its content.
THEOREM InductiveInvariant == ContentSpec => []IInv
  BY InitIInv, NextIInv, PTL DEF ContentSpec

-----------------------------------------------------------------------------
(* What the invariant gives.                                               *)

\* When requests come one at a time and the consumer has caught up, the Redis set
\* holds no former member: exit_group and remove_member leave that to a message.
THEOREM SetHoldsMembers == ContentSpec => []NoFormerMember
  <1>1. IInv => NoFormerMember
    BY SMTT(30) DEF IInv, GroupInv, CacheFollows, NoFormerMember, Quiet, Leaving
  <1> QED BY <1>1, InductiveInvariant, PTL

\* Under the same conditions is_muted says whether there is a mute record.
THEOREM FlagsMatchRecords == ContentSpec => []MutedHaveRecord
  <1>1. IInv => MutedHaveRecord
    BY DEF IInv, GroupInv, FlagFollows, MutedHaveRecord, Quiet, At
  <1> QED BY <1>1, InductiveInvariant, PTL

\* The group's category is one that exists, however delete_group_category and
\* the other requests about categories interleave.
THEOREM CategoryStays == ContentSpec => []CategoryExists
  <1>1. IInv => CategoryExists
    BY DEF IInv, ItemInv
  <1> QED BY <1>1, InductiveInvariant, PTL

-----------------------------------------------------------------------------
(* Roles.                                                                  *)

\* Past its check a request to change a role or to invite has been allowed, by
\* the roles of that moment.
LEMMA PastCheck ==
    ASSUME ContentTypeOK, ContentNext, NEW g \in Handlers, req'[g] # req[g],
           req'[g].op \in {"role", "invite"}, req'[g].pc \notin {"done", "check"}
    PROVE  /\ req[g] \in Request /\ req'[g].op = req[g].op /\ req'[g].new = req[g].new
           /\ \/ req[g].pc = "check" /\ Allowed(req[g])
              \/ req[g].pc \in {"write", "second"} /\ req'[g].pc # "write"
  <1>1. \A r : \A h \in Handlers : Becomes(h, r) => g = h /\ req'[g] = r
    BY DEF Becomes, ContentTypeOK
  <1>2. \A h \in Handlers : ~Done(h)
    <2>1. NoRequest.pc = "done"
      BY DEF NoRequest
    <2> QED BY <1>1, <2>1 DEF Done, Becomes
  <1>3. ASSUME NEW h \in Handlers, NEW pc, Goto(h, pc), req[h].pc \in {"check", "write", "second"}
        PROVE  /\ g = h /\ req[g] \in Request /\ req'[g].pc = pc
               /\ req'[g].op = req[g].op /\ req'[g].new = req[g].new
    <2>1. req[h] \in Request /\ Becomes(h, [req[h] EXCEPT !.pc = pc])
      BY <1>3, KindByPlace, GoesOn
    <2>2. g = h /\ req'[g] = [req[h] EXCEPT !.pc = pc]
      BY <1>1, <2>1
    <2> QED BY <2>1, <2>2 DEF Request
  <1>4. ASSUME NEW h \in Handlers, NEW op, NEW by, NEW t, NEW new, Begin(h, op, by, t, new)
        PROVE  FALSE
    BY SMTT(30), <1>1, <1>4 DEF Begin, Becomes, FirstStep
  <1>5. ASSUME NEW h \in Handlers, NEW op \in ContentOp, NEW by, NEW obj, BeginContent(h, op, by, obj)
        PROVE  FALSE
    <2>1. req'[g].op = op
      BY SMTT(30), <1>1, <1>5 DEF BeginContent, Becomes
    <2> QED BY <1>5, <2>1 DEF ContentOp, KindOf, Rewording
  <1>6. ASSUME NEW h \in Handlers, ContentStep(h) PROVE FALSE
    <2>1. req[h].op \in ContentOp /\ req'[g].op = req[h].op
      BY SMTT(30), <1>1, <1>2, <1>6, ContentMoves DEF ContentRequest, Done, Becomes
    <2> QED BY <2>1 DEF ContentOp, KindOf, Rewording
  <1>7. PICK h \in Handlers : Step(h)
    BY <1>4, <1>5, <1>6 DEF ContentNext, Next, QueryCache, QueryDb, SaveCache, UpdateCache,
          RedisLoss, Idle, vars
  <1>8. CASE Check(h)
    BY <1>2, <1>3, <1>8 DEF Check
  <1>9. ASSUME ~Check(h)
        PROVE  \E pc \in {"second", "send"} : Goto(h, pc) /\ req[h].pc \in {"write", "second"}
    BY <1>2, <1>7, <1>9 DEF Step, Send, CutOff, InviteWrite, InviteCache,
          RemoveWrite, ExitWrite, DismissWrite, RoleWrite, MuteRecord, MuteFlag, UnmuteRecord,
          UnmuteFlag, At
  <1> QED BY <1>3, <1>8, <1>9

\* How roles change.
LEMMA RolesChange ==
    ASSUME ContentTypeOK, ContentNext, NEW u \in Users, role'[u] # role[u]
    PROVE  \/ role'[u] = "None"
           \/ \E h \in Handlers :
                /\ req[h].pc = "write" /\ req[h] \in Request
                /\ \/ req[h].op = "invite" /\ role'[u] = "Member"
                   \/ req[h].op = "role" /\ role'[u] = req[h].new /\ role[u] # "None"
  <1>1. role \in [Users -> Roles \cup {"None"}]
    BY DEF ContentTypeOK, StoresOK
  <1>2. PICK h \in Handlers : InviteWrite(h) \/ RemoveWrite(h) \/ ExitWrite(h) \/ RoleWrite(h)
    <2>1. \A h \in Handlers : ContentStep(h) => UNCHANGED rows
      BY ContentMoves
    <2> QED BY <2>1 DEF ContentNext, Next, Begin, BeginContent, Step, Check, Send, CutOff,
          InviteCache, DismissWrite, MuteRecord, MuteFlag, UnmuteRecord, UnmuteFlag, QueryCache,
          QueryDb, SaveCache, UpdateCache, RedisLoss, Idle, vars, rows
  <1>3. req[h].pc = "write" /\ req[h] \in Request
    BY <1>2, KindByPlace DEF InviteWrite, RemoveWrite, ExitWrite, RoleWrite, At
  <1>4. CASE InviteWrite(h)
    BY <1>1, <1>3, <1>4 DEF InviteWrite, At, Request
  <1>5. CASE RoleWrite(h)
    BY <1>1, <1>3, <1>5 DEF RoleWrite, At, Request
  <1>6. CASE RemoveWrite(h) \/ ExitWrite(h)
    BY <1>1, <1>3, <1>6 DEF RemoveWrite, ExitWrite, Delete, Request, rows
  <1> QED BY <1>2, <1>4, <1>5, <1>6

\* Without an Owner no request gets past the check of change_member_role to make
\* one, whoever else changes roles meanwhile.
THEOREM OwnerlessStays == ContentSpec => OwnerlessForever
  <1>1. ASSUME IInv, Ownerless, ContentNext PROVE Ownerless'
    <2>1. ContentTypeOK
      BY <1>1 DEF IInv, ItemInv
    <2>2. \A u \in Users : role'[u] # "Owner"
      BY <1>1, <2>1, RolesChange DEF Ownerless, At
    <2>3. ASSUME NEW g \in Handlers, At(g, "role", "write")', req'[g].new = "Owner" PROVE FALSE
      <3>1. req'[g] # req[g]
        BY <1>1, <2>3 DEF Ownerless, At
      <3>2. req[g] \in Request /\ req[g].op = "role" /\ req[g].new = "Owner" /\ Allowed(req[g])
        BY <1>1, <2>1, <2>3, <3>1, PastCheck DEF At
      <3>3. role[req[g].by] = "Owner" /\ req[g].by \in Users
        BY <3>2 DEF Allowed, MayChange, Request
      <3> QED BY <1>1, <3>3 DEF Ownerless
    <2> QED BY <2>2, <2>3 DEF Ownerless
  <1>2. IInv /\ [ContentNext]_contentVars => [Ownerless => Ownerless']_vars
    BY <1>1 DEF contentVars
  <1> QED BY <1>2, InductiveInvariant, PTL DEF ContentSpec, OwnerlessForever

\* A poll is never deleted, never changes its options and never opens again,
\* whatever votes are under way.
THEOREM PollsStay == ContentSpec => PollsOnlyClose
  <1> DEFINE OnlyCloses == \A o \in content : o.kind = "poll" =>
                \E p \in content' : /\ p.id = o.id /\ p.options = o.options
                                    /\ o.status = "closed" => p.status = "closed"
  <1>1. UNCHANGED content => OnlyCloses
    OBVIOUS
  <1>2. ASSUME IInv, NEW h \in Handlers, ContentStep(h) PROVE OnlyCloses
    BY SMTT(30), <1>2, ContentKeeps DEF IInv, ItemsAfter
  <1>3. IInv /\ [ContentNext]_contentVars => [OnlyCloses]_contentVars
    BY <1>1, <1>2 DEF ContentNext, BeginContent, items
  <1> QED BY <1>3, InductiveInvariant, PTL DEF ContentSpec, PollsOnlyClose

\* Without Owner and Admin no check for one of them is passed.
LEMMA LeaderlessStep ==
    ASSUME IInv, Leaderless, ContentNext
    PROVE  Leaderless' /\ Members' \subseteq Members
  <1>1. ContentTypeOK /\ role \in [Users -> Roles \cup {"None"}]
    BY DEF IInv, ItemInv, ContentTypeOK, StoresOK
  <1>2. \A u \in Users : role'[u] = role[u] \/ role'[u] = "None"
    <2>1. \A h \in Handlers : req[h].pc = "write" => req[h].op \notin {"role", "invite"}
      BY DEF Leaderless
    <2> QED BY <1>1, <2>1, RolesChange
  <1>3. \A u \in Users : role[u] \in {"Member", "None"}
    <2>1. \A u \in Users : role[u] \notin {"Admin", "Owner"}
      BY DEF Leaderless, AdminOrOwner
    <2>2. \A u \in Users : role[u] \in Roles \cup {"None"}
      BY <1>1
    <2> QED BY <2>1, <2>2 DEF Roles
  <1>4. Members' \subseteq Members /\ \A u \in Users : ~AdminOrOwner(u)'
    BY <1>2, <1>3 DEF Members, AdminOrOwner
  <1>5. ASSUME NEW g \in Handlers, req'[g].pc # "done", req'[g].op \in {"role", "invite"}
        PROVE  req'[g].pc = "check"
    <2>1. CASE req'[g] = req[g]
      BY <1>5, <2>1 DEF Leaderless
    <2>2. CASE req'[g] # req[g] /\ req'[g].pc # "check"
      <3>1. /\ req[g] \in Request /\ req'[g].op = req[g].op
            /\ \/ req[g].pc = "check" /\ Allowed(req[g])
               \/ req[g].pc \in {"write", "second"}
        BY <1>1, <1>5, <2>2, PastCheck
      <3>2. req[g].pc = "check" /\ Allowed(req[g])
        BY <1>5, <3>1 DEF Leaderless
      <3>3. role[req[g].by] \in {"Member", "None"}
        BY <1>3, <3>1 DEF Request
      <3>4. CASE req[g].op = "role"
        BY <3>2, <3>3, <3>4 DEF Allowed, MayChange
      <3>5. CASE req[g].op = "invite"
        BY SMTT(30), <3>2, <3>3, <3>5 DEF Allowed, MayInvite, TextLe, TextRank
      <3> QED BY <1>5, <3>1, <3>4, <3>5
    <2> QED BY <2>1, <2>2
  <1>6. ASSUME NEW g \in Handlers, req'[g].pc # "done", req'[g].op = "create_announcement"
        PROVE  req'[g].pc = "look"
    <2>1. CASE req'[g] = req[g]
      BY <1>6, <2>1 DEF Leaderless
    <2>2. \A r : \A h \in Handlers :
            Becomes(h, r) /\ req'[g] # req[g] => g = h /\ req'[g] = r
      BY <1>1 DEF Becomes, ContentTypeOK
    <2>3. ASSUME Next, req'[g] # req[g] PROVE FALSE
      BY SMTT(30), <1>1, <1>6, <2>3, GroupRequests DEF Request, Op, NoRequest
    <2>4. ASSUME NEW h \in Handlers, NEW op, NEW by, NEW obj, BeginContent(h, op, by, obj),
                 req'[g] # req[g]
          PROVE  req'[g].pc = "look"
      BY SMTT(30), <1>6, <2>2, <2>4 DEF BeginContent, Becomes, ContentFirst
    <2>5. ASSUME NEW h \in Handlers, ContentStep(h), req'[g] # req[g] PROVE FALSE
      <3>1. PICK r \in AnyRequest :
              /\ Becomes(h, r)
              /\ r = NoRequest \/ (r.op = "create_announcement" => MayAnnounce(req[h]))
        BY <1>1, <2>5, ContentMoves
      <3>2. req[h] \in ContentRequest
        BY <1>1, <2>5, ContentMoves
      <3>3. ~MayAnnounce(req[h])
        BY <3>2 DEF Leaderless, MayAnnounce, ContentRequest
      <3>4. req'[g] = r /\ r # NoRequest
        BY SMTT(30), <1>6, <2>2, <2>5, <3>1 DEF NoRequest
      <3> QED BY <1>6, <3>1, <3>3, <3>4
    <2> QED BY <2>1, <2>3, <2>4, <2>5 DEF ContentNext
  <1> QED BY <1>4, <1>5, <1>6 DEF Leaderless

\* What former members left is not ended: who may end it is a member and either
\* leads the group or made it.
LEMMA AbandonedStep ==
    ASSUME IInv, Leaderless, ContentNext, NEW o \in content, Abandoned(o)
    PROVE  \E p \in content' : p.id = o.id /\ p.status = o.status /\ Abandoned(p)'
  <1>1. ContentTypeOK /\ ItemInv /\ Members' \subseteq Members
    BY LeaderlessStep DEF IInv, ItemInv
  <1>2. ASSUME NEW p, p.id = o.id, p.by = o.by,
               \A g \in Handlers : req'[g].pc = "store" /\ req'[g].op \in Ending =>
                   req'[g] = req[g] \/ req'[g].obj # o.id
        PROVE  Abandoned(p)'
    BY <1>1, <1>2 DEF Abandoned
  <1>3. ASSUME Next, UNCHANGED items PROVE Abandoned(o)'
    <2>1. \A g \in Handlers : req'[g].pc = "store" => req'[g] = req[g]
      BY SMTT(30), <1>1, <1>3, GroupRequests DEF Request, NoRequest
    <2> QED BY <1>2, <2>1
  <1>4. ASSUME NEW h \in Handlers, NEW op, NEW by, NEW obj, BeginContent(h, op, by, obj)
        PROVE  Abandoned(o)'
    <2>1. \A g \in Handlers : req'[g].pc = "store" /\ req'[g].op \in Ending => req'[g] = req[g]
      BY <1>1, <1>4 DEF BeginContent, ContentFirst, ContentTypeOK
    <2> QED BY <1>2, <2>1
  <1>5. ASSUME NEW h \in Handlers, ContentStep(h)
        PROVE  \E p \in content' : p.id = o.id /\ p.status = o.status /\ Abandoned(p)'
    <2>1. ItemsAfter(h)
      BY <1>1, <1>5, ContentKeeps
    <2>2. ~(req[h].pc = "store" /\ req[h].op \in Ending /\ req[h].obj = o.id)
      BY DEF Abandoned
    <2>3. PICK p \in content' : p.id = o.id /\ p.by = o.by /\ p.status = o.status
      BY <2>1, <2>2 DEF ItemsAfter, Ending
    <2>4. PICK r \in AnyRequest :
            /\ Becomes(h, r)
            /\ r = NoRequest \/ (r.obj = req[h].obj /\ (r.op \in Ending => MayEnd(req[h])))
      BY <1>1, <1>5, ContentMoves
    <2>5. req[h] \in ContentRequest
      BY <1>1, <1>5, ContentMoves
    <2>6. MayEnd(req[h]) => req[h].obj # o.id
      <3>1. req[h].by \in Users /\ ~AdminOrOwner(req[h].by)
        BY <2>5 DEF ContentRequest, Leaderless
      <3>2. ASSUME NEW q \in content, q.id = req[h].obj, q.by \in Members, req[h].obj = o.id PROVE FALSE
        BY <1>1, <3>2 DEF ItemInv, OneItemEach, Abandoned
      <3> QED BY <3>1, <3>2 DEF MayEnd, Named, Members
    <2>7. \A g \in Handlers : req'[g].pc = "store" /\ req'[g].op \in Ending =>
             req'[g] = req[g] \/ req'[g].obj # o.id
      BY SMTT(30), <1>1, <2>4, <2>6, StaysRequests DEF NoRequest
    <2> QED BY <1>2, <2>3, <2>7
  <1> QED BY <1>3, <1>4, <1>5 DEF ContentNext, BeginContent, items

\* A group without Owner and Admin stays so, nobody joins it, nothing is announced
\* in it and what former members left there stays as it is.
THEOREM LeaderlessStays == ContentSpec => LeaderlessFrozen
  <1> DEFINE Frozen ==
        Leaderless =>
           /\ Leaderless' /\ Members' \subseteq Members
           /\ \A o \in content : Abandoned(o) =>
                 \E p \in content' : p.id = o.id /\ p.status = o.status /\ Abandoned(p)'
           /\ \A p \in content' : p.kind = "announcement" => \E o \in content : p.id = o.id
  <1>1. ASSUME IInv, Leaderless, NEW h \in Handlers, ContentStep(h), NEW p \in content',
               p.kind = "announcement"
        PROVE  \E o \in content : p.id = o.id
    <2>1. ItemsAfter(h)
      BY <1>1, ContentKeeps DEF IInv
    <2> QED BY <1>1, <2>1 DEF ItemsAfter, Leaderless
  <1>2. ASSUME IInv, Leaderless, ContentNext, NEW p \in content', p.kind = "announcement"
        PROVE  \E o \in content : p.id = o.id
    BY <1>1, <1>2 DEF ContentNext, BeginContent, items
  <1>3. IInv /\ [ContentNext]_contentVars => [Frozen]_contentVars
    BY <1>2, LeaderlessStep, AbandonedStep
  <1> QED BY <1>3, InductiveInvariant, PTL DEF ContentSpec, LeaderlessFrozen
=============================================================================
