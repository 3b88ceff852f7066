------------------------------- MODULE Groups -------------------------------
(***************************************************************************)
(* One group: its rows in Postgres (db/src/postgres/group.rs), the handlers *)
(* of the API that change them (api/src/handlers/groups), the set of member *)
(* ids in Redis, and the consumer, which takes the receivers of a group     *)
(* message from that set and changes it when it handles a group operation.  *)
(*                                                                          *)
(* A handler is a sequence of separate statements, so two requests, and the *)
(* consumer, interleave between them.  The rows follow the API at once; the *)
(* set follows partly from the API (new members) and partly, later, from    *)
(* the consumer (members gone).                                             *)
(*                                                                          *)
(* The group exists from the start: create_group_with_members, update_group *)
(* and delete_group read their row back as a GroupInfo, whose invite_       *)
(* permission is an i32 where the column is an enum, and return an error;   *)
(* the first and the last roll their transaction back.                      *)
(***************************************************************************)
EXTENDS Integers, Sequences

CONSTANTS Users,
          Handlers,   \* API requests in progress at the same time
          Mixes,      \* sets of operations; a behaviour requests those of one
          Faults,     \* whether requests may be cut off and Redis may be lost
          MaxReq      \* bound of the model: requests and chat messages

ASSUME GroupsAssumption ==
    /\ Faults \in BOOLEAN /\ MaxReq \in Nat

VARIABLES
    role,     \* group_members: the role of each user, "None" without a row
    muted,    \* group_members.is_muted
    records,  \* group_mute_records: users with an unexpired record
    cache,    \* Redis: group_members_id:<group>
    req,      \* the requests in progress
    mix,      \* the operations requested, one of Mixes
    served,   \* requests so far
    topic,    \* messages of the group on their way to the consumer
    apart,    \* history: no two requests overlapped, none was cut off
    cons      \* get_members_id of the consumer: where it is, what it has read

rows == <<role, muted, records>>
load == <<mix, served>>
vars == <<rows, cache, req, load, topic, apart, cons>>

Roles == {"Owner", "Admin", "Member"}
Op == {"invite", "remove", "exit", "dismiss", "role", "mute", "unmute", "chat"}
Request == [op : Op, by : Users, t : Users, new : Roles,
            pc : {"check", "write", "second", "send"}]
NoRequest == [pc |-> "done"]
Message == [op : Op, by : Users, t : Users]
Reading == [pc : {"cache", "db", "save", "have"}, ids : SUBSET Users]

\* All but the requests.
StoresOK ==
    /\ role \in [Users -> Roles \cup {"None"}]
    /\ muted \subseteq Users /\ records \subseteq Users
    /\ cache \subseteq Users
    /\ mix \in Mixes /\ served \in 0..MaxReq
    /\ topic \in Seq(Message)
    /\ apart \in BOOLEAN
    /\ cons \in Reading

TypeOK == StoresOK /\ req \in [Handlers -> Request \cup {NoRequest}]

Members == {u \in Users : role[u] # "None"}

Start == [pc |-> "cache", ids |-> {}]

Init ==
    /\ role \in [Users -> {"Owner", "Admin", "Member", "None"}]
    /\ \E o \in Users : \A u \in Users : role[u] = "Owner" <=> u = o
    /\ muted = {} /\ records = {}
    /\ cache \in {{}, Members}
    /\ req = [h \in Handlers |-> NoRequest]
    /\ mix \in Mixes /\ served = 0 /\ topic = <<>> /\ apart = TRUE /\ cons = Start
-----------------------------------------------------------------------------
(* The permission checks compare roles as text.                            *)

TextRank == [Admin |-> 1, Member |-> 2, Owner |-> 3, None |-> 4]

TextLe(a, b) == TextRank[a] <= TextRank[b]

\* group.rs invite_new_members; invite_permission keeps its default 'Admin'.
MayInvite(by) == role[by] # "None" /\ TextLe(role[by], "Admin")

AdminOrOwner(by) == role[by] \in {"Admin", "Owner"}

\* Mutant: an Admin may hand out any role.
MayChangeToAny(by, new) == role[by] \in {"Owner", "Admin"}

MayChange(by, new) == role[by] = "Owner" \/ (role[by] = "Admin" /\ new # "Owner")

MayMute(by, t) ==
    /\ AdminOrOwner(by)
    /\ role[t] # "None"
    /\ ~(TextLe(role[t], role[by]) /\ role[t] # "Member")
-----------------------------------------------------------------------------
(* The requests.                                                           *)

FirstStep(op) ==
    IF op \in {"remove", "dismiss"} THEN "write"
    ELSE IF op = "chat" THEN "send" ELSE "check"

Begin(h, op, by, t, new) ==
    /\ req[h].pc = "done" /\ served < MaxReq
    /\ op \notin {"invite", "remove", "role", "mute", "unmute"} => t = by
    /\ op # "role" => new = "Member"
    /\ op = "chat" => role[by] # "None"
    /\ req' = [req EXCEPT ![h] = [op |-> op, by |-> by, t |-> t, new |-> new,
                                  pc |-> FirstStep(op)]]
    /\ served' = served + 1
    /\ apart' = (apart /\ \A g \in Handlers : req[g].pc = "done")
    /\ UNCHANGED <<rows, cache, mix, topic, cons>>

At(h, op, pc) == req[h].pc = pc /\ req[h].op = op

Goto(h, pc) == req' = [req EXCEPT ![h].pc = pc]

Done(h) == req' = [req EXCEPT ![h] = NoRequest]

\* The permission checks and exit_group's test for the owner.
Allowed(r) ==
    CASE r.op = "invite" -> MayInvite(r.by)
      [] r.op = "exit" -> role[r.by] # "Owner"
      [] r.op = "role" -> MayChange(r.by, r.new)
      [] r.op = "mute" -> MayMute(r.by, r.t)
      [] r.op = "unmute" -> AdminOrOwner(r.by)

Check(h) ==
    /\ req[h].pc = "check"
    /\ IF Allowed(req[h]) THEN Goto(h, "write") ELSE Done(h)
    /\ UNCHANGED <<rows, cache, load, topic, apart, cons>>

\* INSERT ... ON CONFLICT DO NOTHING
InviteWrite(h) ==
    /\ At(h, "invite", "write") /\ Goto(h, "second")
    /\ role' = [role EXCEPT ![req[h].t] = IF @ = "None" THEN "Member" ELSE @]
    /\ UNCHANGED <<muted, records, cache, load, topic, apart, cons>>

\* save_group_members_id: SADD of each id.
SaveMembers(ids) == cache \cup ids

InviteCache(h) ==
    /\ At(h, "invite", "second") /\ Goto(h, "send")
    /\ cache' = SaveMembers({req[h].t})
    /\ UNCHANGED <<rows, load, topic, apart, cons>>

\* Deleting a member's row deletes its mute records by CASCADE.
Delete(u) ==
    /\ role' = [role EXCEPT ![u] = "None"]
    /\ muted' = muted \ {u} /\ records' = records \ {u}

\* The permission is part of the DELETE; with or without it the handler goes on.
RemoveWrite(h) ==
    /\ At(h, "remove", "write") /\ Goto(h, "send")
    /\ IF AdminOrOwner(req[h].by) THEN Delete(req[h].t) ELSE UNCHANGED rows
    /\ UNCHANGED <<cache, load, topic, apart, cons>>

ExitWrite(h) ==
    /\ At(h, "exit", "write") /\ Goto(h, "send")
    /\ Delete(req[h].by)
    /\ UNCHANGED <<cache, load, topic, apart, cons>>

\* delete_group deletes the row, fails to read it back and rolls back.
DismissWrite(h) ==
    /\ At(h, "dismiss", "write") /\ Done(h)
    /\ UNCHANGED <<rows, cache, load, topic, apart, cons>>

RoleWrite(h) ==
    /\ At(h, "role", "write") /\ Done(h)
    /\ role' = [role EXCEPT ![req[h].t] = IF @ = "None" THEN @ ELSE req[h].new]
    /\ UNCHANGED <<muted, records, cache, load, topic, apart, cons>>

\* The foreign key refuses a record for a member who has gone.
MuteRecord(h) ==
    /\ At(h, "mute", "write")
    /\ IF role[req[h].t] = "None"
       THEN Done(h) /\ UNCHANGED records
       ELSE Goto(h, "second") /\ records' = records \cup {req[h].t}
    /\ UNCHANGED <<role, muted, cache, load, topic, apart, cons>>

MuteFlag(h) ==
    /\ At(h, "mute", "second") /\ Done(h)
    /\ muted' = muted \cup ({req[h].t} \cap Members)
    /\ UNCHANGED <<role, records, cache, load, topic, apart, cons>>

UnmuteRecord(h) ==
    /\ At(h, "unmute", "write") /\ Goto(h, "second")
    /\ records' = records \ {req[h].t}
    /\ UNCHANGED <<role, muted, cache, load, topic, apart, cons>>

\* Mutant: the flag of the operator is cleared.
ClearsOperator(r) == muted \ {r.by}

Clears(r) == muted \ {r.t}

UnmuteFlag(h) ==
    /\ At(h, "unmute", "second") /\ Done(h)
    /\ muted' = Clears(req[h])
    /\ UNCHANGED <<role, records, cache, load, topic, apart, cons>>

\* The message about the operation, or a chat message of a member.  (That of
\* mute is addressed to no group and reaches nobody: see Delivery.)
Send(h) ==
    /\ req[h].pc = "send" /\ Done(h)
    /\ topic' = Append(topic, [op |-> req[h].op, by |-> req[h].by, t |-> req[h].t])
    /\ UNCHANGED <<rows, cache, load, apart, cons>>

\* The server is stopped, or a statement, Redis or the chat service fails.
CutOff(h) ==
    /\ Faults /\ req[h].pc # "done" /\ Done(h) /\ apart' = FALSE
    /\ UNCHANGED <<rows, cache, load, topic, cons>>

RedisLoss ==
    /\ Faults /\ cache # {} /\ cache' = {}
    /\ UNCHANGED <<rows, req, load, topic, apart, cons>>
-----------------------------------------------------------------------------
(* The consumer: handle_group_seq for the first message of the topic.      *)

QueryCache ==
    /\ topic # <<>> /\ cons.pc = "cache"
    /\ cons' = [pc |-> IF cache = {} THEN "db" ELSE "have", ids |-> cache]
    /\ UNCHANGED <<rows, cache, req, load, topic, apart>>

QueryDb ==
    /\ cons.pc = "db"
    /\ cons' = [pc |-> "save", ids |-> Members]
    /\ UNCHANGED <<rows, cache, req, load, topic, apart>>

SaveCache ==
    /\ cons.pc = "save"
    /\ cache' = SaveMembers(cons.ids)
    /\ cons' = [cons EXCEPT !.pc = "have"]
    /\ UNCHANGED <<rows, req, load, topic, apart>>

\* Mutant: a member who leaves is kept in the set.
GoneOnRemove(m) == IF m.op = "remove" THEN {m.t} ELSE {}

\* The ids the message takes out of the set.
Gone(m) ==
    IF m.op = "exit" THEN {m.by} ELSE IF m.op = "remove" THEN {m.t} ELSE {}

UpdateCache ==
    /\ cons.pc = "have"
    /\ cache' = cache \ Gone(Head(topic))
    /\ topic' = Tail(topic) /\ cons' = Start
    /\ UNCHANGED <<rows, req, load, apart>>
-----------------------------------------------------------------------------
Step(h) ==
    \/ Check(h) \/ Send(h) \/ CutOff(h)
    \/ InviteWrite(h) \/ InviteCache(h) \/ RemoveWrite(h) \/ ExitWrite(h)
    \/ DismissWrite(h) \/ RoleWrite(h)
    \/ MuteRecord(h) \/ MuteFlag(h) \/ UnmuteRecord(h) \/ UnmuteFlag(h)

Quiet == topic = <<>> /\ \A h \in Handlers : req[h].pc = "done"

\* No request and no message: the servers wait.
Idle == Quiet /\ UNCHANGED vars

Next ==
    \/ \E h \in Handlers, op \in Op \cap mix, by, t \in Users, new \in Roles :
          Begin(h, op, by, t, new)
    \/ \E h \in Handlers : Step(h)
    \/ QueryCache \/ QueryDb \/ SaveCache \/ UpdateCache
    \/ RedisLoss \/ Idle

Spec == Init /\ [][Next]_vars
-----------------------------------------------------------------------------
(* Properties.                                                             *)

\* When requests come one at a time and none is cut off, the consumer sends
\* nothing to former members once it has caught up: what is in the Redis set
\* has a row, although the set is filled by invite_new_members and by the
\* consumer's own reading of the rows, and emptied only by messages.
NoFormerMember == apart /\ Quiet => cache \subseteq Members

\* Under the same conditions a member's is_muted says whether there is a mute
\* record, although the two are written one after the other.
MutedHaveRecord == apart /\ Quiet => muted = records

\* No Owner, and no change to Owner that was allowed while there was one.
Ownerless ==
    /\ \A u \in Users : role[u] # "Owner"
    /\ \A h \in Handlers : ~(At(h, "role", "write") /\ req[h].new = "Owner")

\* A group that has lost its last Owner (remove_member, change_member_role)
\* has none ever after: neither the requests in progress nor later ones, of
\* Admins included, get past the check of change_member_role to make one.
OwnerlessForever == [][Ownerless => Ownerless']_vars

\* The order of the roles.
Rank == [Owner |-> 3, Admin |-> 2, Member |-> 1, None |-> 0]

\* A request that mute_group_member lets pass mutes a member of a lower role
\* than the operator's, when no other request changes the roles meanwhile.
MutesOnlyLower ==
    \A h \in Handlers : apart /\ At(h, "mute", "write") =>
        Rank[role[req[h].t]] < Rank[role[req[h].by]]

\* The set in Redis only saves queries: when it answers, it answers what the
\* rows would.
CacheAnswersLikeDb == apart /\ Quiet /\ cache # {} => cache = Members
-----------------------------------------------------------------------------
(* Parts of the inductive invariant of GroupsProofs.                       *)

\* Requests that do not overlap: one is under way at most.
OneAtATime ==
    apart => \A g, h \in Handlers : req[g].pc # "done" /\ req[h].pc # "done" => g = h

\* A message, sent or about to be, will take the user out of the set.
Leaving(u) ==
    \/ \E i \in 1..Len(topic) : u \in Gone(topic[i])
    \/ \E h \in Handlers : req[h].pc = "send" /\ u \in Gone(req[h])

\* Who is in the set, or read by the consumer to be put there, is a member or
\* leaving; so is who was invited and is about to be put there.
CacheFollows ==
    /\ cons.pc # "cache" => topic # <<>>
    /\ apart =>
         /\ \A u \in cache : u \in Members \/ Leaving(u)
         /\ cons.pc = "save" => \A u \in cons.ids : u \in Members \/ Leaving(u)
         /\ \A h \in Handlers : At(h, "invite", "second") => req[h].t \in Members

\* The flag and the record of a member differ while a request is between the two.
FlagFollows ==
    apart =>
      /\ \A h \in Handlers :
           /\ At(h, "mute", "second") =>
                 records = muted \cup {req[h].t} /\ req[h].t \in Members
           /\ At(h, "unmute", "second") => records = muted \ {req[h].t}
      /\ (\A h \in Handlers : ~At(h, "mute", "second") /\ ~At(h, "unmute", "second")) =>
            muted = records
=============================================================================
