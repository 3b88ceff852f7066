---------------------------- MODULE GroupContent ----------------------------
(***************************************************************************)
(* What the members of the group of module Groups put into it: files,      *)
(* polls and announcements, and the category and settings of the group     *)
(* (db/src/postgres/group.rs, api/src/handlers/groups).  The rows refer to *)
(* the group but not to its members, so they outlive the membership of     *)
(* whoever made them.                                                      *)
(*                                                                         *)
(* Deleting, closing and announcing first look whether the user may, and   *)
(* write with a second statement; uploading, polling, pinning and the      *)
(* categories write at once.  The handlers run beside those of Groups, in  *)
(* the same req.  The message some of them send after the write has no     *)
(* receiver (see Delivery) and changes nothing here.                       *)
(*                                                                         *)
(* Names, texts and preferences are left out.  Postgres refuses a          *)
(* statement whose parameter has not the type of its column.               *)
(***************************************************************************)
EXTENDS Groups

VARIABLES
    content,   \* group_files, group_polls and group_announcements
    category,  \* groups.category: no id or one
    cats       \* the ids in group_categories

items == <<content, category, cats>>
contentVars == <<vars, items>>

\* The number of the request that makes a row stands for its nanoid.
Id == 0..MaxReq

Kind == {"file", "poll", "announcement"}

Item == [id : Id, kind : Kind, by : Users, pinned : BOOLEAN,
         status : {"active", "closed"}, options : {"created", "empty"}]

\* The operations on items, with the kind each is for.
KindOf ==
    [upload_group_file |-> "file", create_poll |-> "poll",
     create_announcement |-> "announcement",
     update_file_pin_status |-> "file", pin_announcement |-> "announcement",
     vote_poll |-> "poll", close_poll |-> "poll",
     delete_group_file |-> "file", delete_announcement |-> "announcement"]

Creating == {"upload_group_file", "create_poll", "create_announcement"}
Ending == {"close_poll", "delete_group_file", "delete_announcement"}
Rewording == {"update_group", "update_group_category", "update_member_settings"}

ContentOp ==
    DOMAIN KindOf \cup Rewording \cup
    {"create_group_category", "delete_group_category", "update_group_settings"}

ContentRequest == [op : ContentOp, by : Users, obj : Id, pc : {"look", "store"}]

ContentTypeOK ==
    /\ StoresOK
    /\ req \in [Handlers -> Request \cup ContentRequest \cup {NoRequest}]
    /\ content \subseteq Item
    /\ category \subseteq Id /\ cats \subseteq Id

New(id, kind, by) == [id |-> id, kind |-> kind, by |-> by, pinned |-> FALSE,
                      status |-> "active", options |-> "created"]

\* The group has been used for a while: where the requests are about items
\* there may be one, where they are about categories there is one.  Groups, and
\* the category of a group, stem from elsewhere: reading back the new row fails
\* in create_group_with_members, and update_group_settings is refused.  For
\* neither do the member ids in Redis matter.
ContentInit ==
    /\ Init
    /\ mix \cap ContentOp # {} => cache = {}
    /\ content \in {{}} \cup {{New(0, KindOf[op], u)} : op \in mix \cap DOMAIN KindOf, u \in Users}
    /\ cats = IF "delete_group_category" \in mix THEN {0} ELSE {}
    /\ category \in SUBSET cats

\* Mutant: Postgres converts the parameter.
AlwaysBinds(param, column) == TRUE

Binds(param, column) == param = column
-----------------------------------------------------------------------------
(* The requests.                                                           *)

\* The item a request names, in the table of its kind.
Named(r) == {o \in content : o.id = r.obj /\ o.kind = KindOf[r.op]}

\* What a request can name: a new id, an item, a category or nothing.
Nameable(op) ==
    CASE op \in Creating \cup {"create_group_category"} -> {served + 1}
      [] op \in DOMAIN KindOf \ Creating -> {o.id : o \in {i \in content : i.kind = KindOf[op]}}
      [] op \in {"delete_group_category", "update_group_settings"} -> cats
      [] op \in Rewording -> {0}

ContentFirst(op) ==
    IF op \in Ending \cup {"vote_poll", "create_announcement"} THEN "look" ELSE "store"

BeginContent(h, op, by, obj) ==
    /\ req[h].pc = "done" /\ served < MaxReq
    /\ req' = [req EXCEPT ![h] = [op |-> op, by |-> by, obj |-> obj,
                                  pc |-> ContentFirst(op)]]
    /\ served' = served + 1
    /\ apart' = (apart /\ \A g \in Handlers : req[g].pc = "done")
    /\ UNCHANGED <<rows, cache, mix, topic, cons, items>>

\* Mutant: whoever made it may, member or not.
EndsOwn(r) == \E o \in Named(r) : AdminOrOwner(r.by) \/ o.by = r.by

\* The join of the item with group_members, the same for the three tables.
MayEnd(r) ==
    \E o \in Named(r) : AdminOrOwner(r.by) \/ (role[r.by] # "None" /\ o.by = r.by)

MayAnnounce(r) == AdminOrOwner(r.by)

MayVote(r) == \E o \in Named(r) : o.status = "active"

\* The first statement of a request.
Look(h) ==
    /\ req[h].pc = "look"
    /\ LET r == req[h] IN
       IF \/ r.op \in Ending /\ MayEnd(r)
          \/ r.op = "create_announcement" /\ MayAnnounce(r)
          \/ r.op = "vote_poll" /\ MayVote(r)
       THEN Goto(h, "store") ELSE Done(h)
    /\ UNCHANGED <<rows, cache, load, topic, apart, cons, items>>

\* The last statement of a request.
Stores(h, op) ==
    /\ req[h].pc = "store" /\ req[h].op = op /\ Done(h)
    /\ UNCHANGED <<rows, cache, load, topic, apart, cons>>

StoresItems(h, op) == Stores(h, op) /\ UNCHANGED <<category, cats>>

Inserted(r) == content \cup {New(r.obj, KindOf[r.op], r.by)}

\* The rows after an UPDATE that makes those the request names into new.
Updated(r, new) == (content \ Named(r)) \cup new

Pinned(r, pinned) == Updated(r, {[o EXCEPT !.pinned = pinned] : o \in Named(r)})

\* A row that has gone since is no error for a DELETE.
Deleted(r) == content \ Named(r)

UploadGroupFile(h) ==
    StoresItems(h, "upload_group_file") /\ content' = Inserted(req[h])

UpdateFilePinStatus(h, pinned) ==
    StoresItems(h, "update_file_pin_status") /\ content' = Pinned(req[h], pinned)

DeleteGroupFile(h) ==
    StoresItems(h, "delete_group_file") /\ content' = Deleted(req[h])

\* The request says whether it is pinned.
CreateAnnouncement(h, pinned) ==
    /\ StoresItems(h, "create_announcement")
    /\ content' = content \cup
         {[New(req[h].obj, "announcement", req[h].by) EXCEPT !.pinned = pinned]}

PinAnnouncement(h, pinned) ==
    StoresItems(h, "pin_announcement") /\ content' = Pinned(req[h], pinned)

DeleteAnnouncement(h) ==
    StoresItems(h, "delete_announcement") /\ content' = Deleted(req[h])

CreatePoll(h) == StoresItems(h, "create_poll") /\ content' = Inserted(req[h])

ClosePoll(h) ==
    /\ StoresItems(h, "close_poll")
    /\ content' = Updated(req[h], {[o EXCEPT !.status = "closed"] : o \in Named(req[h])})

\* GroupPoll::from_row takes the JSONB options for a String and finds none to
\* count the vote in; what is left of them is bound as text.
VotePoll(h) ==
    /\ StoresItems(h, "vote_poll")
    /\ content' = IF Binds("text", "jsonb")
                  THEN Updated(req[h], {[o EXCEPT !.options = "empty"] : o \in Named(req[h])})
                  ELSE content

CreateGroupCategory(h) ==
    /\ Stores(h, "create_group_category")
    /\ cats' = cats \cup {req[h].obj}
    /\ UNCHANGED <<content, category>>

\* Mutant: groups that use the category keep it.
StillUsed(c) == category

\* UPDATE groups SET category = NULL WHERE category = $1
Cleared(c) == category \ {c}

\* Both statements are one transaction.
DeleteGroupCategory(h) ==
    /\ Stores(h, "delete_group_category")
    /\ category' = Cleared(req[h].obj)
    /\ cats' = cats \ {req[h].obj}
    /\ UNCHANGED content

\* invite_permission, an i32, is cast to group_role.
UpdateGroupSettings(h) ==
    /\ Stores(h, "update_group_settings")
    /\ category' = IF Binds("int4", "group_role") THEN {req[h].obj} ELSE category
    /\ UNCHANGED <<content, cats>>

\* These change names, texts and preferences.  The first and the last fail to
\* read the row back when the update is done: the caller sees an error, and no
\* message is sent.
UpdateGroup(h) == Stores(h, "update_group") /\ UNCHANGED items

UpdateGroupCategory(h) == Stores(h, "update_group_category") /\ UNCHANGED items

UpdateMemberSettings(h) == Stores(h, "update_member_settings") /\ UNCHANGED items
-----------------------------------------------------------------------------
ContentStep(h) ==
    \/ Look(h)
    \/ UploadGroupFile(h) \/ DeleteGroupFile(h) \/ DeleteAnnouncement(h)
    \/ CreatePoll(h) \/ ClosePoll(h) \/ VotePoll(h)
    \/ CreateGroupCategory(h) \/ DeleteGroupCategory(h) \/ UpdateGroupSettings(h)
    \/ UpdateGroup(h) \/ UpdateGroupCategory(h) \/ UpdateMemberSettings(h)
    \/ \E pinned \in BOOLEAN :
          \/ UpdateFilePinStatus(h, pinned) \/ PinAnnouncement(h, pinned)
          \/ CreateAnnouncement(h, pinned)

ContentNext ==
    \/ Next /\ UNCHANGED items
    \/ \E h \in Handlers, op \in ContentOp \cap mix, by \in Users :
          \E obj \in Nameable(op) : BeginContent(h, op, by, obj)
    \/ \E h \in Handlers : ContentStep(h)

ContentSpec == ContentInit /\ [][ContentNext]_contentVars
-----------------------------------------------------------------------------
(* Properties.                                                             *)

\* A poll keeps its options, is never deleted, and is never opened again once
\* it is closed, whatever votes are under way when close_poll writes: vote_poll
\* would write back options it could not read, were its update not refused.
PollsOnlyClose ==
    [][\A o \in content : o.kind = "poll" =>
          \E p \in content' : /\ p.id = o.id /\ p.options = o.options
                              /\ o.status = "closed" => p.status = "closed"]_contentVars

\* Nobody is Owner or Admin, and no request has got past a check for them.
Leaderless ==
    /\ \A u \in Users : ~AdminOrOwner(u)
    /\ \A h \in Handlers : req[h].pc # "done" =>
          /\ req[h].op \in {"role", "invite"} => req[h].pc = "check"
          /\ req[h].op = "create_announcement" => req[h].pc = "look"

\* What a former member left, and no request is about to end.
Abandoned(o) ==
    /\ o.by \notin Members
    /\ \A h \in Handlers : req[h].pc = "store" =>
          ~(req[h].op \in Ending /\ req[h].obj = o.id)

\* A group without Owner and Admin stays without, nobody joins it, nothing is
\* announced in it, and what former members left there stays as it is: the
\* checks of all handlers together leave no way around the missing role.
LeaderlessFrozen ==
    [][Leaderless =>
         /\ Leaderless' /\ Members' \subseteq Members
         /\ \A o \in content : Abandoned(o) =>
               \E p \in content' : p.id = o.id /\ p.status = o.status /\ Abandoned(p)'
         /\ \A p \in content' : p.kind = "announcement" =>
               \E o \in content : p.id = o.id]_contentVars

\* The category of the group is one that exists: delete_group_category takes it
\* from the groups that use it, and no request in progress puts it back.
CategoryExists == category \subseteq cats
-----------------------------------------------------------------------------
(* The inductive invariant of GroupsProofs.                                *)

GroupInv == ContentTypeOK /\ OneAtATime /\ CacheFollows /\ FlagFollows

IsCreating(h) == req[h].pc # "done" /\ req[h].op \in Creating

\* An id names one item, and a new one no other.
OneItemEach ==
    /\ \A o \in content : o.id <= served
    /\ \A o, p \in content : o.id = p.id => o = p
    /\ \A h \in Handlers : IsCreating(h) =>
          req[h].obj <= served /\ \A o \in content : o.id # req[h].obj
    /\ \A g, h \in Handlers : IsCreating(g) /\ IsCreating(h) /\ req[g].obj = req[h].obj => g = h

ItemInv == ContentTypeOK /\ OneItemEach /\ CategoryExists

IInv == GroupInv /\ ItemInv
=============================================================================
