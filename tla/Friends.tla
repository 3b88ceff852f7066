------------------------------- MODULE Friends -------------------------------
(***************************************************************************)
(* Friend requests and friendships (db/src/postgres/friend.rs and the      *)
(* friend handlers of the API): the table friendships, one row per ordered *)
(* pair of a requester and a requested user, and the table friends, one    *)
(* row per direction, which keeps the id of the request that created it.   *)
(*                                                                         *)
(* Agreeing and deleting are transactions of two updates, in opposite      *)
(* orders.  Postgres runs them at READ COMMITTED: an update waits for the  *)
(* lock of a row it changes, but does not see rows others have inserted    *)
(* and not committed; of transactions that wait for each other one fails.  *)
(*                                                                         *)
(* A device of a user logs in now and then, pulls the rows with an         *)
(* update_time later than its last_offline_time, and goes offline.  A time *)
(* is the number of requests begun: each falls in its own millisecond, and *)
(* the device has the clock of the server.  The time stands still where    *)
(* there is no device.                                                     *)
(***************************************************************************)
EXTENDS Integers, FiniteSets

CONSTANTS Users, Txs,  \* transactions at the same time
          None,
          Settings     \* bounds of the model: who has a device, requests begun

ASSUME FriendsAssumption ==
    /\ None \notin Users \cup Users \X Users
    /\ \A s \in Settings : s.devices \subseteq Users /\ s.requests \in Nat

VARIABLES
    fs,      \* friendships: status by request; the id is the pair itself
    fr,      \* friends: status and fs_id by direction
    tx,      \* the transactions in progress
    known,   \* the request ids each user was given
    begun,
    fsTime, frTime,   \* update_time of the rows of the two tables
    view,    \* the status of each of its friends on the user's device
    offline, \* its last_offline_time
    calm,    \* history: devices that pulled only when no transaction was open
    setting  \* one of Settings

times == <<fsTime, frTime>>
device == <<view, offline, calm, setting>>
vars == <<fs, fr, tx, known, begun, times, device>>

MaxTx == setting.requests
Time(n) == IF setting.devices = {} THEN 0 ELSE n

Ids == {p \in Users \X Users : p[1] # p[2]}
NoFriend == [st |-> "None", id |-> None]
Friend == [st : {"Accepted", "Deleted"}, id : Ids] \cup {NoFriend}
Tx == [op : {"agree", "delete"}, id : Ids, by : Users,
       pc : {"first", "second", "commit"},
       at : Nat,       \* the time it reads before it begins
       fs : BOOLEAN,   \* holds the lock of the request's row
       fr : BOOLEAN]   \* holds the locks of the pair's two rows in friends
NoTx == [pc |-> "none", fs |-> FALSE, fr |-> FALSE]

TypeOK ==
    /\ fs \in [Ids -> {"None", "Pending", "Accepted", "Deleted"}]
    /\ fr \in [Ids -> Friend]
    /\ tx \in [Txs -> Tx \cup {NoTx}]
    /\ known \in [Users -> SUBSET Ids]
    /\ begun \in 0..MaxTx
    /\ fsTime \in [Ids -> 0..MaxTx] /\ frTime \in [Ids -> 0..MaxTx]
    /\ view \in [Ids -> {"None", "Accepted", "Deleted"}]
    /\ offline \in [Users -> 0..MaxTx] /\ calm \subseteq Users
    /\ setting \in Settings

Init ==
    /\ fs = [i \in Ids |-> "None"]
    /\ fr = [i \in Ids |-> NoFriend]
    /\ tx = [t \in Txs |-> NoTx]
    /\ known = [u \in Users |-> {}]
    /\ begun = 0
    /\ fsTime = [i \in Ids |-> 0] /\ frTime = [i \in Ids |-> 0]
    /\ view = [i \in Ids |-> "None"] /\ offline = [u \in Users |-> 0]
    /\ setting \in Settings /\ calm = setting.devices

Swap(i) == <<i[2], i[1]>>

Pair(i) == {i, Swap(i)}

\* Both of a request's users learn its id.
Learn(i) == [u \in Users |-> IF u \in {i[1], i[2]} THEN known[u] \cup {i} ELSE known[u]]
-----------------------------------------------------------------------------
(* Locks: a transaction other than t holds the request's row, or the pair. *)

FsLocked(t, i) == \E s \in Txs \ {t} : tx[s].fs /\ tx[s].id = i

FrLocked(t, i) == \E s \in Txs \ {t} : tx[s].fr /\ tx[s].id \in Pair(i)

\* A request is stored once; asking again makes it pending again.  The
\* response and the message to the other user carry its id.
CreateFs(i) ==
    /\ begun < MaxTx /\ begun' = begun + 1
    /\ ~FsLocked(None, i)
    /\ fs' = [fs EXCEPT ![i] = "Pending"]
    /\ fsTime' = [fsTime EXCEPT ![i] = Time(begun')]
    /\ known' = Learn(i)
    /\ UNCHANGED <<fr, tx, frTime, device>>

\* The update is done; reading the row back as a FriendDb fails.
UpdateFriendRemark(i) ==
    /\ begun < MaxTx /\ begun' = begun + 1
    /\ fr[i] # NoFriend /\ ~FrLocked(None, i)
    /\ frTime' = [frTime EXCEPT ![i] = Time(begun')]
    /\ UNCHANGED <<fs, fr, tx, known, fsTime, device>>

\* get_friend_list
FriendList(u) == {i \in Ids : i[1] = u /\ fr[i] # NoFriend /\ frTime[i] > offline[u]}

\* get_fs_list, whose rows have no status
FsList(u) == {i \in Ids : i[2] = u /\ fs[i] # "None" /\ fsTime[i] > offline[u]}

GetFriendsListByUserId(u) ==
    /\ u \in setting.devices
    /\ view' = [i \in Ids |-> IF i \in FriendList(u) THEN fr[i].st ELSE view[i]]
    /\ known' = [known EXCEPT ![u] = @ \cup {fr[i].id : i \in FriendList(u)} \cup FsList(u)]
    /\ offline' = [offline EXCEPT ![u] = Time(begun)]
    /\ calm' = IF \E t \in Txs : tx[t] # NoTx THEN calm \ {u} ELSE calm
    /\ UNCHANGED <<fs, fr, tx, begun, times, setting>>

Begin(t, op, i, u) ==
    /\ tx[t] = NoTx /\ begun < MaxTx /\ begun' = begun + 1
    /\ i \in known[u]
    /\ tx' = [tx EXCEPT ![t] = [op |-> op, id |-> i, by |-> u, pc |-> "first",
                                at |-> Time(begun'), fs |-> FALSE, fr |-> FALSE]]
    /\ UNCHANGED <<fs, fr, known, times, device>>

At(t, op, pc) == tx[t].pc = pc /\ tx[t].op = op

\* agree_friend_apply_request: UPDATE friendships, whatever its status was.
AgreeFriendship(t) ==
    /\ At(t, "agree", "first")
    /\ ~FsLocked(t, tx[t].id)
    /\ tx' = [tx EXCEPT ![t].pc = "second", ![t].fs = TRUE]
    /\ UNCHANGED <<fs, fr, known, begun, times, device>>

\* INSERT INTO friends ... ON CONFLICT DO UPDATE
AgreeFriends(t) ==
    /\ At(t, "agree", "second")
    /\ ~FrLocked(t, tx[t].id)
    /\ tx' = [tx EXCEPT ![t].pc = "commit", ![t].fr = TRUE]
    /\ UNCHANGED <<fs, fr, known, begun, times, device>>

\* The row after the upsert: fs_id is not among the columns it updates.
Upserted(r, i) ==
    [st |-> "Accepted", id |-> IF r = NoFriend THEN i ELSE r.id]

\* Nor is update_time.
UpsertedTime(j, at) == IF fr[j] = NoFriend THEN at ELSE frTime[j]

AgreeCommit(t) ==
    /\ At(t, "agree", "commit")
    /\ LET i == tx[t].id IN
       /\ fs' = [fs EXCEPT ![i] = "Accepted"]
       /\ fr' = [j \in Ids |-> IF j \in Pair(i) THEN Upserted(fr[j], i) ELSE fr[j]]
       /\ fsTime' = [fsTime EXCEPT ![i] = tx[t].at]
       /\ frTime' = [j \in Ids |-> IF j \in Pair(i) THEN UpsertedTime(j, tx[t].at)
                                   ELSE frTime[j]]
       /\ known' = Learn(i)
    /\ tx' = [tx EXCEPT ![t] = NoTx]
    /\ UNCHANGED <<begun, device>>

\* Mutant: only the row of the user who deletes.
OwnRow(i, u) == {j \in Ids : fr[j].id = i /\ j[1] = u}

\* The committed rows delete_friend's first update selects.
Selected(i, u) == {j \in Ids : fr[j].id = i /\ \E k \in Ids : fr[k].id = i /\ k[1] = u}

DeleteFriends(t) ==
    /\ At(t, "delete", "first")
    /\ LET rows == Selected(tx[t].id, tx[t].by) IN
       /\ rows # {} => ~FrLocked(t, tx[t].id)
       /\ tx' = [tx EXCEPT ![t].pc = "second", ![t].fr = rows # {}]
    /\ UNCHANGED <<fs, fr, known, begun, times, device>>

DeleteFriendship(t) ==
    /\ At(t, "delete", "second")
    /\ ~FsLocked(t, tx[t].id)
    /\ tx' = [tx EXCEPT ![t].pc = "commit", ![t].fs = TRUE]
    /\ UNCHANGED <<fs, fr, known, begun, times, device>>

\* Mutant: delete_friend changes the status only.
NotTouched(rows, at) == frTime

Touched(rows, at) == [j \in Ids |-> IF j \in rows THEN at ELSE frTime[j]]

DeleteCommit(t) ==
    /\ At(t, "delete", "commit")
    /\ LET i == tx[t].id
           rows == IF tx[t].fr THEN Selected(i, tx[t].by) ELSE {} IN
       /\ fs' = [fs EXCEPT ![i] = "Deleted"]
       /\ fr' = [j \in Ids |-> IF j \in rows THEN [fr[j] EXCEPT !.st = "Deleted"]
                               ELSE fr[j]]
       /\ fsTime' = [fsTime EXCEPT ![i] = tx[t].at]
       /\ frTime' = Touched(rows, tx[t].at)
    /\ tx' = [tx EXCEPT ![t] = NoTx]
    /\ UNCHANGED <<known, begun, device>>

\* Mutant: the wait is not noticed.
NeverWaits(t) == FALSE

\* A transaction that needs a lock another one holds.
Waits(t) ==
    \/ At(t, "agree", "second") /\ FrLocked(t, tx[t].id)
    \/ At(t, "delete", "second") /\ FsLocked(t, tx[t].id)

\* deadlock_timeout: of two that hold a lock and wait one is rolled back.
DeadlockDetected(t) ==
    /\ Waits(t) /\ (tx[t].fs \/ tx[t].fr)
    /\ \E s \in Txs \ {t} : Waits(s) /\ (tx[s].fs \/ tx[s].fr)
    /\ tx' = [tx EXCEPT ![t] = NoTx]
    /\ UNCHANGED <<fs, fr, known, begun, times, device>>

Step(t) ==
    \/ AgreeFriendship(t) \/ AgreeFriends(t) \/ AgreeCommit(t)
    \/ DeleteFriends(t) \/ DeleteFriendship(t) \/ DeleteCommit(t)
    \/ DeadlockDetected(t)
\* Nobody asks for anything more.
Quiet == begun = MaxTx /\ UNCHANGED vars
-----------------------------------------------------------------------------
Next ==
    \/ Quiet
    \/ \E i \in Ids : CreateFs(i) \/ UpdateFriendRemark(i)
    \/ \E u \in Users : GetFriendsListByUserId(u)
    \/ \E t \in Txs, op \in {"agree", "delete"}, i \in Ids, u \in Users :
          Begin(t, op, i, u)
    \/ \E t \in Txs : Step(t)

Spec == Init /\ [][Next]_vars

\* The server goes on with its transactions and Postgres grants locks.
FairSpec == Spec /\ \A t \in Txs : SF_vars(Step(t))
-----------------------------------------------------------------------------
(* Properties.                                                             *)

\* Friendship is mutual: the two rows of a pair have the same status and stem
\* from the same request, whatever agree_friend_apply_request and
\* delete_friend do at the same time, also for requests in both directions.
Mutual == \A i \in Ids : fr[i] = fr[Swap(i)]

\* A device that pulls what has changed since it was offline knows its friends:
\* a row that differs from what it has is one the next pull returns, except that
\* agree_friend_apply_request does not date a friendship it renews.  This is so
\* as long as no transaction was open during a pull, since a transaction dates
\* its rows when it begins and shows them when it commits.
OnlyRenewalsAreMissed ==
    \A i \in Ids : i[1] \in calm =>
        \/ view[i] = fr[i].st
        \/ frTime[i] > offline[i[1]]
        \/ view[i] = "Deleted" /\ fr[i].st = "Accepted"

\* Every transaction ends, although agreeing and deleting lock the two tables
\* in opposite orders.
TransactionsEnd == \A t \in Txs : tx[t] # NoTx ~> tx[t] = NoTx
-----------------------------------------------------------------------------
(* The inductive invariant of FriendsProofs.                               *)

\* The types of what the two safety properties depend on.
Typed ==
    /\ fr \in [Ids -> Friend] /\ frTime \in [Ids -> Nat]
    /\ tx \in [Txs -> Tx \cup {NoTx}] /\ begun \in Nat
    /\ view \in [Ids -> {"None", "Accepted", "Deleted"}]
    /\ offline \in [Users -> Nat]
    /\ calm \subseteq Users /\ calm \subseteq setting.devices

\* What a transaction has dated, and will show, is later than the last pull of
\* a calm device; a device knows of no friend the table does not have.
Dated ==
    /\ \A u \in Users : offline[u] <= begun
    /\ \A u \in calm, t \in Txs : tx[t] # NoTx => tx[t].at > offline[u]
    /\ \A i \in Ids : fr[i] = NoFriend => view[i] = "None"

IInv == Typed /\ Mutual /\ Dated /\ OnlyRenewalsAreMissed
-----------------------------------------------------------------------------
(* What TransactionsEnd rests on.                                          *)

\* What a step of t asks for: that the lock it needs is free, or that Postgres
\* has found it waiting beside another that waits.
CanGoOn(t) ==
    \/ At(t, "agree", "first") /\ ~FsLocked(t, tx[t].id)
    \/ At(t, "agree", "second") /\ ~FrLocked(t, tx[t].id)
    \/ /\ At(t, "delete", "first")
       /\ Selected(tx[t].id, tx[t].by) # {} => ~FrLocked(t, tx[t].id)
    \/ At(t, "delete", "second") /\ ~FsLocked(t, tx[t].id)
    \/ tx[t].pc = "commit"
    \/ /\ Waits(t) /\ (tx[t].fs \/ tx[t].fr)
       /\ \E s \in Txs \ {t} : Waits(s) /\ (tx[s].fs \/ tx[s].fr)

\* Transactions never all wait, however many there are and for whatever locks.
NoStandstill == (\E t \in Txs : tx[t] # NoTx) => \E t \in Txs : CanGoOn(t)

\* A transaction has at most three steps ahead of it, and no step of another
\* transaction or request adds to them.
StepsLeft(t) ==
    CASE tx[t].pc = "first" -> 3 [] tx[t].pc = "second" -> 2
      [] tx[t].pc = "commit" -> 1 [] OTHER -> 0

OnlyForward ==
    [][\A t \in Txs : tx[t] # NoTx => tx'[t] = tx[t] \/ StepsLeft(t)' < StepsLeft(t)]_vars

\* The locks that a transaction holds are those its statements have taken.
LocksFollow ==
    \A t \in Txs :
        /\ tx[t].fs => At(t, "agree", "second") \/ tx[t].pc = "commit"
        /\ tx[t].fr => At(t, "delete", "second") \/ tx[t].pc = "commit"
=============================================================================
