--------------------------- MODULE FriendsProofs ---------------------------
(***************************************************************************)
(* Proofs about Friends, for any users, transactions, devices and number   *)
(* of requests: what the rows say, and that transactions come to an end.   *)
(***************************************************************************)
EXTENDS Friends, TLAPS

\* Zenon is tried unless a leaf names Z3, which takes the arithmetic.
USE Zenon

\* Exchanging the two users of a request gives a request, and back again.
LEMMA SwapId == \A i \in Ids : Swap(i) \in Ids /\ Swap(Swap(i)) = i
  BY SMTT(30) DEF Ids, Swap

\* The pair of a request is that of its opposite.
LEMMA SwapPair == \A i, j \in Ids : j \in Pair(i) <=> Swap(j) \in Pair(i)
  BY SwapId DEF Pair

\* There are no friends, devices or transactions to start with.
LEMMA InitIInv == Init => IInv
  <1> SUFFICES ASSUME Init PROVE IInv
    OBVIOUS
  <1>1. Typed
    BY FriendsAssumption DEF Init, Typed, Friend
  <1>2. Mutual
    BY SwapId DEF Init, Mutual
  <1>3. Dated
    BY SMTT(30) DEF Init, Dated
  <1>4. OnlyRenewalsAreMissed
    BY DEF Init, OnlyRenewalsAreMissed, NoFriend
  <1> QED BY <1>1, <1>2, <1>3, <1>4 DEF IInv

\* With a device around, the time is the number of requests begun.
LEMMA TimeRuns == Typed => \A u \in calm : \A n : Time(n) = n
  BY DEF Typed, Time

\* create_fs leaves friends and devices alone.
LEMMA CreateStep == ASSUME IInv, NEW i \in Ids, CreateFs(i) PROVE IInv'
  <1> USE DEF CreateFs, device
  <1>1. Typed'
    BY SMTT(30) DEF IInv, Typed
  <1>2. Mutual' /\ OnlyRenewalsAreMissed'
    BY DEF IInv, Mutual, OnlyRenewalsAreMissed
  <1>3. Dated'
    BY SMTT(30) DEF IInv, Typed, Dated
  <1> QED BY <1>1, <1>2, <1>3 DEF IInv

\* update_friend_remark dates a row later than every pull.
LEMMA RemarkStep == ASSUME IInv, NEW i \in Ids, UpdateFriendRemark(i) PROVE IInv'
  <1> USE DEF UpdateFriendRemark, device
  <1>1. Typed'
    BY SMTT(30) DEF IInv, Typed, Time
  <1>2. Mutual'
    BY DEF IInv, Mutual
  <1>3. Dated'
    BY SMTT(30) DEF IInv, Typed, Dated
  <1>4. OnlyRenewalsAreMissed'
    <2> SUFFICES ASSUME NEW j \in Ids, j[1] \in calm
                 PROVE  \/ view[j] = fr[j].st
                        \/ frTime'[j] > offline[j[1]]
                        \/ view[j] = "Deleted" /\ fr[j].st = "Accepted"
      BY DEF OnlyRenewalsAreMissed
    <2>1. j = i => frTime'[j] = begun + 1
      BY TimeRuns DEF IInv, Typed
    <2>2. j # i => frTime'[j] = frTime[j]
      BY DEF IInv, Typed
    <2>3. offline[j[1]] < begun + 1
      BY SMTT(30) DEF IInv, Typed, Dated, Ids
    <2> QED BY <2>1, <2>2, <2>3 DEF IInv, OnlyRenewalsAreMissed
  <1> QED BY <1>1, <1>2, <1>3, <1>4 DEF IInv

\* After a pull the device has what the table has, but for renewals.
LEMMA PullStep == ASSUME IInv, NEW u \in Users, GetFriendsListByUserId(u) PROVE IInv'
  <1> USE DEF GetFriendsListByUserId, times
  <1>1. Typed'
    <2>1. view' \in [Ids -> {"None", "Accepted", "Deleted"}]
      BY DEF IInv, Typed, FriendList, Friend, NoFriend
    <2>2. offline' \in [Users -> Nat]
      BY DEF IInv, Typed, Time
    <2> QED BY <2>1, <2>2 DEF IInv, Typed
  <1>2. Mutual'
    BY DEF IInv, Mutual
  <1>3. Dated'
    <2>1. \A v \in Users : offline'[v] <= begun'
      BY SMTT(30) DEF IInv, Typed, Dated, Time
    <2>2. \A v \in calm', t \in Txs : tx'[t] # NoTx => tx'[t].at > offline'[v]
      <3> SUFFICES ASSUME NEW v \in calm', NEW t \in Txs, tx[t] # NoTx
                   PROVE  tx[t].at > offline'[v]
        OBVIOUS
      <3>1. v # u /\ v \in calm
        OBVIOUS
      <3> QED BY <3>1 DEF IInv, Typed, Dated
    <2>3. \A i \in Ids : fr'[i] = NoFriend => view'[i] = "None"
      BY DEF IInv, Typed, Dated, FriendList
    <2> QED BY <2>1, <2>2, <2>3 DEF Dated
  <1>4. OnlyRenewalsAreMissed'
    <2> SUFFICES ASSUME NEW j \in Ids, j[1] \in calm'
                 PROVE  \/ view'[j] = fr[j].st
                        \/ frTime[j] > offline'[j[1]]
                        \/ view'[j] = "Deleted" /\ fr[j].st = "Accepted"
      BY DEF OnlyRenewalsAreMissed
    <2>1. j[1] \in calm
      OBVIOUS
    <2>2. CASE j \in FriendList(u)
      BY <2>2
    <2>3. CASE j \notin FriendList(u) /\ fr[j] = NoFriend
      BY SMTT(30), <2>3 DEF IInv, Dated, NoFriend
    <2>4. CASE j \notin FriendList(u) /\ fr[j] # NoFriend
      <3>1. view'[j] = view[j]
        BY <2>4
      <3>2. CASE j[1] = u
        BY <2>1, <2>4, <3>1, <3>2 DEF IInv, OnlyRenewalsAreMissed, FriendList
      <3>3. CASE j[1] # u
        BY <2>1, <3>1, <3>3 DEF IInv, Typed, OnlyRenewalsAreMissed
      <3> QED BY <3>2, <3>3
    <2> QED BY <2>2, <2>3, <2>4
  <1> QED BY <1>1, <1>2, <1>3, <1>4 DEF IInv

\* A transaction reads the time when it begins: later than every pull so far.
LEMMA BeginStep ==
  ASSUME IInv, NEW t \in Txs, NEW op \in {"agree", "delete"}, NEW i \in Ids,
         NEW u \in Users, Begin(t, op, i, u)
  PROVE  IInv'
  <1> USE DEF Begin, times, device
  <1>1. Typed'
    <2>1. tx' \in [Txs -> Tx \cup {NoTx}]
      BY SMTT(30) DEF IInv, Typed, Tx, Time
    <2> QED BY SMTT(30), <2>1 DEF IInv, Typed
  <1>2. Mutual' /\ OnlyRenewalsAreMissed'
    BY DEF IInv, Mutual, OnlyRenewalsAreMissed
  <1>3. Dated'
    <2>1. \A v \in calm', s \in Txs : tx'[s] # NoTx => tx'[s].at > offline'[v]
      <3> SUFFICES ASSUME NEW v \in calm, NEW s \in Txs, tx'[s] # NoTx
                   PROVE  tx'[s].at > offline[v]
        OBVIOUS
      <3>1. CASE s = t
        BY SMTT(30), <3>1, TimeRuns DEF IInv, Typed, Dated
      <3>2. CASE s # t
        BY <3>2 DEF IInv, Typed, Dated
      <3> QED BY <3>1, <3>2
    <2> QED BY SMTT(30), <2>1 DEF IInv, Typed, Dated
  <1> QED BY <1>1, <1>2, <1>3 DEF IInv

\* A transaction at one of its statements is one of Tx.
LEMMA Running ==
  ASSUME Typed, NEW t \in Txs, NEW op, NEW pc \in {"first", "second", "commit"},
         At(t, op, pc)
  PROVE  tx[t] \in Tx /\ tx[t] # NoTx
  BY SMTT(30) DEF Typed, At, NoTx

\* A statement before the commit takes locks; it changes no row others see.
LEMMA StatementStep ==
  ASSUME IInv, NEW t \in Txs, tx[t] # NoTx,
         NEW r \in Tx \cup {NoTx}, r = NoTx \/ r.at = tx[t].at,
         tx' = [tx EXCEPT ![t] = r], UNCHANGED <<fs, fr, known, begun, times, device>>
  PROVE  IInv'
  <1> USE DEF times, device
  <1>1. Typed'
    BY DEF IInv, Typed
  <1>2. Mutual' /\ OnlyRenewalsAreMissed'
    BY DEF IInv, Mutual, OnlyRenewalsAreMissed
  <1>3. Dated'
    <2>1. \A v \in calm', s \in Txs : tx'[s] # NoTx => tx'[s].at > offline'[v]
      <3> SUFFICES ASSUME NEW v \in calm, NEW s \in Txs, tx'[s] # NoTx
                   PROVE  tx'[s].at > offline[v]
        OBVIOUS
      <3>1. CASE s = t
        BY <3>1 DEF IInv, Typed, Dated
      <3>2. CASE s # t
        BY <3>2 DEF IInv, Typed, Dated
      <3> QED BY <3>1, <3>2
    <2> QED BY <2>1 DEF IInv, Dated
  <1> QED BY <1>1, <1>2, <1>3 DEF IInv

\* The four statements of the two transactions, and the rollback of one.
LEMMA LockStep ==
  ASSUME IInv, NEW t \in Txs,
         \/ AgreeFriendship(t) \/ AgreeFriends(t)
         \/ DeleteFriends(t) \/ DeleteFriendship(t) \/ DeadlockDetected(t)
  PROVE  IInv'
  <1> USE DEF IInv
  <1>1. CASE AgreeFriendship(t)
    <2>1. tx[t] \in Tx /\ tx[t] # NoTx
      BY <1>1, Running DEF AgreeFriendship
    <2>2. tx' = [tx EXCEPT ![t] = [tx[t] EXCEPT !.pc = "second", !.fs = TRUE]]
      BY <1>1, <2>1 DEF AgreeFriendship, Typed, Tx
    <2>3. [tx[t] EXCEPT !.pc = "second", !.fs = TRUE] \in Tx
      BY <2>1 DEF Tx
    <2>4. [tx[t] EXCEPT !.pc = "second", !.fs = TRUE].at = tx[t].at
      BY <2>1 DEF Tx
    <2> QED BY <1>1, <2>1, <2>2, <2>3, <2>4, StatementStep DEF AgreeFriendship
  <1>2. CASE AgreeFriends(t)
    <2>1. tx[t] \in Tx /\ tx[t] # NoTx
      BY <1>2, Running DEF AgreeFriends
    <2>2. tx' = [tx EXCEPT ![t] = [tx[t] EXCEPT !.pc = "commit", !.fr = TRUE]]
      BY <1>2, <2>1 DEF AgreeFriends, Typed, Tx
    <2>3. [tx[t] EXCEPT !.pc = "commit", !.fr = TRUE] \in Tx
      BY <2>1 DEF Tx
    <2>4. [tx[t] EXCEPT !.pc = "commit", !.fr = TRUE].at = tx[t].at
      BY <2>1 DEF Tx
    <2> QED BY <1>2, <2>1, <2>2, <2>3, <2>4, StatementStep DEF AgreeFriends
  <1>3. CASE DeleteFriends(t)
    <2> DEFINE found == Selected(tx[t].id, tx[t].by) # {}
    <2>1. tx[t] \in Tx /\ tx[t] # NoTx
      BY <1>3, Running DEF DeleteFriends
    <2>2. tx' = [tx EXCEPT ![t] = [tx[t] EXCEPT !.pc = "second", !.fr = found]]
      BY <1>3, <2>1 DEF DeleteFriends, Typed, Tx
    <2>3. found \in BOOLEAN
      OBVIOUS
    <2> HIDE DEF found
    <2>4. [tx[t] EXCEPT !.pc = "second", !.fr = found] \in Tx
      BY <2>1, <2>3 DEF Tx
    <2>5. [tx[t] EXCEPT !.pc = "second", !.fr = found].at = tx[t].at
      BY <2>1 DEF Tx
    <2> QED BY <1>3, <2>1, <2>2, <2>4, <2>5, StatementStep DEF DeleteFriends
  <1>4. CASE DeleteFriendship(t)
    <2>1. tx[t] \in Tx /\ tx[t] # NoTx
      BY <1>4, Running DEF DeleteFriendship
    <2>2. tx' = [tx EXCEPT ![t] = [tx[t] EXCEPT !.pc = "commit", !.fs = TRUE]]
      BY <1>4, <2>1 DEF DeleteFriendship, Typed, Tx
    <2>3. [tx[t] EXCEPT !.pc = "commit", !.fs = TRUE] \in Tx
      BY <2>1 DEF Tx
    <2>4. [tx[t] EXCEPT !.pc = "commit", !.fs = TRUE].at = tx[t].at
      BY <2>1 DEF Tx
    <2> QED BY <1>4, <2>1, <2>2, <2>3, <2>4, StatementStep DEF DeleteFriendship
  <1>5. CASE DeadlockDetected(t)
    <2>1. tx[t] # NoTx
      BY <1>5, Running DEF DeadlockDetected, Waits
    <2> QED BY <1>5, <2>1, StatementStep DEF DeadlockDetected
  <1> QED BY <1>1, <1>2, <1>3, <1>4, <1>5

\* A commit that gives some rows another status: what it needs to keep the
\* invariant.  Rows is what changes, and is later than the last pull of a calm
\* device unless it renews a friendship.
LEMMA CommitStep ==
  ASSUME IInv, NEW t \in Txs, tx[t] # NoTx, tx' = [tx EXCEPT ![t] = NoTx],
         UNCHANGED <<begun, device>>,
         fr' \in [Ids -> Friend], frTime' \in [Ids -> Nat],
         \A j \in Ids : fr'[j] = fr'[Swap(j)],
         \A j \in Ids : fr'[j] = NoFriend => fr[j] = NoFriend,
         \A j \in Ids : \/ fr'[j] = fr[j] /\ frTime'[j] = frTime[j]
                        \/ frTime'[j] = tx[t].at
                        \/ /\ fr[j] # NoFriend /\ fr'[j].st = "Accepted"
                           /\ frTime'[j] = frTime[j]
  PROVE  IInv'
  <1> USE DEF device
  <1>1. Typed'
    BY DEF IInv, Typed
  <1>2. Mutual'
    BY DEF Mutual
  <1>3. Dated'
    BY DEF IInv, Typed, Dated
  <1>4. OnlyRenewalsAreMissed'
    <2> SUFFICES ASSUME NEW j \in Ids, j[1] \in calm
                 PROVE  \/ view[j] = fr'[j].st
                        \/ frTime'[j] > offline[j[1]]
                        \/ view[j] = "Deleted" /\ fr'[j].st = "Accepted"
      BY DEF OnlyRenewalsAreMissed
    <2>1. CASE fr'[j] = fr[j] /\ frTime'[j] = frTime[j]
      BY <2>1 DEF IInv, OnlyRenewalsAreMissed
    <2>2. CASE frTime'[j] = tx[t].at
      BY <2>2 DEF IInv, Dated
    <2>3. CASE fr[j] # NoFriend /\ fr'[j].st = "Accepted" /\ frTime'[j] = frTime[j]
      <3>1. fr[j].st \in {"Accepted", "Deleted"}
        BY <2>3 DEF IInv, Typed, Friend
      <3> QED BY <2>3, <3>1 DEF IInv, OnlyRenewalsAreMissed
    <2> QED BY <2>1, <2>2, <2>3
  <1> QED BY <1>1, <1>2, <1>3, <1>4 DEF IInv

\* Agreeing writes both rows of a pair, from rows that were alike.
LEMMA AgreeStep == ASSUME IInv, NEW t \in Txs, AgreeCommit(t) PROVE IInv'
  <1> DEFINE i == tx[t].id
  <1>1. tx[t] \in Tx /\ tx[t] # NoTx
    BY Running DEF AgreeCommit, IInv
  <1>2. i \in Ids /\ tx[t].at \in Nat
    BY <1>1 DEF Tx
  <1>3. \A j \in Ids : fr'[j] = IF j \in Pair(i) THEN Upserted(fr[j], i) ELSE fr[j]
    BY DEF AgreeCommit
  <1>4. \A j \in Ids : frTime'[j] = IF j \in Pair(i) THEN UpsertedTime(j, tx[t].at)
                                    ELSE frTime[j]
    BY DEF AgreeCommit
  <1>5. \A j \in Ids : Upserted(fr[j], i) \in Friend /\ Upserted(fr[j], i) # NoFriend
                       /\ Upserted(fr[j], i).st = "Accepted"
    BY <1>2 DEF Upserted, IInv, Typed, Friend, NoFriend
  <1>6. fr' \in [Ids -> Friend]
    BY <1>5 DEF AgreeCommit, IInv, Typed
  <1>7. frTime' \in [Ids -> Nat]
    BY <1>2 DEF AgreeCommit, UpsertedTime, IInv, Typed
  <1> HIDE DEF i
  <1>8. \A j \in Ids : fr'[j] = fr'[Swap(j)]
    <2> SUFFICES ASSUME NEW j \in Ids PROVE fr'[j] = fr'[Swap(j)]
      OBVIOUS
    <2>1. Swap(j) \in Ids /\ (j \in Pair(i) <=> Swap(j) \in Pair(i))
      BY <1>2, SwapId, SwapPair
    <2>2. fr[j] = fr[Swap(j)]
      BY DEF IInv, Mutual
    <2> QED BY <1>3, <2>1, <2>2
  <1>9. \A j \in Ids : fr'[j] = NoFriend => fr[j] = NoFriend
    BY <1>3, <1>5
  <1>10. \A j \in Ids : \/ fr'[j] = fr[j] /\ frTime'[j] = frTime[j]
                        \/ frTime'[j] = tx[t].at
                        \/ /\ fr[j] # NoFriend /\ fr'[j].st = "Accepted"
                           /\ frTime'[j] = frTime[j]
    BY <1>3, <1>4, <1>5 DEF UpsertedTime
  <1> QED BY <1>1, <1>6, <1>7, <1>8, <1>9, <1>10, CommitStep DEF AgreeCommit

\* Deleting selects by the request's id, which the two rows of a pair share.
LEMMA DeleteStep == ASSUME IInv, NEW t \in Txs, DeleteCommit(t) PROVE IInv'
  <1> DEFINE i == tx[t].id
             rows == IF tx[t].fr THEN Selected(i, tx[t].by) ELSE {}
  <1>1. tx[t] \in Tx /\ tx[t] # NoTx
    BY Running DEF DeleteCommit, IInv
  <1>2. i \in Ids /\ tx[t].at \in Nat
    BY <1>1 DEF Tx
  <1>3. fr' = [j \in Ids |-> IF j \in rows THEN [fr[j] EXCEPT !.st = "Deleted"] ELSE fr[j]]
    BY DEF DeleteCommit
  <1>4. frTime' = [j \in Ids |-> IF j \in rows THEN tx[t].at ELSE frTime[j]]
    BY DEF DeleteCommit, Touched
  <1>5. \A j \in rows : j \in Ids /\ fr[j] # NoFriend
    <2>1. None \notin Ids
      BY FriendsAssumption DEF Ids
    <2> QED BY SMTT(30), <1>2, <2>1 DEF Selected, NoFriend
  <1>6. \A j \in Ids : j \in rows <=> Swap(j) \in rows
    BY SwapId DEF Selected, IInv, Mutual
  <1> HIDE DEF i, rows
  <1>7. \A j \in rows : /\ [fr[j] EXCEPT !.st = "Deleted"] \in Friend
                        /\ [fr[j] EXCEPT !.st = "Deleted"] # NoFriend
    <2> SUFFICES ASSUME NEW j \in rows
                 PROVE  /\ [fr[j] EXCEPT !.st = "Deleted"] \in Friend
                        /\ [fr[j] EXCEPT !.st = "Deleted"] # NoFriend
      OBVIOUS
    <2>1. fr[j] \in [st : {"Accepted", "Deleted"}, id : Ids]
      BY <1>5 DEF IInv, Typed, Friend
    <2>2. [fr[j] EXCEPT !.st = "Deleted"] \in [st : {"Accepted", "Deleted"}, id : Ids]
      BY <2>1
    <2> QED BY <2>2 DEF Friend, NoFriend
  <1>8. fr' \in [Ids -> Friend]
    BY <1>3, <1>7 DEF IInv, Typed
  <1>9. frTime' \in [Ids -> Nat]
    BY <1>2, <1>4 DEF IInv, Typed
  <1>10. \A j \in Ids : fr'[j] = fr'[Swap(j)]
    <2> SUFFICES ASSUME NEW j \in Ids PROVE fr'[j] = fr'[Swap(j)]
      OBVIOUS
    <2>1. Swap(j) \in Ids /\ fr[j] = fr[Swap(j)]
      BY SwapId DEF IInv, Mutual
    <2> QED BY <1>3, <1>6, <2>1
  <1>11. \A j \in Ids : fr'[j] = NoFriend => fr[j] = NoFriend
    BY <1>3, <1>7
  <1>12. \A j \in Ids : \/ fr'[j] = fr[j] /\ frTime'[j] = frTime[j]
                        \/ frTime'[j] = tx[t].at
    BY <1>3, <1>4
  <1> QED BY <1>1, <1>8, <1>9, <1>10, <1>11, <1>12, CommitStep DEF DeleteCommit

\* Every step keeps the invariant.
LEMMA NextIInv == IInv /\ [Next]_vars => IInv'
  <1> SUFFICES ASSUME IInv, [Next]_vars PROVE IInv'
    OBVIOUS
  <1>1. CASE UNCHANGED vars
    BY <1>1 DEF vars, times, device, IInv, Typed, Mutual, Dated, OnlyRenewalsAreMissed
  <1>2. CASE Quiet
    BY <1>1, <1>2 DEF Quiet
  <1>3. ASSUME NEW i \in Ids, CreateFs(i) \/ UpdateFriendRemark(i) PROVE IInv'
    BY <1>3, CreateStep, RemarkStep
  <1>4. ASSUME NEW u \in Users, GetFriendsListByUserId(u) PROVE IInv'
    BY <1>4, PullStep
  <1>5. ASSUME NEW t \in Txs, NEW op \in {"agree", "delete"}, NEW i \in Ids,
               NEW u \in Users, Begin(t, op, i, u)
        PROVE  IInv'
    BY <1>5, BeginStep
  <1>6. ASSUME NEW t \in Txs, Step(t) PROVE IInv'
    BY <1>6, LockStep, AgreeStep, DeleteStep DEF Step
  <1> QED BY <1>1, <1>2, <1>3, <1>4, <1>5, <1>6 DEF Next

\* For any users and any transactions at the same time: the two rows of a pair
\* in friends are alike whenever agree_friend_apply_request and delete_friend
\* have committed.
THEOREM MutualFriends == Spec => []Mutual
  <1>1. IInv => Mutual
    BY DEF IInv
  <1> QED BY <1>1, InitIInv, NextIInv, PTL DEF Spec

\* For any users, devices and transactions: a device that pulled while no
\* transaction was open misses, of its friends, only renewed ones.
THEOREM PullsMissOnlyRenewals == Spec => []OnlyRenewalsAreMissed
  <1>1. IInv => OnlyRenewalsAreMissed
    BY DEF IInv
  <1> QED BY <1>1, InitIInv, NextIInv, PTL DEF Spec
-----------------------------------------------------------------------------
(* Transactions do not block each other for good.                          *)

\* Where there is no transaction, no lock is held.
LEMMA NoLocks == NoTx.pc = "none" /\ ~NoTx.fs /\ ~NoTx.fr
  BY SMTT(30) DEF NoTx

\* A step takes its own transaction one statement further, or ends it.
LEMMA TxStep ==
  ASSUME Typed, NEW t \in Txs, Step(t)
  PROVE  /\ tx[t] \in Tx /\ \A s \in Txs \ {t} : tx'[s] = tx[s]
         /\ \/ tx'[t] = NoTx
            \/ /\ tx[t].pc = "first" /\ tx'[t].pc = "second" /\ tx'[t].op = tx[t].op
               /\ tx[t].op = "agree" => tx'[t].fr = tx[t].fr
               /\ tx[t].op = "delete" => tx'[t].fs = tx[t].fs
            \/ tx[t].pc = "second" /\ tx'[t].pc = "commit"
  <1>0. tx \in [Txs -> Tx \cup {NoTx}]
    BY DEF Typed
  <1>1. CASE AgreeFriendship(t)
    <2>1. tx[t] \in Tx
      BY <1>1, Running DEF AgreeFriendship
    <2>2. tx[t].op = "agree" /\ tx[t].pc = "first"
      BY <1>1 DEF AgreeFriendship, At
    <2> QED BY SMTT(30), <1>0, <1>1, <2>1, <2>2 DEF AgreeFriendship, Tx
  <1>2. CASE AgreeFriends(t)
    <2>1. tx[t] \in Tx /\ tx[t].pc = "second"
      BY <1>2, Running DEF AgreeFriends, At
    <2> QED BY SMTT(30), <1>0, <1>2, <2>1 DEF AgreeFriends, Tx
  <1>3. CASE DeleteFriends(t)
    <2>1. tx[t] \in Tx
      BY <1>3, Running DEF DeleteFriends
    <2>2. tx[t].op = "delete" /\ tx[t].pc = "first"
      BY <1>3 DEF DeleteFriends, At
    <2>3. PICK found : tx' = [tx EXCEPT ![t].pc = "second", ![t].fr = found]
      BY <1>3 DEF DeleteFriends
    <2> QED BY SMTT(30), <1>0, <2>1, <2>2, <2>3 DEF Tx
  <1>4. CASE DeleteFriendship(t)
    <2>1. tx[t] \in Tx /\ tx[t].pc = "second"
      BY <1>4, Running DEF DeleteFriendship, At
    <2> QED BY SMTT(30), <1>0, <1>4, <2>1 DEF DeleteFriendship, Tx
  <1>5. CASE AgreeCommit(t) \/ DeleteCommit(t) \/ DeadlockDetected(t)
    <2>1. tx[t] \in Tx
      BY <1>5, Running DEF AgreeCommit, DeleteCommit, DeadlockDetected, Waits
    <2>2. tx' = [tx EXCEPT ![t] = NoTx]
      BY <1>5 DEF AgreeCommit, DeleteCommit, DeadlockDetected
    <2> QED BY <1>0, <2>1, <2>2
  <1> QED BY <1>1, <1>2, <1>3, <1>4, <1>5 DEF Step

\* What is no step of a transaction begins one or leaves them alone.
LEMMA OtherSteps ==
  ASSUME Typed, [Next]_vars, ~\E t \in Txs : Step(t)
  PROVE  \/ tx' = tx
         \/ \E t \in Txs : /\ tx[t] = NoTx /\ \A s \in Txs \ {t} : tx'[s] = tx[s]
                           /\ tx'[t].pc = "first" /\ ~tx'[t].fs /\ ~tx'[t].fr
  <1>1. ASSUME NEW t \in Txs, NEW op, NEW i, NEW u, Begin(t, op, i, u)
        PROVE  /\ tx[t] = NoTx /\ \A s \in Txs \ {t} : tx'[s] = tx[s]
               /\ tx'[t].pc = "first" /\ ~tx'[t].fs /\ ~tx'[t].fr
    BY SMTT(30), <1>1 DEF Begin, Typed
  <1> QED BY <1>1 DEF Next, vars, Quiet, CreateFs, UpdateFriendRemark, GetFriendsListByUserId

\* Every step keeps LocksFollow.
LEMMA NextLocks == IInv /\ LocksFollow /\ [Next]_vars => LocksFollow'
  <1> SUFFICES ASSUME IInv, LocksFollow, [Next]_vars, NEW s \in Txs
               PROVE  /\ tx'[s].fs => (tx'[s].pc = "second" /\ tx'[s].op = "agree")
                                      \/ tx'[s].pc = "commit"
                      /\ tx'[s].fr => (tx'[s].pc = "second" /\ tx'[s].op = "delete")
                                      \/ tx'[s].pc = "commit"
    BY DEF LocksFollow, At
  <1>0. Typed
    BY DEF IInv
  <1>1. CASE tx'[s] = tx[s]
    BY <1>1 DEF LocksFollow, At
  <1>2. CASE Step(s)
    <2>1. tx[s].op \in {"agree", "delete"}
      BY <1>0, <1>2, TxStep DEF Tx
    <2>2. CASE tx'[s] = NoTx
      BY <2>2, NoLocks
    <2>3. CASE tx'[s].pc = "second" /\ tx[s].pc = "first"
      BY <1>0, <1>2, <2>1, <2>3, TxStep, NoLocks DEF LocksFollow, At
    <2>4. CASE tx'[s].pc = "commit"
      BY <2>4
    <2> QED BY <1>0, <1>2, <2>2, <2>3, <2>4, TxStep
  <1>3. ASSUME NEW t \in Txs, Step(t), t # s PROVE tx'[s] = tx[s]
    BY <1>0, <1>3, TxStep
  <1>4. CASE ~\E t \in Txs : Step(t)
    BY <1>0, <1>1, <1>4, OtherSteps
  <1> QED BY <1>1, <1>2, <1>3, <1>4

\* Where a holder of a lock is in its transaction.
LEMMA Holders ==
  ASSUME LocksFollow, NEW t \in Txs, ~CanGoOn(t)
  PROVE  /\ tx[t].fs => Waits(t) /\ FrLocked(t, tx[t].id)
         /\ tx[t].fr => Waits(t) /\ FsLocked(t, tx[t].id)
  BY DEF LocksFollow, CanGoOn, Waits

\* agree_friend_apply_request and delete_friend lock the two tables in opposite
\* orders; still, for any number of them at the same time and any requests and
\* users, while one is open there is one that can go on: it gets the lock it
\* needs, commits, or is the one that deadlock_timeout rolls back.
THEOREM NeverAllWait == Spec => []NoStandstill
  <1>1. Init => LocksFollow
    BY NoLocks DEF Init, LocksFollow
  <1>2. IInv /\ LocksFollow => NoStandstill
    <2> SUFFICES ASSUME IInv, LocksFollow, NEW t \in Txs, tx[t] # NoTx,
                        \A s \in Txs : ~CanGoOn(s)
                 PROVE  FALSE
      BY DEF NoStandstill
    <2>1. tx[t] \in Tx
      BY DEF IInv, Typed
    <2>2. tx[t].pc \in {"first", "second", "commit"} /\ tx[t].op \in {"agree", "delete"}
      BY <2>1 DEF Tx
    <2>3. FsLocked(t, tx[t].id) \/ FrLocked(t, tx[t].id)
      BY <2>2 DEF CanGoOn, At
    <2>4. \E s \in Txs : tx[s].fs \/ tx[s].fr
      BY <2>3 DEF FsLocked, FrLocked
    <2>5. \A s \in Txs : tx[s].fs => \E r \in Txs \ {s} : tx[r].fr
      BY Holders DEF FrLocked
    <2>6. \A s \in Txs : tx[s].fr => \E r \in Txs \ {s} : tx[r].fs
      BY Holders DEF FsLocked
    <2>7. PICK s \in Txs, r \in Txs : s # r /\ (tx[s].fs \/ tx[s].fr) /\ (tx[r].fs \/ tx[r].fr)
      BY <2>4, <2>5, <2>6
    <2>8. Waits(s) /\ Waits(r)
      BY <2>7, Holders
    <2> QED BY <2>7, <2>8 DEF CanGoOn
  <1> QED BY <1>1, <1>2, InitIInv, NextIInv, NextLocks, PTL DEF Spec

\* A transaction goes through its two statements to its end, at most three steps
\* away, and nothing others do takes it back.
THEOREM TransactionsGoForward == Spec => OnlyForward
  <1>1. ASSUME IInv, [Next]_vars, NEW t \in Txs, tx[t] # NoTx, tx'[t] # tx[t]
        PROVE  StepsLeft(t)' < StepsLeft(t)
    <2>0. Typed
      BY <1>1 DEF IInv
    <2>1. Step(t)
      BY <1>1, <2>0, TxStep, OtherSteps
    <2>2. tx[t].pc \in {"first", "second", "commit"}
      BY <2>0, <2>1, TxStep DEF Tx
    <2>3. \/ tx'[t].pc = "none"
          \/ tx[t].pc = "first" /\ tx'[t].pc = "second"
          \/ tx[t].pc = "second" /\ tx'[t].pc = "commit"
      BY <2>0, <2>1, TxStep, NoLocks
    <2> QED BY SMTT(30), <2>2, <2>3 DEF StepsLeft
  <1>2. IInv /\ [Next]_vars =>
          [\A t \in Txs : tx[t] # NoTx => tx'[t] = tx[t] \/ StepsLeft(t)' < StepsLeft(t)]_vars
    BY <1>1
  <1> QED BY <1>2, InitIInv, NextIInv, PTL DEF Spec, OnlyForward
=============================================================================
