------------------------------ MODULE Delivery ------------------------------
(***************************************************************************)
(* A message from the chat service to its receivers: the Kafka topic, the  *)
(* consumer (msg_server/src/consumer.rs), the inbox in MongoDB, the        *)
(* history in Postgres and the push to the gateways.                       *)
(*                                                                         *)
(* The consumer takes one message at a time.  It numbers it for each       *)
(* receiver, spawns a task that stores it and one that pushes it, waits    *)
(* for both and commits the offset without waiting for the broker.  An     *)
(* error of handle_msg leaves the offset uncommitted, and a later commit   *)
(* passes over it.  After a crash the consumer resumes behind the last     *)
(* committed offset and handles what follows again.                        *)
(***************************************************************************)
EXTENDS Integers, Sequences, FiniteSets

CONSTANTS Users, Members,  \* of the one group of the model
          Kinds(_),        \* the classes the i-th message may have
          None,            \* the sender's copy of a group message
          MaxLog,          \* bound of the model: messages produced
          MaxCrash         \* bound of the model: crashes of the consumer

AllKinds == {"single", "connect", "call", "notice", "ack", "read",
             "group", "groupfile"}

ASSUME DeliveryAssumption ==
    /\ Members \subseteq Users /\ None \notin Users
    /\ MaxLog \in Nat /\ MaxCrash \in Nat
    /\ \A i \in 1..MaxLog : Kinds(i) \subseteq AllKinds

VARIABLES
    log,        \* the topic's one partition
    pos,        \* offset of the message being or last handled
    committed,  \* the broker's offset of the consumer group
    acking,     \* the offset the consumer has sent for commit
    h,          \* where handle_msg is
    nums,       \* the numbers it has drawn for the message, by receiver
    pushing,    \* whether its push task is running
    stores,     \* database tasks running: offset and numbers of the message
    seq,        \* Redis: the last number drawn for each user
    inbox,      \* MongoDB: one copy per receiver
    crashes,
    pushed,     \* history: numbered copies pushed to a user
    stored,     \* history: every copy ever put into the inbox
    failed,     \* history: offsets whose handling returned an error
    errs        \* history: offsets whose database task logged an error

kafka == <<log, committed>>
run   == <<pos, acking, h, nums, pushing>>
mongo == <<inbox, stored, errs>>
vars == <<kafka, run, mongo, stores, seq, crashes, pushed, failed>>

Message == [kind : AllKinds, from : Users, to : Users, ref : 0..MaxLog]
Copy == [at : 1..MaxLog, to : Users \cup {None}, n : Nat]
Numbers == [Users -> Nat]   \* 0: no number drawn
NoNumbers == [u \in Users |-> 0]

TypeOK ==
    /\ log \in Seq(Message)
    /\ pos \in 0..Len(log) /\ committed \in 0..Len(log)
    /\ acking \in 0..Len(log)
    /\ h \in {"idle", "taken", "numbered", "tasks"}
    /\ nums \in Numbers
    /\ pushing \in BOOLEAN
    /\ stores \subseteq [at : 1..MaxLog, nums : Numbers]
    /\ seq \in Numbers
    /\ inbox \subseteq Copy /\ stored \subseteq Copy
    /\ crashes \in 0..MaxCrash
    /\ pushed \subseteq Copy
    /\ failed \subseteq 1..MaxLog /\ errs \subseteq 1..MaxLog

Init ==
    /\ log = <<>> /\ pos = 0 /\ committed = 0 /\ acking = 0
    /\ h = "idle" /\ nums = NoNumbers /\ pushing = FALSE /\ stores = {}
    /\ seq = NoNumbers
    /\ inbox = {} /\ crashes = 0
    /\ pushed = {} /\ stored = {} /\ failed = {} /\ errs = {}
-----------------------------------------------------------------------------
(* The classes of messages (classify_msg_type, get_send_to_db_flag).       *)

\* "single": chat, friend and most call messages; "connect": ConnectSingleCall;
\* "call": the rest of the call protocol; "notice": unnumbered; "ack": the
\* *Received types, which name an earlier message; "read"; "group": messages to
\* a group; "groupfile": those built without a receiver_id.

IsGroup(k) == k \in {"group", "groupfile"}

NeedIncreaseSeq(k) == k \in {"single", "connect"}

\* Mutant: chat messages are not stored either.
SendToDbNoChat(k) == k \notin {"connect", "call", "single"}

SendToDb(k) == k \notin {"connect", "call"}

\* handle_group_seq asks for the members of receiver_id, which is empty in
\* the messages of the group file, poll, mute and announcement handlers.
GroupMembers(m) == IF m.kind = "groupfile" THEN {} ELSE Members \ {m.from}

\* Those for whom a number is drawn.
Receivers(m) ==
    IF IsGroup(m.kind) THEN GroupMembers(m)
    ELSE IF NeedIncreaseSeq(m.kind) THEN {m.to} ELSE {}
-----------------------------------------------------------------------------
(* ChatRpcService::send_msg: the message is in the topic once the sender   *)
(* is told so.  An "ack" carries the server_id of an earlier message.      *)
SendMsg(m) ==
    /\ Len(log) < MaxLog /\ m.kind \in Kinds(Len(log) + 1)
    /\ m.kind = "ack" <=> m.ref > 0
    /\ m.ref <= Len(log)
    /\ (m.to = m.from) <=> (IsGroup(m.kind) \/ m.kind = "read")   \* no one user
    /\ log' = Append(log, m)
    /\ UNCHANGED <<committed, run, mongo, stores, seq, crashes, pushed, failed>>
-----------------------------------------------------------------------------
(* handle_msg.                                                             *)

\* Mutant: the last message is left in the topic.
MoreButLast == pos + 1 < Len(log)

More == pos < Len(log)

\* MsgConsumer::consume: recv.
Recv ==
    /\ h = "idle" /\ More
    /\ pos' = pos + 1
    /\ h' = "taken" /\ nums' = NoNumbers
    /\ UNCHANGED <<kafka, acking, pushing, mongo, stores, seq, crashes, pushed, failed>>

\* The offset handed to commit_message.
SendsCommit == pos

\* handle_msg returned Ok: commit_message in async mode.
Succeed ==
    /\ h' = "idle" /\ acking' = SendsCommit
    /\ UNCHANGED <<kafka, pos, nums, pushing, mongo, stores, seq, crashes, pushed, failed>>

\* handle_msg returned an error: the loop goes on with the next message.
Return ==
    /\ h' = "idle" /\ pushing' = FALSE
    /\ failed' = failed \cup {pos}
    /\ UNCHANGED <<kafka, pos, acking, nums, mongo, stores, seq, crashes, pushed>>

\* handle_msg_read: marks copies as read and ends the handling.
HandleMsgRead == h = "taken" /\ log[pos].kind = "read" /\ Succeed

\* Mutant: the number is not advanced.
IncreasedNowhere(m) == seq

Increased(m) == [u \in Users |-> IF u \in Receivers(m) THEN seq[u] + 1 ELSE seq[u]]

Drawn(m) == [u \in Users |-> IF u \in Receivers(m) THEN seq[u] + 1 ELSE 0]

\* increase_message_seq or handle_group_seq: the script draws the numbers.
IncreaseSeq ==
    /\ h = "taken" /\ log[pos].kind # "read"
    /\ seq' = Increased(log[pos])
    /\ nums' = Drawn(log[pos])
    /\ h' = "numbered"
    /\ UNCHANGED <<kafka, pos, acking, pushing, mongo, stores, crashes, pushed, failed>>

\* An error before the numbers are drawn (parsing, Redis, Postgres), or after
\* it: saving max_seq, or changing the group members in the cache.
HandleMsgError ==
    /\ h = "taken" \/ (h = "numbered" /\ Receivers(log[pos]) # {})
    /\ Return

SpawnTasks ==
    /\ h = "numbered" /\ h' = "tasks"
    /\ stores' = IF SendToDb(log[pos].kind)
                 THEN stores \cup {[at |-> pos, nums |-> nums]} ELSE stores
    /\ pushing' = TRUE
    /\ UNCHANGED <<kafka, pos, acking, nums, mongo, seq, crashes, pushed, failed>>

\* The push reaches gateways, or its errors are logged.
Push ==
    /\ pushing /\ pushing' = FALSE
    /\ \/ pushed' = pushed \cup {[at |-> pos, to |-> u, n |-> nums[u]] :
                                    u \in Receivers(log[pos])}
       \/ pushed' = pushed
    /\ UNCHANGED <<kafka, pos, acking, h, nums, mongo, stores, seq, crashes, failed>>

\* mpsc::channel(0) panics when no gateway is known, which depends on the
\* service registry (see Pusher).  try_join_all returns the
\* JoinError at once; the database task, if still running, is left to itself.
PushPanics == pushing /\ Return

\* Mutant: the tasks are not awaited.
JoinNone == h = "tasks"

\* try_join_all has both tasks' results.
Joined == h = "tasks" /\ ~pushing /\ \A s \in stores : s.at # pos

HandleMsgReturns == Joined /\ Succeed
-----------------------------------------------------------------------------
(* The database task: handle_message and handle_group_message.             *)

MemberCopies(s) == {[at |-> s.at, to |-> u, n |-> s.nums[u]] :
                        u \in Receivers(log[s.at])}

SenderCopy(s) == [at |-> s.at, to |-> None, n |-> 0]

\* save_message: one document; save_group_msg: one for the sender, with the
\* group as receiver, and one for each member.
Copies(s) ==
    LET m == log[s.at] IN
    IF IsGroup(m.kind) THEN {SenderCopy(s)} \cup MemberCopies(s)
    ELSE {[at |-> s.at, to |-> m.to, n |-> s.nums[m.to]]}

Inserts(s, cs) ==
    /\ inbox' = inbox \cup cs /\ stored' = stored \cup cs

\* Mutant: delete_many.
DeletesAll(i) == inbox' = {c \in inbox : c.at # i} /\ stored' = stored

\* delete_message: delete_one with the server_id alone.
Deletes(i) ==
    /\ \/ \E c \in inbox : c.at = i /\ inbox' = inbox \ {c}
       \/ (\A c \in inbox : c.at # i) /\ inbox' = inbox
    /\ stored' = stored

\* The history in Postgres never changes: its INSERT names ten columns for
\* eleven values and is refused, which both handlers log and go on from.
StoreEnds(s) ==
    /\ s \in stores /\ stores' = stores \ {s}
    /\ UNCHANGED <<kafka, run, seq, crashes, pushed, failed>>

Store(s) ==
    /\ StoreEnds(s)
    /\ IF log[s.at].kind = "ack" THEN Deletes(log[s.at].ref) ELSE Inserts(s, Copies(s))
    /\ errs' = errs

\* MongoDB fails: insert_many may have inserted the first few documents.
StoreError(s) ==
    /\ StoreEnds(s)
    /\ errs' = errs \cup {s.at}
    /\ \/ UNCHANGED <<inbox, stored>>
       \/ /\ IsGroup(log[s.at].kind)
          /\ \E us \in SUBSET MemberCopies(s) : Inserts(s, {SenderCopy(s)} \cup us)
-----------------------------------------------------------------------------
(* The broker and crashes.                                                 *)

CommitArrives ==
    /\ acking # committed /\ committed' = acking
    /\ UNCHANGED <<log, run, mongo, stores, seq, crashes, pushed, failed>>

\* A crash of the consumer takes its tasks with it; the next one resumes
\* behind the committed offset.
Crash ==
    /\ crashes < MaxCrash /\ crashes' = crashes + 1
    /\ pos' = committed /\ acking' = committed
    /\ h' = "idle" /\ nums' = NoNumbers /\ pushing' = FALSE /\ stores' = {}
    /\ UNCHANGED <<kafka, mongo, seq, pushed, failed>>
-----------------------------------------------------------------------------
Consumes ==
    \/ Recv \/ HandleMsgRead \/ IncreaseSeq \/ SpawnTasks \/ HandleMsgReturns
    \/ HandleMsgError

Pushes == Push \/ PushPanics

Stores == \E s \in stores : Store(s) \/ StoreError(s)

\* Nothing to do: the consumer waits in recv.
Idle == h = "idle" /\ ~More /\ stores = {} /\ acking = committed /\ UNCHANGED vars

Next ==
    \/ \E m \in Message : SendMsg(m)
    \/ Consumes \/ Pushes \/ Stores
    \/ CommitArrives \/ Crash \/ Idle

Spec == Init /\ [][Next]_vars

\* The runtime polls the consumer and its tasks, MongoDB and the gateways
\* answer or time out, and the client sends its commits.
Fairness ==
    /\ WF_vars(Consumes) /\ WF_vars(Pushes) /\ WF_vars(Stores)
    /\ WF_vars(CommitArrives)

FairSpec == Spec /\ Fairness
-----------------------------------------------------------------------------
(* Properties.                                                             *)

\* Offset i has a copy for everyone it was addressed to.
HasCopies(i) ==
    \/ log[i].kind \in {"ack", "read"} \/ ~SendToDb(log[i].kind)
    \/ \A u \in Receivers(log[i]) : \E c \in stored : c.at = i /\ c.to = u

\* The commit never outruns the work: an offset the broker has recorded has
\* been stored for all its receivers, or consume or the database task has
\* logged an error for it.  Crashes between the steps of handle_msg, and
\* commits that arrive late, make no exception.
CommittedIsStored ==
    \A i \in 1..committed : i \in failed \cup errs \/ HasCopies(i)

\* A number tells a user's messages apart: whatever was stored or pushed to
\* a user under a number of increase_seq or incr_group_seq is one message,
\* also when it was handled twice.
NumberNamesOneMessage ==
    \A c, d \in stored \cup pushed :
        (c.to = d.to /\ c.n = d.n /\ c.n > 0) => c.at = d.at

\* As long as nothing fails, a user's inbox is in the order of the topic: a
\* message's number is larger than a number of every earlier message, whatever
\* the consumer repeats after a crash.
InboxInTopicOrder ==
    failed \cup errs = {} =>
        \A c, d \in stored :
            (c.to = d.to /\ c.to # None /\ c.at < d.at /\ c.n > 0 /\ d.n > 0) =>
                \E e \in stored : e.to = c.to /\ e.at = c.at /\ e.n < d.n

\* The numbers drawn for a user that are on no copy.
Missing(u) == {n \in 1..seq[u] : \A c \in stored : c.to = u => c.n # n}

\* The ConnectSingleCall messages to a user among the first k of the topic.
Connects(u, k) == {i \in 1..k : log[i].kind = "connect" /\ log[i].to = u}

\* A client that misses a number finds it in the inbox: without errors and
\* crashes, and between two messages, every number drawn for a user is on a
\* stored copy, except one for each ConnectSingleCall, which increase_message_seq
\* numbers and get_send_to_db_flag keeps out of the inbox.
EveryNumberStored ==
    (failed \cup errs = {} /\ crashes = 0 /\ h = "idle") =>
        \A u \in Users : Cardinality(Missing(u)) = Cardinality(Connects(u, pos))

\* The acknowledgements of the i-th message, and the copies of it that went.
Acks(i) == {j \in 1..Len(log) : log[j].kind = "ack" /\ log[j].ref = i}
Gone(i) == {c \in stored \ inbox : c.at = i}

\* A copy goes when its message is acknowledged, and one for each time the
\* acknowledgement is handled (delete_message deletes one document of the id,
\* of whichever receiver): once, and again after a crash.
AcksTakeOneEach ==
    \A i \in 1..Len(log) :
        Cardinality(Gone(i)) <= Cardinality(Acks(i)) * (crashes + 1)

\* What is written to the topic is handled: its offset is committed in the
\* end, or the consumer has logged that it failed.
EveryMessageHandled ==
    \A i \in 1..MaxLog : Len(log) >= i ~> (i <= committed \/ i \in failed)
-----------------------------------------------------------------------------
(* The inductive invariant of DeliveryProofs.                              *)

\* What belongs into the inbox.
Storable(i) == log[i].kind \notin {"ack", "read"} /\ SendToDb(log[i].kind)

Settled(i) == i \in failed \cup errs \/ HasCopies(i)

\* The offsets are in order, and what the consumer has left behind is settled;
\* what its tasks are about is settled or about to be stored.
Handled ==
    /\ committed <= acking /\ acking <= pos
    /\ h # "idle" => acking < pos
    /\ pushing => h = "tasks"
    /\ \A i \in 1..pos : (i < pos \/ h = "idle") => Settled(i)
    /\ h = "tasks" => Settled(pos) \/ \E s \in stores : s.at = pos

\* Every number given to a message for a user: on copies, in the database
\* tasks, and in the hands of handle_msg.
Labels ==
    stored \cup pushed
    \cup {[at |-> s.at, to |-> u, n |-> s.nums[u]] : s \in stores, u \in Users}
    \cup {[at |-> pos, to |-> u, n |-> nums[u]] : u \in Users}

\* Redis is ahead of them, they tell messages apart, and they are on messages
\* that want them.
Numbered ==
    /\ \A c \in Labels : c.n > 0 =>
          /\ c.to \in Users /\ c.n <= seq[c.to]
          /\ c.at \in 1..Len(log) /\ c.to \in Receivers(log[c.at])
    /\ \A c, d \in Labels : (c.to = d.to /\ c.n = d.n /\ c.n > 0) => c.at = d.at

\* Only what belongs there is stored or about to be.
OnlyStorable ==
    /\ \A s \in stores : s.at \in 1..Len(log) /\ SendToDb(log[s.at].kind)
                                              /\ log[s.at].kind # "read"
    /\ \A c \in stored : c.at \in 1..Len(log) /\ Storable(c.at)
    /\ h \in {"numbered", "tasks"} => log[pos].kind # "read"

\* A number is drawn when everything before its message has been stored.
Ordered ==
    failed \cup errs = {} =>
        \A d \in Labels : d.n > 0 =>
            \A i \in 1..(d.at - 1) :
                (Storable(i) /\ d.to \in Receivers(log[i])) =>
                    \E e \in stored : e.to = d.to /\ e.at = i /\ e.n < d.n

IInv == TypeOK /\ Len(log) <= MaxLog /\ Handled /\ Numbered /\ OnlyStorable /\ Ordered

\* The last message that handle_msg is done with.
Behind == IF h = "idle" THEN pos ELSE pos - 1

\* The numbers that are missing but for the one in the hands of handle_msg.
Skipped(u) == Missing(u) \ (IF h = "idle" THEN {} ELSE {nums[u]})

\* As long as nothing fails, messages are stored one after the other, each under
\* the numbers drawn for it, and a number is skipped for a ConnectSingleCall.
Counted ==
    (failed \cup errs = {} /\ crashes = 0) =>
        /\ \A s \in stores : h = "tasks" /\ s.at = pos /\ s.nums = nums
        /\ \A c \in stored :
              /\ c.at <= pos
              /\ (c.at = pos /\ c.to \in Users /\ h # "idle") =>
                    h = "tasks" /\ c.n = nums[c.to]
        /\ h = "taken" => nums = NoNumbers
        /\ h \in {"numbered", "tasks"} => \A u \in Receivers(log[pos]) : nums[u] > 0
        /\ \A u \in Users : Cardinality(Skipped(u)) = Cardinality(Connects(u, Behind))

\* The acknowledgements of a message that a database task is handling, and
\* those the consumer has yet to hand to one.
Acking(i) == {s \in stores : log[s.at].kind = "ack" /\ log[s.at].ref = i}
Unhandled(i) == {j \in Acks(i) : j > pos \/ (j = pos /\ h \in {"taken", "numbered"})}

\* Between two crashes an acknowledgement passes through the consumer once.
Balanced ==
    \A i \in 1..MaxLog :
        /\ IsFiniteSet(Gone(i)) /\ IsFiniteSet(Acking(i))
        /\ Cardinality(Gone(i)) + Cardinality(Acking(i)) + Cardinality(Unhandled(i))
              <= Cardinality(Acks(i)) * (crashes + 1)
-----------------------------------------------------------------------------
(* What EveryMessageHandled rests on.                                      *)

\* Offset i is behind the consumer, and neither sent for commit nor failed.
Dropped(i) == i <= Behind /\ i > acking /\ i \notin failed

\* A consumer that waits for messages, and whose commit has arrived, has
\* committed every offset of the topic or logged an error for it.
NothingDropped ==
    (h = "idle" /\ ~More /\ acking = committed) =>
        \A i \in 1..Len(log) : i <= committed \/ i \in failed
=============================================================================
