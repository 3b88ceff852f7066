------------------------------- MODULE MsgBox -------------------------------
(***************************************************************************)
(* MsgBox (db/src/mongodb/message.rs), the receive box used without        *)
(* sharding: one collection, no unique index, every operation one          *)
(* statement of MongoDB.  A group message is stored by one ordered         *)
(* insert_many, the sender's copy first, with the group as its receiver.   *)
(***************************************************************************)
EXTENDS Integers, Sequences

CONSTANTS Users, Group,
          Unit,             \* units of send_time per second
          Period,           \* retention, in days
          Last,             \* bound of the model: the clock, in days
          MaxSave, MaxAsk   \* bounds of the model: saves, other requests

ASSUME MsgBoxAssumption ==
    /\ Group \notin Users
    /\ Unit \in Nat \ {0} /\ Period \in Nat
    /\ Last \in Nat /\ MaxSave \in Nat /\ MaxAsk \in Nat

VARIABLES now,
          sent,     \* the messages of the topic, in order
          docs,     \* the documents of single_msg_box
          saving,   \* documents insert_many has yet to insert
          draws,    \* saves so far; each draws a number
          asks,     \* other requests so far
          asked     \* history: requests, as Inbox counts them

vars == <<now, sent, docs, saving, draws, asks, asked>>

Msg == [at : 0..Last, from : Users, to : Users \cup {Group}, spared : BOOLEAN]
Doc == [m : 1..MaxSave, to : Users \cup {Group}, n : 0..MaxSave,
        by : 1..MaxSave, read : BOOLEAN]

TypeOK ==
    /\ now \in 0..Last
    /\ sent \in Seq(Msg) /\ Len(sent) <= MaxSave
    /\ docs \subseteq Doc /\ saving \subseteq Doc
    /\ draws \in 0..MaxSave /\ asks \in 0..MaxAsk

Init ==
    /\ now = 0 /\ sent = <<>> /\ docs = {} /\ saving = {}
    /\ draws = 0 /\ asks = 0 /\ asked = {}

\* send_time, set by ChatRpcService::send_msg.
SendTime(m) == sent[m].at * Unit
-----------------------------------------------------------------------------
(* save_message and save_group_msg; each attempt has its own documents.    *)

Doc1(m, u, n, k) == [m |-> m, to |-> u, n |-> n, by |-> k, read |-> FALSE]

\* The sender's copy keeps its number 0.
Documents(m, msg, k) ==
    IF msg.to # Group THEN {Doc1(m, msg.to, k, k)}
    ELSE {Doc1(m, Group, 0, k)} \cup {Doc1(m, u, k, k) : u \in Users \ {msg.from}}

Save(m, msg) ==
    /\ saving = {} /\ draws < MaxSave /\ draws' = draws + 1
    /\ saving' = Documents(m, msg, draws')
    /\ UNCHANGED <<now, docs, asks, asked>>

SaveNew(msg) ==
    /\ msg.at = now /\ msg.to # msg.from
    /\ sent' = Append(sent, msg)
    /\ Save(Len(sent'), msg)

\* The message is handled again after a crash, with new numbers.
SaveAgain ==
    /\ sent # <<>> /\ UNCHANGED sent
    /\ Save(Len(sent), sent[Len(sent)])

\* The sender's copy goes first, the members' follow in some order.
InTurn(d) == d.to # Group => \A e \in saving : e.to # Group

Insert(d) ==
    /\ d \in saving /\ InTurn(d)
    /\ docs' = docs \cup {d} /\ saving' = saving \ {d}
    /\ UNCHANGED <<now, sent, draws, asks, asked>>

\* An error, or a crash of the server: an ordered insert_many stops there.
InsertFails ==
    /\ saving # {} /\ saving' = {}
    /\ UNCHANGED <<now, sent, docs, draws, asks, asked>>
-----------------------------------------------------------------------------
(* The other requests.                                                     *)

Ask(rs) == asks < MaxAsk /\ asks' = asks + 1 /\ asked' = asked \cup rs

Requests(kind, u, ns) == {[kind |-> kind, to |-> u, n |-> n] : n \in ns}

\* delete_message: delete_one, any document with the id.
DeleteMessage(m) ==
    /\ Ask({[kind |-> "id", m |-> m]})
    /\ LET ds == {d \in docs : d.m = m} IN
       IF ds = {} THEN UNCHANGED docs ELSE \E d \in ds : docs' = docs \ {d}
    /\ UNCHANGED <<now, sent, saving, draws>>

\* Mutant: the query selects by number only.
SelectedByNumber(u, ns) == {d \in docs : d.n \in ns}

Selected(u, ns) == {d \in docs : d.to = u /\ d.n \in ns}

DeleteMessages(u, ns) ==
    /\ Ask(Requests("number", u, ns))
    /\ docs' = docs \ Selected(u, ns)
    /\ UNCHANGED <<now, sent, saving, draws>>

MsgRead(u, ns) ==
    /\ Ask(Requests("read", u, ns))
    /\ docs' = (docs \ Selected(u, ns)) \cup {[d EXCEPT !.read = TRUE] : d \in Selected(u, ns)}
    /\ UNCHANGED <<now, sent, saving, draws>>

\* The cut-off of clean_receive_box is in seconds.
Expired(d) == SendTime(d.m) < now - Period /\ ~sent[d.m].spared

CleanReceiveBox ==
    /\ docs' = {d \in docs : ~Expired(d)}
    /\ asked' = asked \cup {[kind |-> "before", at |-> now - Period]}
    /\ UNCHANGED <<now, sent, saving, draws, asks>>

DayPasses ==
    /\ now < Last /\ now' = now + 1
    /\ UNCHANGED <<sent, docs, saving, draws, asks, asked>>
-----------------------------------------------------------------------------
\* No request: the servers wait.
Idle == saving = {} /\ UNCHANGED vars

Next ==
    \/ \E msg \in Msg : SaveNew(msg)
    \/ SaveAgain \/ InsertFails \/ \E d \in saving : Insert(d)
    \/ \E m \in 1..Len(sent) : DeleteMessage(m)
    \/ \E u \in Users, ns \in SUBSET (1..draws) \ {{}} : DeleteMessages(u, ns) \/ MsgRead(u, ns)
    \/ CleanReceiveBox \/ DayPasses \/ Idle

Spec == Init /\ [][Next]_vars

\* Mutant: send_seq is not reset in the members' copies.
SendSeqKept(d) == 1

\* send_seq of a document: reset in the copies for the members of a group.
SendSeq(d) == IF d.to # Group /\ sent[d.m].to = Group THEN 0 ELSE 1

\* get_msgs, from behind the numbers r (received) and s (sent) on.
GetMsgs(u, r, s) ==
    {d \in docs : \/ d.to = u /\ d.n > r
                  \/ sent[d.m].from = u /\ SendSeq(d) > s}
-----------------------------------------------------------------------------
(* Properties.                                                             *)

Copy(d) == [m |-> d.m, to |-> d.to, n |-> d.n, by |-> d.by, at |-> SendTime(d.m),
            spared |-> sent[d.m].spared, read |-> d.read]

Box == INSTANCE Inbox WITH box <- {Copy(d) : d \in docs}

\* The single collection keeps what Inbox promises: no copy goes or is marked
\* that nobody asked for, whatever is saved again after a crash.
IsInbox == Box!Spec

\* What a user pulls of a group message is their own: of a message they sent,
\* the sender's copy and never those of the members, also from the first
\* number on (save_group_msg resets send_seq, get_msgs excludes the start).
\* And each save of a message, of one user or of a group, gives them one copy.
PullsOwnCopies ==
    \A u \in Users : \A d \in GetMsgs(u, 0, 0) :
        /\ sent[d.m].to = Group => d.to = u \/ (d.to = Group /\ sent[d.m].from = u)
        /\ \A e \in GetMsgs(u, 0, 0) : e.by = d.by => e = d
-----------------------------------------------------------------------------
(* The inductive invariant.                                                *)

\* A document is of a message of the topic, for someone it is addressed to.
Addressed(d) ==
    /\ d.m \in 1..Len(sent) /\ d.by <= draws
    /\ d.to # sent[d.m].from
    /\ sent[d.m].to # Group => d.to = sent[d.m].to

\* A save is about one message, with one document for a receiver.
OneEach(ds) ==
    \A d, e \in ds : d.by = e.by => d.m = e.m /\ (d.to = e.to => d = e)

\* What is yet to be inserted is of the latest save.
Pending ==
    \A d \in saving : ~d.read /\ d.m = Len(sent) /\ d.by = draws /\ d \notin docs

IInv ==
    /\ TypeOK /\ Len(sent) <= draws
    /\ \A m \in 1..Len(sent) : sent[m].to # sent[m].from
    /\ (\A d \in docs \cup saving : Addressed(d)) /\ OneEach(docs \cup saving) /\ Pending
=============================================================================
