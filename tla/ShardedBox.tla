----------------------------- MODULE ShardedBox -----------------------------
(***************************************************************************)
(* HybridShardedMsgBox (db/src/mongodb/sharded_message.rs), the receive    *)
(* box that config.yml selects: one collection per calendar month and      *)
(* range of users.  A copy goes into the collection of its send_time and   *)
(* its receiver; a user's request goes to the collections of the last few  *)
(* months, one after the other; a request by message id and the cleaner go *)
(* to the collections an instance tracks in active_collections.            *)
(*                                                                         *)
(* Three instances exist: the consumer's, which saves, acknowledges and    *)
(* marks, one at a time; the API's, which pulls and deletes; and the one   *)
(* of the cleaner.  The clock counts months.                               *)
(***************************************************************************)
EXTENDS Integers, Sequences, FiniteSets

CONSTANTS Users,
          Unit,      \* units of send_time per second
          Period,    \* retention, in months
          First,     \* the month the model begins with
          MaxAsk,    \* bound of the model: requests other than saving
          Settings   \* what a behaviour takes one of: the ranges of the users
                     \* (get_user_range), the requests in use besides saving,
                     \* the last month and the number of saves

ASSUME ShardedBoxAssumption ==
    /\ Unit \in Nat \ {0} /\ Period \in Nat /\ MaxAsk \in Nat
    /\ First \in Nat /\ First > Period + 2
    /\ Settings \subseteq [range : [Users -> Nat], last : Nat, saves : Nat,
                          ops : SUBSET {"delete", "read", "pull", "ack", "clean"}]

VARIABLES
    setting,
    now,
    sent,      \* the messages of the topic, in order
    docs,      \* the documents of all collections
    inserts,   \* insert_one tasks running
    draws,     \* saves so far; each draws a number
    asks,      \* other requests so far
    cons,      \* what the consumer is doing with its instance
    api,       \* what a handler of the API is doing
    active,    \* active_collections of the consumer's instance
    tracked,   \* active_collections of the cleaner's instance
    clean,     \* the cleaner: where it is
    asked,     \* history: requests, as Inbox counts them
    had,       \* history: message and receiver of every copy ever stored
    lost       \* history: those whose insert in the latest save came to nothing

clock == <<setting, now>>
store == <<docs, inserts, draws, had, lost>>
cleaner == <<tracked, clean>>
vars == <<clock, sent, store, asks, cons, api, active, cleaner, asked>>

Range == setting.range
Ops == setting.ops
Last == setting.last
MaxSave == setting.saves

Months == First..(Last + 3)
Ranges == {Range[u] : u \in Users}
Msg == [at : First..Last, from : Users, to : SUBSET Users,
        group : BOOLEAN, spared : BOOLEAN]
Nothing == [op |-> "none"]

\* get_collection_name, with get_user_range: ts is taken to be in seconds.
CollectionName(ts, u) == <<ts, Range[u]>>

\* send_time, set by ChatRpcService::send_msg.
SendTime(m) == sent[m].at * Unit

\* The receivers of the copies; a group message has one for its sender too.
CopiesFor(msg) == msg.to \cup (IF msg.group THEN {msg.from} ELSE {})

\* A copy with the sender's send_seq: the members' copies have it reset.
WithSendSeq(msg, u) == ~msg.group \/ u = msg.from

\* The collections of this month and the k months before, of a user.
Recent(u, k) == [i \in 1..(k + 1) |-> CollectionName(now + 1 - i, u)]

\* The collections created in advance.  initialize_system begins with -1 as
\* u32, which no calendar reaches: it takes this month instead.
Ahead == (now..(now + 3)) \X Ranges
-----------------------------------------------------------------------------
Collection == Int \X Nat

Document == [m : 1..Len(sent), to : Users, n : 0..draws, coll : Collection,
             read : BOOLEAN]

InsertTask == [m : 1..Len(sent), to : Users, n : 0..draws, by : 1..draws]

\* What the consumer may be doing.
Saving == [op : {"save"}, by : 1..draws, err : BOOLEAN]
Reading == [op : {"read"}, u : Users, ns : SUBSET Nat, colls : Seq(Collection) \ {<<>>}]
Acking == [op : {"id"}, m : 1..Len(sent), colls : SUBSET Collection]

\* What a handler of the API may be doing.
Deleting == [op : {"number"}, u : Users, ns : SUBSET (1..draws),
             colls : Seq(Collection), due : SUBSET Document]
Pulling == [op : {"pull"}, u : Users, r : 0..1, s : 0..1,
            colls : Seq(Collection), due : SUBSET ((1..Len(sent)) \X Users)]

Sweeping == [pc : {"sweep"}, at : Nat, colls : SUBSET Collection]

TypeOK ==
    /\ setting \in Settings /\ now \in Nat /\ now >= First
    /\ sent \in Seq(Msg) /\ draws \in 0..MaxSave /\ asks \in 0..MaxAsk
    /\ docs \subseteq Document /\ inserts \subseteq InsertTask
    /\ cons \in {Nothing} \cup Saving \cup Reading \cup Acking
    /\ api \in {Nothing} \cup Deleting \cup Pulling
    /\ clean \in [pc : {"tick", "stuck"}] \cup Sweeping
    /\ active \subseteq Collection /\ tracked \subseteq Collection
    /\ had \cup lost \subseteq (1..Len(sent)) \X Users

Init ==
    /\ setting \in Settings
    /\ now = First /\ sent = <<>> /\ docs = {} /\ inserts = {}
    /\ draws = 0 /\ asks = 0 /\ cons = Nothing /\ api = Nothing
    /\ active = Ahead /\ tracked = Ahead /\ clean = [pc |-> "tick"]
    /\ asked = {} /\ had = {} /\ lost = {}
-----------------------------------------------------------------------------
(* save_message and save_group_msg.                                        *)

\* One insert_one task per copy; the sender's copy of a group message has
\* no number.
Save(m, msg) ==
    /\ cons = Nothing /\ draws < MaxSave /\ draws' = draws + 1
    /\ cons' = [op |-> "save", by |-> draws', err |-> FALSE]
    /\ inserts' = inserts \cup
         {[m |-> m, to |-> u, n |-> IF u \in msg.to THEN draws' ELSE 0, by |-> draws'] :
            u \in CopiesFor(msg)}
    /\ lost' = {l \in lost : l[1] # m}
    /\ UNCHANGED <<clock, docs, had, asks, api, active, cleaner, asked>>

\* A message is handled for the first time.
SaveNew(msg) ==
    /\ msg.at = now /\ (msg.spared => "clean" \in Ops)
    /\ IF msg.group THEN msg.to = Users \ {msg.from} ELSE \E u \in Users \ {msg.from} : msg.to = {u}
    /\ sent' = Append(sent, msg)
    /\ Save(Len(sent'), msg)

\* It is handled again after a crash, with new numbers.
SaveAgain ==
    /\ sent # <<>> /\ UNCHANGED sent
    /\ Save(Len(sent), sent[Len(sent)])

\* Mutant: there is no index on server_id and receiver_id.
NoIndex(i, c) == FALSE

\* The unique index of a collection refuses a second copy for a receiver.
Duplicate(i, c) == \E d \in docs : d.coll = c /\ d.m = i.m /\ d.to = i.to

\* Mutant: an insert that is refused cancels the others of its save.
CancelsOthers(i) == {j \in inserts : j.by # i.by}

\* The tasks are independent: the others go on.
Remaining(i) == inserts \ {i}

\* The task reports to its save, if that is still waiting for it.
Reports(i, err) ==
    cons' = IF cons.op = "save" /\ cons.by = i.by
            THEN [cons EXCEPT !.err = @ \/ err] ELSE cons

Insert(i) ==
    /\ i \in inserts /\ inserts' = Remaining(i)
    /\ LET c == CollectionName(SendTime(i.m), i.to) IN
       IF Duplicate(i, c)
       THEN Reports(i, TRUE) /\ UNCHANGED <<docs, had>>
       ELSE /\ docs' = docs \cup {[m |-> i.m, to |-> i.to, n |-> i.n,
                                   coll |-> c, read |-> FALSE]}
            /\ had' = had \cup {<<i.m, i.to>>}
            /\ Reports(i, FALSE)
    /\ UNCHANGED <<clock, sent, draws, lost, asks, api, active, cleaner, asked>>

\* MongoDB does not answer, or the collection could not be prepared.
InsertFails(i) ==
    /\ i \in inserts /\ inserts' = inserts \ {i} /\ Reports(i, TRUE)
    /\ lost' = lost \cup {<<i.m, i.to>>}
    /\ UNCHANGED <<clock, sent, docs, draws, had, asks, api, active, cleaner, asked>>

\* All tasks are awaited in turn; the first error returns at once.
SaveReturns ==
    /\ cons.op = "save"
    /\ cons.err \/ \A i \in inserts : i.by # cons.by
    /\ cons' = Nothing
    /\ UNCHANGED <<clock, sent, store, asks, api, active, cleaner, asked>>
-----------------------------------------------------------------------------
(* Requests of a user, over the collections of the last months.            *)

Ask(op) == op \in Ops /\ asks < MaxAsk /\ asks' = asks + 1

\* The documents of a collection that a query for numbers of a user selects.
Numbered(c, u, ns) == {d \in docs : d.coll = c /\ d.to = u /\ d.n \in ns}

Requests(kind, u, ns) == {[kind |-> kind, to |-> u, n |-> n] : n \in ns}

\* delete_messages: this month and the one before.  What was there and is due
\* is tracked.
DeleteBegins(u, ns) ==
    /\ Ask("delete") /\ api = Nothing
    /\ api' = [op |-> "number", u |-> u, ns |-> ns, colls |-> Recent(u, 1),
               due |-> {d \in docs : d.to = u /\ d.n \in ns /\ now - sent[d.m].at <= 1}]
    /\ asked' = asked \cup Requests("number", u, ns)
    /\ UNCHANGED <<clock, sent, store, cons, active, cleaner>>

\* Mutant: one document of the collection goes (delete_one for delete_many).
DeletedOne(q, c) ==
    LET ds == Numbered(c, q.u, q.ns) IN IF ds = {} THEN {} ELSE {CHOOSE d \in ds : TRUE}

\* Mutant: the query selects up to the numbers ($lte for $in).
DeletedUpTo(q, c) ==
    {d \in docs : d.coll = c /\ d.to = q.u /\ \E n \in q.ns : d.n <= n}

Deleted(q, c) == Numbered(c, q.u, q.ns)

Walked(q) == IF Len(q.colls) = 1 THEN Nothing ELSE [q EXCEPT !.colls = Tail(@)]

\* A collection that cannot be prepared is passed over.
DeleteStep ==
    /\ api.op = "number" /\ api.colls # <<>>
    /\ \/ /\ docs' = docs \ Deleted(api, Head(api.colls))
          /\ api' = [api EXCEPT !.colls = Tail(@)]
       \/ docs' = docs /\ api' = [api EXCEPT !.colls = Tail(@), !.due = {}]
    /\ UNCHANGED <<clock, sent, inserts, draws, had, lost, asks, cons, active, cleaner, asked>>

\* msg_read, for a MsgRead message the consumer handles.
ReadBegins(u, ns) ==
    /\ Ask("read") /\ cons = Nothing
    /\ cons' = [op |-> "read", u |-> u, ns |-> ns, colls |-> Recent(u, 1)]
    /\ asked' = asked \cup Requests("read", u, ns)
    /\ UNCHANGED <<clock, sent, store, api, active, cleaner>>

ReadStep ==
    /\ cons.op = "read"
    /\ LET ds == Numbered(Head(cons.colls), cons.u, cons.ns) IN
       \/ docs' = (docs \ ds) \cup {[d EXCEPT !.read = TRUE] : d \in ds}
       \/ docs' = docs
    /\ cons' = Walked(cons)
    /\ UNCHANGED <<clock, sent, inserts, draws, had, lost, asks, api, active, cleaner, asked>>

\* Which copies these are: message and receiver.
Copies(ds) == {<<d.m, d.to>> : d \in ds}

\* The copies for u, numbered r or above, of the last three months.
Due(u, r) == Copies({d \in docs : d.to = u /\ d.n >= r /\ now - sent[d.m].at <= 2})

\* get_msgs: this month and the two before, from the numbers r (received) and
\* s (sent) on; the requests of the model use one for both.  What was there
\* and is due is tracked until it is found or gone.
PullBegins(u, r, s) ==
    /\ Ask("pull") /\ api = Nothing
    /\ api' = [op |-> "pull", u |-> u, r |-> r, s |-> s,
               colls |-> Recent(u, 2), due |-> Due(u, r)]
    /\ UNCHANGED <<clock, sent, store, cons, active, cleaner, asked>>

\* Mutant: received with a number above ($gt for $gte).
MatchesAbove(q, d) ==
    \/ d.to = q.u /\ d.n > q.r
    \/ sent[d.m].from = q.u /\ WithSendSeq(sent[d.m], d.to) /\ q.s = 0

\* The $match of the pipeline: received with a number, or sent with one.
Matches(q, d) ==
    \/ d.to = q.u /\ d.n >= q.r
    \/ sent[d.m].from = q.u /\ (IF WithSendSeq(sent[d.m], d.to) THEN 1 ELSE 0) >= q.s

PullStep ==
    /\ api.op = "pull" /\ api.colls # <<>>
    /\ LET found == {d \in docs : d.coll = Head(api.colls) /\ Matches(api, d)} IN
       api' = [api EXCEPT !.colls = Tail(@), !.due = @ \cap Copies(docs \ found)]
    /\ UNCHANGED <<clock, sent, store, asks, cons, active, cleaner, asked>>

PullSkips ==
    /\ api.op = "pull" /\ api.colls # <<>>
    /\ api' = [api EXCEPT !.colls = Tail(@), !.due = {}]
    /\ UNCHANGED <<clock, sent, store, asks, cons, active, cleaner, asked>>

RequestReturns ==
    /\ api # Nothing /\ api.colls = <<>> /\ api' = Nothing
    /\ UNCHANGED <<clock, sent, store, asks, cons, active, cleaner, asked>>

\* A statement fails, or the server stops: the request ends where it is.
RequestFails ==
    /\ api # Nothing /\ api' = Nothing
    /\ UNCHANGED <<clock, sent, store, asks, cons, active, cleaner, asked>>
-----------------------------------------------------------------------------
(* delete_message, over the collections the instance tracks: the first     *)
(* that holds the id loses one document.                                   *)

\* The collections among cs that hold, or are about to hold, a document the
\* walk is for; the others are passed over.
Holding(cs, ms) ==
    {c \in cs : \/ \E d \in docs : d.coll = c /\ d.m \in ms
                \/ \E i \in inserts : i.m \in ms /\ c = CollectionName(SendTime(i.m), i.to)}

AckBegins(m) ==
    /\ Ask("ack") /\ cons = Nothing
    /\ cons' = [op |-> "id", m |-> m, colls |-> Holding(active, {m})]
    /\ asked' = asked \cup {[kind |-> "id", m |-> m]}
    /\ UNCHANGED <<clock, sent, store, api, active, cleaner>>

AckStep(c) ==
    /\ cons.op = "id" /\ c \in cons.colls
    /\ LET ds == {d \in docs : d.coll = c /\ d.m = cons.m} IN
       IF ds = {}
       THEN cons' = [cons EXCEPT !.colls = @ \ {c}] /\ UNCHANGED docs
       ELSE /\ \E d \in ds : docs' = docs \ {d}
            /\ cons' = Nothing
    /\ UNCHANGED <<clock, sent, inserts, draws, had, lost, asks, api, active, cleaner, asked>>

AckReturns ==
    /\ cons.op = "id" /\ cons.colls = {} /\ cons' = Nothing
    /\ UNCHANGED <<clock, sent, store, asks, api, active, cleaner, asked>>

\* A statement of delete_message or msg_read fails.
WalkFails ==
    /\ cons.op \in {"id", "read"} /\ cons' = Nothing
    /\ UNCHANGED <<clock, sent, store, asks, api, active, cleaner, asked>>
-----------------------------------------------------------------------------
(* Background tasks.                                                       *)

\* schedule_collection_maintenance needs the write lock of active_collections;
\* delete_message holds the read lock throughout.
Maintain ==
    /\ "ack" \in Ops /\ cons.op # "id" /\ active' = active \cup Ahead
    /\ UNCHANGED <<clock, sent, store, asks, cons, api, cleaner, asked>>

\* The same task of the cleaner's instance.
MaintainTracked ==
    /\ "clean" \in Ops /\ clean.pc = "tick" /\ tracked' = tracked \cup Ahead
    /\ UNCHANGED <<clock, sent, store, asks, cons, api, active, clean, asked>>

\* clean_receive_box: the cut-off is in seconds.
CleanBegins ==
    /\ "clean" \in Ops /\ clean.pc = "tick"
    /\ clean' = [pc |-> "sweep", at |-> now, colls |-> Holding(tracked, 1..Len(sent))]
    /\ asked' = asked \cup {[kind |-> "before", at |-> now - Period]}
    /\ UNCHANGED <<clock, sent, store, asks, cons, api, active, tracked>>

Expired(d, at) == SendTime(d.m) < at - Period /\ ~sent[d.m].spared

\* An error, also of looking the collection up, passes over it.
CleanStep(c) ==
    /\ clean.pc = "sweep" /\ c \in clean.colls
    /\ docs' = {d \in docs : ~(d.coll = c /\ Expired(d, clean.at))} \/ docs' = docs
    /\ clean' = [clean EXCEPT !.colls = @ \ {c}]
    /\ UNCHANGED <<clock, sent, inserts, draws, had, lost, asks, cons, api, active, tracked, asked>>

Outdated == {c \in tracked : c[1] < clean.at - (Period + 2)}

\* With something to remove, the task asks for the write lock while it still
\* holds the read lock it iterates under.
CleanEnds ==
    /\ clean.pc = "sweep" /\ clean.colls = {}
    /\ clean' = [pc |-> IF Outdated = {} THEN "tick" ELSE "stuck"]
    /\ UNCHANGED <<clock, sent, store, asks, cons, api, active, tracked, asked>>

\* The message server stops and starts again.
Crash ==
    /\ cons # Nothing \/ inserts # {}
    /\ cons' = Nothing /\ inserts' = {}
    /\ active' = IF "ack" \in Ops THEN Ahead ELSE active
    /\ lost' = lost \cup {<<i.m, i.to>> : i \in inserts}
    /\ UNCHANGED <<clock, sent, docs, draws, had, asks, api, cleaner, asked>>

MonthPasses ==
    /\ now < Last /\ now' = now + 1
    /\ UNCHANGED <<setting, sent, store, asks, cons, api, active, cleaner, asked>>
-----------------------------------------------------------------------------
Consumes ==
    \/ \E msg \in Msg : SaveNew(msg)
    \/ SaveAgain \/ SaveReturns
    \/ \E i \in inserts : Insert(i) \/ InsertFails(i)
    \/ \E u \in Users, ns \in SUBSET (1..draws) \ {{}} : ReadBegins(u, ns)
    \/ \E m \in 1..Len(sent) : AckBegins(m)
    \/ \E c \in active : AckStep(c)
    \/ ReadStep \/ AckReturns \/ WalkFails \/ Crash

Serves ==
    \/ \E u \in Users, ns \in SUBSET (1..draws) \ {{}} : DeleteBegins(u, ns)
    \/ \E u \in Users, r \in 0..1 : PullBegins(u, r, r)
    \/ DeleteStep \/ PullStep \/ PullSkips \/ RequestReturns \/ RequestFails

Cleans == CleanBegins \/ CleanEnds \/ \E c \in tracked : CleanStep(c)

\* No request: the servers wait.
Idle == cons = Nothing /\ api = Nothing /\ inserts = {} /\ UNCHANGED vars

Next ==
    \/ Idle
    \/ Consumes \/ Serves \/ Maintain
    \/ Cleans \/ MaintainTracked \/ MonthPasses

Spec == Init /\ [][Next]_vars
-----------------------------------------------------------------------------
(* Properties.                                                             *)

Copy(d) == [m |-> d.m, to |-> d.to, n |-> d.n, at |-> SendTime(d.m),
            spared |-> sent[d.m].spared, read |-> d.read]

Box == INSTANCE Inbox WITH box <- {Copy(d) : d \in docs}

\* The sharded box keeps what Inbox promises: whatever months pass while a
\* request walks through its collections, no copy goes or is marked that
\* nobody asked for.
IsInbox == Box!Spec

\* A receiver has at most one copy of a message, however often the consumer
\* saves it, in whatever month it does: the unique index of the collection of
\* its send_time catches the second one.
OneCopyEach ==
    \A d, e \in docs : d.m = e.m /\ d.to = e.to => d = e

\* Saving again makes good what an earlier save lost: every receiver has had a
\* copy, or its insert is running, or the latest save reported an error for
\* it; the duplicates it meets keep none of the others out.
RetryCompletes ==
    \A m \in 1..Len(sent) : \A u \in CopiesFor(sent[m]) :
        \/ <<m, u>> \in had \cup lost
        \/ \E i \in inserts : i.m = m /\ i.to = u

\* get_msgs finds what a user received in the last three months: a copy that
\* was there when it began, and is still there, is in its result, unless a
\* collection could not be prepared and was passed over.
PullFindsRecent ==
    (api.op = "pull" /\ api.colls = <<>>) =>
        api.due \cap Copies(docs) = {}

SameCopy(d, e) == d.m = e.m /\ d.to = e.to /\ d.n = e.n

\* delete_messages deletes what it is asked to of this month and the last: such
\* a copy, there when it began, is gone when it returns, also when the month
\* changes under way, unless a collection was passed over.  (get_msgs goes back
\* one month further, to copies that cannot be deleted.)
DeletesRecent ==
    (api.op = "number" /\ api.colls = <<>>) =>
        \A d \in api.due, e \in docs : ~SameCopy(d, e)
-----------------------------------------------------------------------------
(* The inductive invariant.                                                *)

\* Every document is where its send_time and receiver put it, and in the
\* history; a copy has a number unless it is the sender's of a group message.
Placed ==
    /\ \A d \in docs : /\ d.coll = CollectionName(SendTime(d.m), d.to)
                       /\ <<d.m, d.to>> \in had
    /\ \A x \in docs \cup inserts : x.n > 0 <=> x.to \in sent[x.m].to
    /\ \A m \in 1..Len(sent) : sent[m].at <= now

\* A number is inserted once for a receiver.
InsertedOnce ==
    /\ \A i \in inserts : i.n \in {0, i.by}
    /\ \A i, j \in inserts : i.by = j.by /\ i.to = j.to => i = j
    /\ \A d \in docs, i \in inserts : d.n > 0 /\ d.to = i.to => d.n # i.n

\* Whatever is being done was asked for.
Requested ==
    /\ api.op = "number" => Requests("number", api.u, api.ns) \subseteq asked
    /\ cons.op = "read" => Requests("read", cons.u, cons.ns) \subseteq asked
    /\ cons.op = "id" => [kind |-> "id", m |-> cons.m] \in asked
    /\ clean.pc = "sweep" => [kind |-> "before", at |-> clean.at - Period] \in asked

Remains(colls, c) == \E i \in 1..Len(colls) : colls[i] = c

\* What a pull has yet to find is in a collection it has yet to look at.
PullWalks ==
    api.op = "pull" => \A p \in api.due :
        /\ p[2] = api.u /\ (api.r > 0 => p[2] \in sent[p[1]].to)
        /\ Remains(api.colls, CollectionName(SendTime(p[1]), p[2]))

\* What a deletion has yet to delete is, too, and nothing inserts the rest
\* again.
DeleteWalks ==
    api.op = "number" => \A d \in api.due :
        /\ d.to = api.u /\ d.n \in api.ns
        /\ \A i \in inserts : ~(d.to = i.to /\ d.n = i.n)
        /\ \/ Remains(api.colls, CollectionName(SendTime(d.m), d.to))
           \/ \A e \in docs : ~SameCopy(d, e)

\* The collections named are those written to if send_time is in seconds.
IInv ==
    /\ TypeOK /\ Placed /\ InsertedOnce /\ Requested
    /\ OneCopyEach /\ RetryCompletes
    /\ Unit = 1 => PullWalks /\ DeleteWalks
=============================================================================
