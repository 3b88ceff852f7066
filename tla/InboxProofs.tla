---------------------------- MODULE InboxProofs -----------------------------
(***************************************************************************)
(* The two receive boxes, for any users, any retention, any number of      *)
(* saves and requests.  First the sharded box, for any ranges and months:  *)
(* its steps keep the inductive invariant, and the box is an Inbox.  Then  *)
(* the box of one collection, MsgBox, in the same way.                     *)
(***************************************************************************)
EXTENDS ShardedBox, TLAPS

\* Zenon is tried unless a leaf names Z3, which takes the arithmetic.
USE Zenon

\* The copies in the box, as Inbox has them.
Contents == {Copy(d) : d \in docs}

\* The topic, the numbers drawn and the clock, which go on and never back.
Grows ==
    /\ setting' = setting /\ now' \in Nat /\ now <= now'
    /\ sent' \in Seq(Msg) /\ Len(sent) <= Len(sent')
    /\ \A m \in 1..Len(sent) : sent'[m] = sent[m]
    /\ draws' \in 0..MaxSave /\ draws <= draws'

\* The tables are left alone, up to documents that go or are marked.
OnlyTakes ==
    /\ setting' = setting /\ sent' = sent /\ draws' = draws
    /\ inserts' = inserts /\ had' = had /\ lost' = lost
    /\ now' \in Nat /\ now <= now' /\ asks' \in 0..MaxAsk
    /\ docs' \subseteq Document
    /\ \A e \in docs' : \E d \in docs : SameCopy(d, e) /\ d.coll = e.coll
    /\ active' \subseteq Collection /\ tracked' \subseteq Collection

\* What a request is tells its fields.
LEMMA Kinds ==
    ASSUME TypeOK
    PROVE  /\ api.op = "number" => api \in Deleting
           /\ api.op = "pull" => api \in Pulling
           /\ cons.op = "save" => cons \in Saving
           /\ cons.op = "read" => cons \in Reading
           /\ cons.op = "id" => cons \in Acking
           /\ clean.pc = "sweep" => clean \in Sweeping
  BY SMTT(30) DEF TypeOK, Nothing, Deleting, Pulling, Saving, Reading, Acking, Sweeping

\* The model's constants in a behaviour.
LEMMA Setting ==
    ASSUME TypeOK
    PROVE  /\ Range \in [Users -> Nat] /\ MaxSave \in Nat /\ Last \in Nat
           /\ Unit \in Nat /\ First \in Nat /\ Period \in Nat
           /\ Len(sent) \in Nat /\ draws \in Nat
  BY SMTT(30), ShardedBoxAssumption DEF TypeOK, Range, MaxSave, Last

\* The messages of the topic.
LEMMA Messages ==
    ASSUME TypeOK, NEW m \in 1..Len(sent)
    PROVE  /\ sent[m] \in Msg /\ sent[m].at \in Nat
           /\ sent[m].from \in Users /\ sent[m].to \subseteq Users
           /\ CopiesFor(sent[m]) \subseteq Users
           /\ SendTime(m) \in Nat
  <1>1. First \in Nat /\ Unit \in Nat /\ Last \in Nat
    BY Setting
  <1>2. sent[m] \in Msg
    BY SMTT(30) DEF TypeOK
  <1>3. sent[m].at \in First..Last /\ sent[m].from \in Users /\ sent[m].to \subseteq Users
    BY SMTT(30), <1>2 DEF Msg
  <1> QED BY SMTT(30), <1>1, <1>2, <1>3 DEF CopiesFor, SendTime

\* A step that only takes or marks documents keeps the tables in order.
LEMMA TakingKeeps ==
    ASSUME IInv, OnlyTakes,
           \A d, e \in docs' : d.m = e.m /\ d.to = e.to => d = e
    PROVE  Placed' /\ InsertedOnce' /\ OneCopyEach' /\ RetryCompletes'
  <1>1. TypeOK /\ Placed /\ InsertedOnce /\ RetryCompletes /\ Len(sent) \in Nat
    BY Setting DEF IInv
  <1>2. OneCopyEach'
    BY DEF OneCopyEach
  <1>3. RetryCompletes'
    <2>1. \A m : CopiesFor(sent[m])' = CopiesFor(sent[m])
      BY DEF CopiesFor, OnlyTakes
    <2> SUFFICES ASSUME NEW m \in 1..Len(sent'), NEW u \in CopiesFor(sent[m])'
                 PROVE  \/ <<m, u>> \in had' \cup lost'
                        \/ \E i \in inserts' : i.m = m /\ i.to = u
      BY DEF RetryCompletes
    <2>2. m \in 1..Len(sent) /\ u \in CopiesFor(sent[m])
      BY <2>1 DEF OnlyTakes
    <2> QED BY ZenonT(40), <1>1, <2>2 DEF RetryCompletes, OnlyTakes
  <1>4. InsertedOnce'
    <2>1. /\ \A i \in inserts' : i.n \in {0, i.by}
          /\ \A i, j \in inserts' : i.by = j.by /\ i.to = j.to => i = j
      BY <1>1 DEF InsertedOnce, OnlyTakes
    <2>2. ASSUME NEW e \in docs', NEW i \in inserts', e.n > 0, e.to = i.to PROVE e.n # i.n
      <3>1. PICK d \in docs : SameCopy(d, e)
        BY DEF OnlyTakes
      <3> QED BY SMTT(30), <1>1, <2>2, <3>1 DEF InsertedOnce, OnlyTakes, SameCopy
    <2> QED BY <2>1, <2>2 DEF InsertedOnce
  <1>5. Placed'
    <2>1. ASSUME NEW e \in docs'
          PROVE  /\ e.coll = CollectionName(SendTime(e.m), e.to)'
                 /\ <<e.m, e.to>> \in had'
                 /\ e.n > 0 <=> e.to \in sent'[e.m].to
      <3>1. PICK d \in docs : SameCopy(d, e) /\ d.coll = e.coll
        BY DEF OnlyTakes
      <3> QED BY <1>1, <3>1 DEF Placed, OnlyTakes, SameCopy, CollectionName, SendTime, Range
    <2>2. \A x \in inserts' : x.n > 0 <=> x.to \in sent'[x.m].to
      BY <1>1 DEF Placed, OnlyTakes
    <2>3. \A m \in 1..Len(sent') : sent'[m].at <= now'
      <3>1. \A m \in 1..Len(sent) : sent[m].at \in Int
        BY SMTT(30), <1>1, Messages
      <3> QED BY SMTT(30), <1>1, <3>1 DEF Placed, OnlyTakes, TypeOK
    <2> QED BY <2>1, <2>2, <2>3 DEF Placed
  <1> QED BY <1>2, <1>3, <1>4, <1>5

\* A request under way has what it is for ahead of it still, whatever goes or
\* is inserted.
LEMMA WalksGoOn ==
    ASSUME setting' = setting, sent' = sent, api' = api, inserts' \subseteq inserts,
           \A e \in docs' : \/ \E f \in docs : SameCopy(f, e)
                           \/ \E i \in inserts : e.to = i.to /\ e.n = i.n,
           PullWalks, DeleteWalks
    PROVE  PullWalks' /\ DeleteWalks'
  <1>1. \A m, u : CollectionName(SendTime(m), u)' = CollectionName(SendTime(m), u)
    BY DEF CollectionName, SendTime, Range
  <1>2. PullWalks'
    <2>1. \A m, u : Remains(api.colls, CollectionName(SendTime(m), u))'
                     <=> Remains(api.colls, CollectionName(SendTime(m), u))
      BY <1>1 DEF Remains
    <2> QED BY <2>1 DEF PullWalks
  <1>3. DeleteWalks'
    <2> SUFFICES ASSUME api.op = "number", NEW d \in api.due
                 PROVE  /\ d.to = api.u /\ d.n \in api.ns
                        /\ \A i \in inserts' : ~(d.to = i.to /\ d.n = i.n)
                        /\ \/ Remains(api.colls, CollectionName(SendTime(d.m), d.to))
                           \/ \A e \in docs' : ~SameCopy(d, e)
      <3>1. \A m, u : Remains(api.colls, CollectionName(SendTime(m), u))'
                       <=> Remains(api.colls, CollectionName(SendTime(m), u))
        BY <1>1 DEF Remains
      <3> QED BY <3>1 DEF DeleteWalks
    <2>1. /\ d.to = api.u /\ d.n \in api.ns
          /\ \A i \in inserts : ~(d.to = i.to /\ d.n = i.n)
          /\ \/ Remains(api.colls, CollectionName(SendTime(d.m), d.to))
             \/ \A e \in docs : ~SameCopy(d, e)
      BY DEF DeleteWalks
    <2>2. ASSUME NEW e \in docs', SameCopy(d, e) PROVE \E f \in docs : SameCopy(d, f)
      <3>1. \A i \in inserts : ~(e.to = i.to /\ e.n = i.n)
        BY <2>1, <2>2 DEF SameCopy
      <3>2. PICK f \in docs : SameCopy(f, e)
        BY <3>1
      <3>3. SameCopy(d, f)
        BY <2>2, <3>2 DEF SameCopy
      <3> QED BY <3>3
    <2> QED BY <2>1, <2>2
  <1> QED BY <1>2, <1>3

\* What is left to show of a step that only takes or marks documents.
LEMMA TakesIInv ==
    ASSUME IInv, OnlyTakes,
           \A d, e \in docs' : d.m = e.m /\ d.to = e.to => d = e,
           cons' \in {Nothing} \cup Saving \cup Reading \cup Acking,
           api' \in {Nothing} \cup Deleting \cup Pulling,
           clean' \in [pc : {"tick", "stuck"}] \cup Sweeping,
           Requested',
           api' = api \/ (Unit = 1 => PullWalks' /\ DeleteWalks')
    PROVE  IInv'
  <1>1. Placed' /\ InsertedOnce' /\ OneCopyEach' /\ RetryCompletes'
    BY TakingKeeps
  <1>2. Unit = 1 => PullWalks' /\ DeleteWalks'
    BY WalksGoOn DEF IInv, OnlyTakes
  <1>3. /\ Document' = Document /\ InsertTask' = InsertTask
        /\ Saving' = Saving /\ Reading' = Reading /\ Acking' = Acking
        /\ Deleting' = Deleting /\ Pulling' = Pulling
        /\ MaxSave' = MaxSave /\ Msg' = Msg
    BY DEF OnlyTakes, Document, InsertTask, Saving, Reading, Acking, Deleting, Pulling,
           MaxSave, Msg, Last
  <1>4. setting' \in Settings /\ sent' \in Seq(Msg) /\ draws' \in 0..MaxSave
    BY DEF OnlyTakes, IInv, TypeOK
  <1>5. now' >= First
    BY SMTT(30), Setting DEF OnlyTakes, IInv, TypeOK
  <1>6. TypeOK'
    BY <1>3, <1>4, <1>5 DEF OnlyTakes, IInv, TypeOK, Sweeping
  <1> QED BY <1>1, <1>2, <1>6 DEF IInv

\* Documents that go leave one copy each.
LEMMA Shrinks ==
    ASSUME IInv, docs' \subseteq docs
    PROVE  /\ docs' \subseteq Document
           /\ \A e \in docs' : \E d \in docs : SameCopy(d, e) /\ d.coll = e.coll
           /\ \A d, e \in docs' : d.m = e.m /\ d.to = e.to => d = e
  BY DEF IInv, TypeOK, OneCopyEach, SameCopy

\* The consumer moves and the tables are left alone.
LEMMA ConsumerMoves ==
    ASSUME IInv, UNCHANGED <<clock, sent, store, api, cleaner>>,
           asks' \in 0..MaxAsk, active' \subseteq Collection, asked \subseteq asked',
           cons' \in {Nothing} \cup Saving \cup Reading \cup Acking,
           cons'.op = "read" => Requests("read", cons'.u, cons'.ns) \subseteq asked',
           cons'.op = "id" => [kind |-> "id", m |-> cons'.m] \in asked'
    PROVE  IInv'
  <1> USE DEF clock, store, cleaner
  <1>1. now <= now' /\ now' \in Nat
    BY SMTT(30) DEF IInv, TypeOK
  <1>2. OnlyTakes /\ \A d, e \in docs' : d.m = e.m /\ d.to = e.to => d = e
    BY <1>1, Shrinks DEF OnlyTakes, IInv, TypeOK
  <1>3. Requested'
    BY DEF IInv, Requested, Requests
  <1> QED BY <1>2, <1>3, TakesIInv DEF IInv, TypeOK

\* The request of the API moves and the tables are left alone.
LEMMA ServerMoves ==
    ASSUME IInv, UNCHANGED <<clock, sent, store, cons, active, cleaner>>,
           asks' \in 0..MaxAsk, asked \subseteq asked',
           api' \in {Nothing} \cup Deleting \cup Pulling,
           api'.op = "number" => Requests("number", api'.u, api'.ns) \subseteq asked',
           Unit = 1 => PullWalks' /\ DeleteWalks'
    PROVE  IInv'
  <1> USE DEF clock, store, cleaner
  <1>1. now <= now' /\ now' \in Nat
    BY SMTT(30) DEF IInv, TypeOK
  <1>2. OnlyTakes /\ \A d, e \in docs' : d.m = e.m /\ d.to = e.to => d = e
    BY <1>1, Shrinks DEF OnlyTakes, IInv, TypeOK
  <1>3. Requested'
    BY DEF IInv, Requested, Requests
  <1> QED BY <1>2, <1>3, TakesIInv DEF IInv, TypeOK

\* The clock, the cleaner or its tasks move and the tables are left alone.
LEMMA CleanerMoves ==
    ASSUME IInv, UNCHANGED <<setting, sent, store, asks, cons, api>>,
           now' \in Nat, now <= now',
           active' \subseteq Collection, tracked' \subseteq Collection, asked \subseteq asked',
           clean' \in [pc : {"tick", "stuck"}] \cup Sweeping,
           clean'.pc = "sweep" => [kind |-> "before", at |-> clean'.at - Period] \in asked'
    PROVE  IInv'
  <1> USE DEF store
  <1>1. OnlyTakes /\ \A d, e \in docs' : d.m = e.m /\ d.to = e.to => d = e
    BY Shrinks DEF OnlyTakes, IInv, TypeOK
  <1>2. Requested'
    BY DEF IInv, Requested, Requests
  <1> QED BY <1>1, <1>2, TakesIInv DEF IInv, TypeOK

\* Nobody is asking: nothing is due.
LEMMA NothingWalks ==
    ASSUME api' = Nothing PROVE PullWalks' /\ DeleteWalks'
  BY SMTT(30) DEF Nothing, PullWalks, DeleteWalks

\* A collection is a month, of the calendar or a count of it, and a range.
LEMMA Named ==
    ASSUME TypeOK, NEW ts \in Int, NEW u \in Users
    PROVE  CollectionName(ts, u) \in Collection
  BY SMTT(30), Setting DEF CollectionName, Collection

\* The collections of the last months, and that a copy of one of these months
\* is in one of them.
LEMMA RecentMonths ==
    ASSUME TypeOK, NEW u \in Users, NEW k \in Nat
    PROVE  /\ Recent(u, k) \in Seq(Collection) /\ Len(Recent(u, k)) = k + 1
           /\ \A ts \in Int : ts <= now /\ now - ts <= k =>
                Remains(Recent(u, k), CollectionName(ts, u))
  <1>1. \A i \in 1..(k + 1) : now + 1 - i \in Int
    BY SMTT(30) DEF TypeOK
  <1>2. \A i \in 1..(k + 1) : CollectionName(now + 1 - i, u) \in Collection
    BY <1>1, Named
  <1>3. Recent(u, k) \in Seq(Collection) /\ Len(Recent(u, k)) = k + 1
    BY SMTT(30), <1>2 DEF Recent
  <1>4. ASSUME NEW ts \in Int, ts <= now, now - ts <= k
        PROVE  Remains(Recent(u, k), CollectionName(ts, u))
    <2>1. now + 1 - ts \in 1..(k + 1) /\ now + 1 - (now + 1 - ts) = ts
      BY SMTT(30), <1>4 DEF TypeOK
    <2>2. Recent(u, k)[now + 1 - ts] = CollectionName(ts, u)
      BY <2>1 DEF Recent
    <2> QED BY <1>3, <2>1, <2>2 DEF Remains
  <1> QED BY <1>3, <1>4

LEMMA SaveReturnsStep == ASSUME IInv, SaveReturns PROVE IInv'
  <1>1. cons'.op = "none" /\ cons' = Nothing
    BY DEF SaveReturns, Nothing
  <1> QED BY <1>1, ConsumerMoves DEF SaveReturns, IInv, TypeOK

LEMMA AckReturnsStep == ASSUME IInv, AckReturns \/ WalkFails PROVE IInv'
  <1>0. cons' = Nothing
    BY DEF AckReturns, WalkFails
  <1>1. cons'.op = "none"
    BY <1>0 DEF Nothing
  <1> QED BY <1>0, <1>1, ConsumerMoves DEF AckReturns, WalkFails, IInv, TypeOK

LEMMA AskCounts == ASSUME IInv, NEW op, Ask(op) PROVE asks' \in 0..MaxAsk
  BY SMTT(30), ShardedBoxAssumption DEF Ask, IInv, TypeOK

LEMMA ReadBeginsStep ==
    ASSUME IInv, NEW u \in Users, NEW ns \in SUBSET (1..draws), ReadBegins(u, ns)
    PROVE  IInv'
  <1>1. Recent(u, 1) \in Seq(Collection) /\ Len(Recent(u, 1)) = 2
    <2>1. 1 \in Nat /\ 1 + 1 = 2
      BY SMTT(30)
    <2> QED BY <2>1, RecentMonths DEF IInv
  <1>2. Recent(u, 1) \in Seq(Collection) \ {<<>>} /\ ns \in SUBSET Nat
    BY SMTT(30), <1>1
  <1>3. cons' \in Reading /\ cons'.op = "read" /\ cons'.u = u /\ cons'.ns = ns
    BY <1>2 DEF ReadBegins, Reading
  <1>4. asked' = asked \cup Requests("read", u, ns)
    BY DEF ReadBegins
  <1> QED BY <1>3, <1>4, AskCounts, ConsumerMoves DEF ReadBegins, IInv, TypeOK

LEMMA AckBeginsStep ==
    ASSUME IInv, NEW m \in 1..Len(sent), AckBegins(m) PROVE IInv'
  <1>1. Holding(active, {m}) \subseteq Collection
    BY DEF Holding, IInv, TypeOK
  <1>2. cons' \in Acking /\ cons'.op = "id" /\ cons'.m = m
    BY <1>1 DEF AckBegins, Acking
  <1>3. asked' = asked \cup {[kind |-> "id", m |-> m]}
    BY DEF AckBegins
  <1> QED BY <1>2, <1>3, AskCounts, ConsumerMoves DEF AckBegins, IInv, TypeOK

LEMMA AheadCollections == ASSUME TypeOK PROVE Ahead \subseteq Collection
  BY SMTT(30), Setting DEF TypeOK, Ahead, Ranges, Collection

LEMMA MaintainStep == ASSUME IInv, Maintain PROVE IInv'
  <1>1. active' \subseteq Collection
    BY AheadCollections DEF Maintain, IInv, TypeOK
  <1> QED BY <1>1, ConsumerMoves DEF Maintain, IInv, TypeOK, Requested

LEMMA MaintainTrackedStep == ASSUME IInv, MaintainTracked PROVE IInv'
  <1>1. tracked' \subseteq Collection
    BY AheadCollections DEF MaintainTracked, IInv, TypeOK
  <1>2. now <= now
    BY SMTT(30) DEF IInv, TypeOK
  <1> QED BY <1>1, <1>2, CleanerMoves DEF MaintainTracked, clock, IInv, TypeOK, Requested

LEMMA MonthStep == ASSUME IInv, MonthPasses PROVE IInv'
  <1>1. now' \in Nat /\ now <= now'
    BY SMTT(30) DEF MonthPasses, IInv, TypeOK
  <1> QED BY <1>1, CleanerMoves DEF MonthPasses, cleaner, IInv, TypeOK, Requested

LEMMA CleanBeginsStep == ASSUME IInv, CleanBegins PROVE IInv'
  <1>1. Holding(tracked, 1..Len(sent)) \subseteq Collection
    BY DEF Holding, IInv, TypeOK
  <1>2. clean' \in Sweeping /\ clean'.at = now
    BY <1>1 DEF CleanBegins, Sweeping, IInv, TypeOK
  <1>3. now <= now
    BY SMTT(30) DEF IInv, TypeOK
  <1> QED BY <1>2, <1>3, CleanerMoves DEF CleanBegins, clock, IInv, TypeOK

LEMMA CleanEndsStep == ASSUME IInv, CleanEnds PROVE IInv'
  <1>1. clean' \in [pc : {"tick", "stuck"}] /\ clean'.pc # "sweep"
    BY DEF CleanEnds
  <1>2. now <= now
    BY SMTT(30) DEF IInv, TypeOK
  <1> QED BY <1>1, <1>2, CleanerMoves DEF CleanEnds, clock, IInv, TypeOK

LEMMA RequestEndsStep == ASSUME IInv, RequestReturns \/ RequestFails PROVE IInv'
  <1>1. api' = Nothing /\ UNCHANGED <<clock, sent, store, asks, cons, active, cleaner, asked>>
    BY DEF RequestReturns, RequestFails
  <1>2. api'.op = "none"
    BY <1>1 DEF Nothing
  <1> QED BY <1>1, <1>2, NothingWalks, ServerMoves DEF IInv, TypeOK

\* A copy of the last months, sent by the clock of its collection's name.
LEMMA CopyRemains ==
    ASSUME IInv, Unit = 1, NEW k \in Nat, NEW d \in docs, now - sent[d.m].at <= k
    PROVE  Remains(Recent(d.to, k), CollectionName(SendTime(d.m), d.to))
  <1>1. d.m \in 1..Len(sent) /\ d.to \in Users
    BY DEF IInv, TypeOK, Document
  <1>2. sent[d.m].at \in Int /\ sent[d.m].at <= now
    <2>1. sent[d.m].at \in Nat
      BY <1>1, Messages DEF IInv
    <2> QED BY SMTT(30), <2>1, <1>1 DEF IInv, Placed
  <1>3. SendTime(d.m) = sent[d.m].at
    BY SMTT(30), <1>2 DEF SendTime
  <1> QED BY <1>1, <1>2, <1>3, RecentMonths DEF IInv

LEMMA DeleteBeginsStep ==
    ASSUME IInv, NEW u \in Users, NEW ns \in SUBSET (1..draws), DeleteBegins(u, ns)
    PROVE  IInv'
  <1> DEFINE due == {d \in docs : d.to = u /\ d.n \in ns /\ now - sent[d.m].at <= 1}
             q == [op |-> "number", u |-> u, ns |-> ns, colls |-> Recent(u, 1), due |-> due]
  <1>1. api' = q /\ asked' = asked \cup Requests("number", u, ns)
        /\ UNCHANGED <<clock, sent, store, cons, active, cleaner>>
    BY DEF DeleteBegins
  <1>2. 1 \in Nat
    BY SMTT(30)
  <1>3. Recent(u, 1) \in Seq(Collection)
    BY <1>2, RecentMonths DEF IInv
  <1>4. q \in Deleting /\ q.op = "number" /\ q.u = u /\ q.ns = ns
        /\ q.due = due /\ q.colls = Recent(u, 1)
    BY <1>3 DEF Deleting, IInv, TypeOK
  <1> HIDE DEF q
  <1>5. PullWalks'
    BY <1>1, <1>4 DEF PullWalks
  <1>6. Unit = 1 => DeleteWalks'
    <2> SUFFICES ASSUME Unit = 1, NEW d \in due
                 PROVE  /\ d.to = u /\ d.n \in ns
                        /\ \A i \in inserts' : ~(d.to = i.to /\ d.n = i.n)
                        /\ Remains(Recent(u, 1), CollectionName(SendTime(d.m), d.to)')
      BY <1>1, <1>4 DEF DeleteWalks
    <2>1. d.n > 0
      BY SMTT(30) DEF IInv, TypeOK
    <2>2. Remains(Recent(u, 1), CollectionName(SendTime(d.m), d.to))
      BY <1>2, CopyRemains
    <2>3. CollectionName(SendTime(d.m), d.to)' = CollectionName(SendTime(d.m), d.to)
      BY <1>1 DEF CollectionName, SendTime, Range, clock
    <2> QED BY <1>1, <2>1, <2>2, <2>3 DEF IInv, InsertedOnce, store
  <1> QED BY <1>1, <1>4, <1>5, <1>6, AskCounts, ServerMoves DEF DeleteBegins

LEMMA PullBeginsStep ==
    ASSUME IInv, NEW u \in Users, NEW r \in 0..1, PullBegins(u, r, r)
    PROVE  IInv'
  <1> DEFINE q == [op |-> "pull", u |-> u, r |-> r, s |-> r,
                   colls |-> Recent(u, 2), due |-> Due(u, r)]
  <1>1. api' = q /\ UNCHANGED <<clock, sent, store, cons, active, cleaner, asked>>
    BY DEF PullBegins
  <1>2. 2 \in Nat
    BY SMTT(30)
  <1>3. Recent(u, 2) \in Seq(Collection)
    BY <1>2, RecentMonths DEF IInv
  <1>4. \A p \in Due(u, r) : \E d \in docs :
           /\ p = <<d.m, d.to>> /\ p[1] = d.m /\ p[2] = d.to
           /\ d.to = u /\ d.n >= r /\ now - sent[d.m].at <= 2
    BY SMTT(30) DEF Due, Copies
  <1>5. Due(u, r) \subseteq (1..Len(sent)) \X Users
    BY SMTT(30), <1>4 DEF IInv, TypeOK, Document
  <1>6. q \in Pulling /\ q.op = "pull" /\ q.u = u /\ q.r = r
        /\ q.due = Due(u, r) /\ q.colls = Recent(u, 2)
    BY <1>3, <1>5 DEF Pulling
  <1> HIDE DEF q
  <1>7. DeleteWalks'
    BY <1>1, <1>6 DEF DeleteWalks
  <1>8. Unit = 1 => PullWalks'
    <2> SUFFICES ASSUME Unit = 1, NEW p \in Due(u, r)
                 PROVE  /\ p[2] = u /\ (r > 0 => p[2] \in sent'[p[1]].to)
                        /\ Remains(Recent(u, 2), CollectionName(SendTime(p[1]), p[2])')
      BY <1>1, <1>6 DEF PullWalks
    <2>1. PICK d \in docs : /\ p[1] = d.m /\ p[2] = d.to
                            /\ d.to = u /\ d.n >= r /\ now - sent[d.m].at <= 2
      BY <1>4
    <2>2. r > 0 => d.n > 0
      BY SMTT(30), <2>1 DEF IInv, TypeOK, Document
    <2>3. Remains(Recent(u, 2), CollectionName(SendTime(p[1]), p[2]))
      BY <1>2, <2>1, CopyRemains
    <2>4. CollectionName(SendTime(p[1]), p[2])' = CollectionName(SendTime(p[1]), p[2])
      BY <1>1 DEF CollectionName, SendTime, Range, clock
    <2> QED BY <1>1, <2>1, <2>2, <2>3, <2>4 DEF IInv, Placed
  <1> QED BY <1>1, <1>6, <1>7, <1>8, AskCounts, ServerMoves DEF PullBegins

\* A walk goes on with what is behind the first collection.
LEMMA WalkedOn ==
    ASSUME NEW q \in Seq(Collection), q # <<>>
    PROVE  /\ Tail(q) \in Seq(Collection) /\ (Len(q) # 1 => Tail(q) # <<>>)
           /\ \A c : Remains(q, c) /\ c # Head(q) => Remains(Tail(q), c)
  <1>1. Tail(q) \in Seq(Collection) /\ Len(Tail(q)) = Len(q) - 1 /\ Len(q) \in Nat
    BY SMTT(30)
  <1>2. ASSUME NEW c, Remains(q, c), c # Head(q) PROVE Remains(Tail(q), c)
    <2>1. PICK i \in 1..Len(q) : q[i] = c
      BY <1>2 DEF Remains
    <2>2. i # 1
      BY SMTT(30), <1>2, <2>1
    <2>3. i - 1 \in 1..Len(Tail(q)) /\ Tail(q)[i - 1] = c
      BY SMTT(30), <1>1, <2>1, <2>2
    <2> QED BY <2>3 DEF Remains
  <1>3. Tail(q) = <<>> => Len(q) = 1
    <2>1. Len(<<>>) = 0
      BY SMTT(30)
    <2>2. Tail(q) = <<>> => Len(Tail(q)) = 0
      BY <2>1
    <2> QED BY SMTT(30), <1>1, <2>2
  <1> QED BY <1>1, <1>2, <1>3

LEMMA PullStepStep == ASSUME IInv, PullStep PROVE IInv'
  <1> DEFINE found == {d \in docs : d.coll = Head(api.colls) /\ Matches(api, d)}
             q == [api EXCEPT !.colls = Tail(@), !.due = @ \cap Copies(docs \ found)]
  <1>1. api' = q /\ UNCHANGED <<clock, sent, store, asks, cons, active, cleaner, asked>>
        /\ api.op = "pull" /\ api.colls # <<>>
    BY DEF PullStep
  <1>2. api \in Pulling
    BY <1>1, Kinds DEF IInv
  <1>3. api.colls \in Seq(Collection) /\ api.r \in 0..1
        /\ api.due \subseteq (1..Len(sent)) \X Users
    BY <1>2 DEF Pulling
  <1>4. Tail(api.colls) \in Seq(Collection)
    BY <1>1, <1>3, WalkedOn
  <1>5. q \in Pulling /\ q.op = "pull" /\ q.u = api.u /\ q.r = api.r
        /\ q.colls = Tail(api.colls) /\ q.due = api.due \cap Copies(docs \ found)
    BY <1>2, <1>3, <1>4 DEF Pulling
  <1> HIDE DEF q
  <1>6. DeleteWalks'
    BY <1>1, <1>5 DEF DeleteWalks
  <1>7. Unit = 1 => PullWalks'
    <2> SUFFICES ASSUME Unit = 1, NEW p \in api.due, p \in Copies(docs \ found)
                 PROVE  /\ p[2] = api.u /\ (api.r > 0 => p[2] \in sent'[p[1]].to)
                        /\ Remains(Tail(api.colls), CollectionName(SendTime(p[1]), p[2])')
      BY <1>1, <1>5 DEF PullWalks
    <2>1. /\ p[2] = api.u /\ (api.r > 0 => p[2] \in sent[p[1]].to)
          /\ Remains(api.colls, CollectionName(SendTime(p[1]), p[2]))
      BY <1>1 DEF IInv, PullWalks
    <2>2. PICK d \in docs \ found : p[1] = d.m /\ p[2] = d.to
      BY SMTT(30) DEF Copies
    <2>3. d.n >= api.r
      BY SMTT(30), <1>3, <2>1, <2>2 DEF IInv, Placed, TypeOK, Document
    <2>4. Head(api.colls) # CollectionName(SendTime(p[1]), p[2])
      BY <2>1, <2>2, <2>3 DEF Matches, IInv, Placed
    <2>5. CollectionName(SendTime(p[1]), p[2])' = CollectionName(SendTime(p[1]), p[2])
      BY <1>1 DEF CollectionName, SendTime, Range, clock
    <2> QED BY <1>1, <1>3, <2>1, <2>4, <2>5, WalkedOn
  <1> QED BY <1>1, <1>5, <1>6, <1>7, ServerMoves DEF IInv, TypeOK

\* What is passed over is no longer promised.
LEMMA PullSkipsStep == ASSUME IInv, PullSkips PROVE IInv'
  <1> DEFINE q == [api EXCEPT !.colls = Tail(@), !.due = {}]
  <1>1. api' = q /\ UNCHANGED <<clock, sent, store, asks, cons, active, cleaner, asked>>
        /\ api.op = "pull" /\ api.colls # <<>>
    BY DEF PullSkips
  <1>2. api \in Pulling
    BY <1>1, Kinds DEF IInv
  <1>3. Tail(api.colls) \in Seq(Collection)
    BY <1>1, <1>2, WalkedOn DEF Pulling
  <1>4. q \in Pulling /\ q.op = "pull" /\ q.due = {}
    BY <1>2, <1>3 DEF Pulling
  <1> HIDE DEF q
  <1>5. DeleteWalks' /\ PullWalks'
    BY <1>1, <1>4 DEF DeleteWalks, PullWalks
  <1> QED BY <1>1, <1>4, <1>5, ServerMoves DEF IInv, TypeOK

LEMMA DeleteStepStep == ASSUME IInv, DeleteStep PROVE IInv'
  <1>1. /\ UNCHANGED <<clock, sent, inserts, draws, had, lost, asks, cons, active, cleaner, asked>>
        /\ api.op = "number" /\ api.colls # <<>>
    BY DEF DeleteStep
  <1>2. api \in Deleting
    BY <1>1, Kinds DEF IInv
  <1>3. api.colls \in Seq(Collection) /\ api.ns \subseteq 1..draws /\ api.due \subseteq Document
    BY <1>2 DEF Deleting
  <1>4. PICK due \in {api.due, {}} :
           /\ api' = [api EXCEPT !.colls = Tail(@), !.due = due]
           /\ docs' \subseteq docs
           /\ due # {} => docs' = docs \ Numbered(Head(api.colls), api.u, api.ns)
    <2>1. [api EXCEPT !.colls = Tail(@)] = [api EXCEPT !.colls = Tail(@), !.due = api.due]
      BY <1>2 DEF Deleting
    <2>2. CASE docs' = docs \ Deleted(api, Head(api.colls)) /\ api' = [api EXCEPT !.colls = Tail(@)]
      BY <2>1, <2>2 DEF Deleted
    <2>3. CASE docs' = docs /\ api' = [api EXCEPT !.colls = Tail(@), !.due = {}]
      BY <2>3
    <2> QED BY <2>2, <2>3 DEF DeleteStep
  <1> DEFINE q == [api EXCEPT !.colls = Tail(@), !.due = due]
  <1>5. q \in Deleting /\ q.op = "number" /\ q.u = api.u /\ q.ns = api.ns
        /\ q.colls = Tail(api.colls) /\ q.due = due
    <2>1. Tail(api.colls) \in Seq(Collection) /\ due \subseteq Document
      BY <1>1, <1>3, WalkedOn
    <2> QED BY <1>2, <1>3, <2>1 DEF Deleting
  <1>6. api' = q
    BY <1>4
  <1> HIDE DEF q
  <1>7. now <= now
    BY SMTT(30) DEF IInv, TypeOK
  <1>8. OnlyTakes /\ \A d, e \in docs' : d.m = e.m /\ d.to = e.to => d = e
    BY <1>1, <1>4, <1>7, Shrinks DEF OnlyTakes, clock, cleaner, IInv, TypeOK
  <1>9. Requested'
    BY <1>1, <1>5, <1>6 DEF cleaner, IInv, Requested, Requests
  <1>10. PullWalks'
    BY <1>5, <1>6 DEF PullWalks
  <1>11. Unit = 1 => DeleteWalks'
    <2> SUFFICES ASSUME Unit = 1, NEW d \in due
                 PROVE  /\ d.to = api.u /\ d.n \in api.ns
                        /\ \A i \in inserts' : ~(d.to = i.to /\ d.n = i.n)
                        /\ \/ Remains(Tail(api.colls), CollectionName(SendTime(d.m), d.to)')
                           \/ \A e \in docs' : ~SameCopy(d, e)
      BY <1>5, <1>6 DEF DeleteWalks
    <2>1. d \in api.due /\ due # {}
      OBVIOUS
    <2>2. /\ d.to = api.u /\ d.n \in api.ns
          /\ \A i \in inserts : ~(d.to = i.to /\ d.n = i.n)
          /\ \/ Remains(api.colls, CollectionName(SendTime(d.m), d.to))
             \/ \A e \in docs : ~SameCopy(d, e)
      BY <1>1, <2>1 DEF IInv, DeleteWalks
    <2>3. Head(api.colls) = CollectionName(SendTime(d.m), d.to) => \A e \in docs' : ~SameCopy(d, e)
      BY <1>4, <2>1, <2>2 DEF Numbered, SameCopy, IInv, Placed
    <2>4. CollectionName(SendTime(d.m), d.to)' = CollectionName(SendTime(d.m), d.to)
      BY <1>1 DEF CollectionName, SendTime, Range, clock
    <2> QED BY <1>1, <1>3, <1>4, <2>2, <2>3, <2>4, WalkedOn
  <1> QED BY <1>1, <1>5, <1>6, <1>8, <1>9, <1>10, <1>11, TakesIInv DEF cleaner, IInv, TypeOK

LEMMA AckStepStep == ASSUME IInv, NEW c, AckStep(c) PROVE IInv'
  <1>1. /\ UNCHANGED <<clock, sent, inserts, draws, had, lost, asks, api, active, cleaner, asked>>
        /\ cons.op = "id"
    BY DEF AckStep
  <1>2. docs' \subseteq docs /\ cons' \in {Nothing, [cons EXCEPT !.colls = @ \ {c}]}
    BY DEF AckStep
  <1>3. cons \in Acking
    BY <1>1, Kinds DEF IInv
  <1> DEFINE q == [cons EXCEPT !.colls = @ \ {c}]
  <1>4. q \in Acking /\ q.op = "id" /\ q.m = cons.m
    BY <1>3 DEF Acking
  <1>5. cons' \in {Nothing, q}
    BY <1>2
  <1> HIDE DEF q
  <1>6. now <= now /\ Nothing.op = "none"
    BY SMTT(30) DEF IInv, TypeOK, Nothing
  <1>7. OnlyTakes /\ \A d, e \in docs' : d.m = e.m /\ d.to = e.to => d = e
    BY <1>1, <1>2, <1>6, Shrinks DEF OnlyTakes, clock, cleaner, IInv, TypeOK
  <1>8. Requested'
    BY <1>1, <1>4, <1>5, <1>6 DEF cleaner, IInv, Requested, Requests
  <1> QED BY <1>1, <1>4, <1>5, <1>7, <1>8, TakesIInv DEF cleaner, IInv, TypeOK

LEMMA CleanStepStep == ASSUME IInv, NEW c, CleanStep(c) PROVE IInv'
  <1> DEFINE q == [clean EXCEPT !.colls = @ \ {c}]
  <1>1. /\ UNCHANGED <<clock, sent, inserts, draws, had, lost, asks, cons, api, active, tracked, asked>>
        /\ clean.pc = "sweep" /\ docs' \subseteq docs /\ clean' = q
    BY DEF CleanStep
  <1>2. clean \in Sweeping
    BY <1>1, Kinds DEF IInv
  <1>3. q \in Sweeping /\ q.at = clean.at
    BY <1>2 DEF Sweeping
  <1> HIDE DEF q
  <1>4. now <= now
    BY SMTT(30) DEF IInv, TypeOK
  <1>5. OnlyTakes /\ \A d, e \in docs' : d.m = e.m /\ d.to = e.to => d = e
    BY <1>1, <1>4, Shrinks DEF OnlyTakes, clock, IInv, TypeOK
  <1>6. Requested'
    BY <1>1, <1>3 DEF IInv, Requested, Requests
  <1> QED BY <1>1, <1>3, <1>5, <1>6, TakesIInv DEF IInv, TypeOK

\* A document marked as read is the same copy in the same place.
LEMMA MarkedRead ==
    ASSUME NEW d \in Document
    PROVE  LET e == [d EXCEPT !.read = TRUE] IN
           /\ e \in Document /\ SameCopy(d, e) /\ d.coll = e.coll /\ e.read = TRUE
           /\ e.m = d.m /\ e.to = d.to /\ e.n = d.n
  BY DEF Document, SameCopy

LEMMA ReadStepStep == ASSUME IInv, ReadStep PROVE IInv'
  <1> DEFINE ds == Numbered(Head(cons.colls), cons.u, cons.ns)
             q == [cons EXCEPT !.colls = Tail(@)]
  <1>1. /\ UNCHANGED <<clock, sent, inserts, draws, had, lost, asks, api, active, cleaner, asked>>
        /\ cons.op = "read" /\ cons' = Walked(cons)
        /\ docs' \in {docs, (docs \ ds) \cup {[d EXCEPT !.read = TRUE] : d \in ds}}
    BY DEF ReadStep
  <1>2. cons \in Reading
    BY <1>1, Kinds DEF IInv
  <1>3. Len(cons.colls) # 1 => Tail(cons.colls) \in Seq(Collection) \ {<<>>}
    <2>1. cons.colls \in Seq(Collection) /\ cons.colls # <<>>
      BY <1>2 DEF Reading
    <2> QED BY <2>1, WalkedOn
  <1>4. Len(cons.colls) # 1 => q \in Reading /\ q.op = "read" /\ q.u = cons.u /\ q.ns = cons.ns
    BY <1>2, <1>3 DEF Reading
  <1>5. cons' = Nothing \/ (Len(cons.colls) # 1 /\ cons' = q)
    BY <1>1 DEF Walked
  <1> HIDE DEF q
  <1>6. now <= now /\ Nothing.op = "none"
    BY SMTT(30) DEF IInv, TypeOK, Nothing
  <1>7. ds \subseteq docs /\ docs \subseteq Document
    BY DEF Numbered, IInv, TypeOK
  <1> HIDE DEF ds
  <1>8. ASSUME NEW e \in docs'
        PROVE  /\ e \in Document
               /\ \E d \in docs : /\ SameCopy(d, e) /\ d.coll = e.coll
                                  /\ \/ e = d /\ (d \in ds => docs' = docs)
                                     \/ d \in ds /\ docs' # docs /\ e = [d EXCEPT !.read = TRUE]
    <2>1. CASE docs' = docs
      BY <1>7, <2>1 DEF SameCopy
    <2>2. CASE docs' # docs /\ e \in docs \ ds
      BY <1>7, <2>2 DEF SameCopy
    <2>3. CASE docs' # docs /\ e \in {[d EXCEPT !.read = TRUE] : d \in ds}
      BY <1>7, <2>3, MarkedRead
    <2> QED BY <1>1, <2>1, <2>2, <2>3
  <1>9. OnlyTakes
    BY <1>1, <1>6, <1>8 DEF OnlyTakes, clock, cleaner, IInv, TypeOK
  <1>10. ASSUME NEW e \in docs', NEW f \in docs', e.m = f.m, e.to = f.to PROVE e = f
    <2>1. PICK d \in docs : /\ SameCopy(d, e)
                            /\ \/ e = d /\ (d \in ds => docs' = docs)
                               \/ d \in ds /\ docs' # docs /\ e = [d EXCEPT !.read = TRUE]
      BY <1>8
    <2>2. PICK g \in docs : /\ SameCopy(g, f)
                            /\ \/ f = g /\ (g \in ds => docs' = docs)
                               \/ g \in ds /\ docs' # docs /\ f = [g EXCEPT !.read = TRUE]
      BY <1>8
    <2>3. d.m = g.m /\ d.to = g.to
      BY <1>10, <2>1, <2>2 DEF SameCopy
    <2>4. d = g
      BY <2>3 DEF IInv, OneCopyEach
    <2> QED BY <2>1, <2>2, <2>4
  <1>11. Requested'
    <2>1. /\ cons'.op = "read" => cons'.u = cons.u /\ cons'.ns = cons.ns
          /\ cons'.op # "id"
      BY <1>4, <1>5, <1>6
    <2> QED BY <1>1, <2>1 DEF cleaner, IInv, Requested, Requests
  <1> QED BY <1>1, <1>4, <1>5, <1>9, <1>10, <1>11, TakesIInv DEF cleaner, IInv, TypeOK
-----------------------------------------------------------------------------
\* A step that takes documents, or none, takes from the box what is released.
LEMMA TakesFromBox ==
    ASSUME IInv, docs' \subseteq docs, asked \subseteq asked',
           \A m \in 1..Len(sent) : sent'[m] = sent[m],
           \A d \in docs \ docs' : \E r \in asked' : Box!Releases(r, Copy(d))
    PROVE  Box!Next
  <1>1. \A d \in docs : d.m \in 1..Len(sent)
    BY DEF IInv, TypeOK, Document
  <1>2. \A d \in docs : Copy(d)' = Copy(d)
    BY <1>1 DEF Copy, SendTime
  <1>3. Contents' \subseteq Contents
    BY <1>2 DEF Contents
  <1>4. \A c \in Contents \ Contents' : \E r \in asked' : Box!Releases(r, c)
    BY <1>2 DEF Contents
  <1> QED BY <1>3, <1>4 DEF Box!Next, Box!Take, Contents

\* What is marked in the box its receiver said to have read.
LEMMA ReadMarks == ASSUME IInv, ReadStep PROVE Box!Next
  <1> DEFINE ds == Numbered(Head(cons.colls), cons.u, cons.ns)
             mark(d) == [d EXCEPT !.read = TRUE]
  <1>1. /\ sent' = sent /\ asked' = asked /\ cons.op = "read"
        /\ docs' \in {docs, (docs \ ds) \cup {mark(d) : d \in ds}}
    BY DEF ReadStep
  <1>2. \A d \in ds : d \in docs /\ d.to = cons.u /\ d.n \in cons.ns
    BY DEF Numbered
  <1>3. \A d \in docs : d.read \in BOOLEAN
    BY DEF IInv, TypeOK, Document
  <1>4. ASSUME NEW d \in docs
        PROVE  /\ Copy(mark(d)) = [Copy(d) EXCEPT !.read = TRUE]
               /\ (d.read = FALSE => Copy(d) = [Copy(mark(d)) EXCEPT !.read = FALSE])
               /\ (d.read = TRUE => mark(d) = d) /\ Copy(mark(d)).read
    <2>1. d \in Document
      BY DEF IInv, TypeOK
    <2>2. (d.read = TRUE => mark(d) = d) /\ mark(d).read = TRUE
          /\ mark(d).m = d.m /\ mark(d).to = d.to /\ mark(d).n = d.n
      BY <2>1 DEF Document
    <2> HIDE DEF mark
    <2> DEFINE rec(r) == [m |-> d.m, to |-> d.to, n |-> d.n, at |-> SendTime(d.m),
                          spared |-> sent[d.m].spared, read |-> r]
    <2>3. Copy(mark(d)) = rec(TRUE) /\ Copy(d) = rec(d.read)
      BY <2>2 DEF Copy
    <2>4. ASSUME NEW r, NEW q PROVE [rec(r) EXCEPT !.read = q] = rec(q)
      BY SMTT(30)
    <2>5. Copy(mark(d)).read
      BY <2>2 DEF Copy
    <2> HIDE DEF rec
    <2>6. Copy(mark(d)) = [Copy(d) EXCEPT !.read = TRUE]
      <3>1. [Copy(d) EXCEPT !.read = TRUE] = [rec(d.read) EXCEPT !.read = TRUE]
        BY <2>3
      <3>2. [rec(d.read) EXCEPT !.read = TRUE] = rec(TRUE)
        BY <2>4
      <3> QED BY <2>3, <3>1, <3>2
    <2>7. d.read = FALSE => Copy(d) = [Copy(mark(d)) EXCEPT !.read = FALSE]
      <3>1. [Copy(mark(d)) EXCEPT !.read = FALSE] = [rec(TRUE) EXCEPT !.read = FALSE]
        BY <2>3
      <3>2. [rec(TRUE) EXCEPT !.read = FALSE] = rec(FALSE)
        BY <2>4
      <3> QED BY <2>3, <3>1, <3>2
    <2> QED BY <2>2, <2>5, <2>6, <2>7
  <1> HIDE DEF mark, ds
  <1>5. \A d : Copy(d)' = Copy(d)
    BY <1>1 DEF Copy, SendTime
  <1>6. ASSUME NEW c \in Contents, c \notin Contents'
        PROVE  /\ [c EXCEPT !.read = TRUE] \in Contents'
               /\ \E r \in asked' : r.kind = "read" /\ r.to = c.to /\ r.n = c.n
    <2>1. PICK d \in docs : c = Copy(d)
      BY DEF Contents
    <2>2. d \in ds /\ mark(d) \in docs'
      BY <1>1, <1>5, <1>6, <2>1 DEF Contents
    <2>3. [c EXCEPT !.read = TRUE] \in Contents'
      <3>1. [c EXCEPT !.read = TRUE] = Copy(mark(d))
        BY <1>4, <2>1
      <3>2. Copy(mark(d)) \in Contents'
        BY <1>5, <2>2 DEF Contents
      <3> QED BY <3>1, <3>2
    <2>4. [kind |-> "read", to |-> cons.u, n |-> d.n] \in asked
      BY <1>1, <1>2, <2>2 DEF IInv, Requested, Requests
    <2>5. c.to = cons.u /\ c.n = d.n
      <3>1. Copy(d).to = d.to /\ Copy(d).n = d.n
        BY DEF Copy
      <3> QED BY <1>2, <2>1, <2>2, <3>1
    <2> QED BY <1>1, <2>3, <2>4, <2>5
  <1>7. ASSUME NEW c \in Contents', c \notin Contents
        PROVE  c.read /\ [c EXCEPT !.read = FALSE] \in Contents
    <2>1. PICK e \in docs' : c = Copy(e)
      BY <1>5 DEF Contents
    <2>2. e \notin docs
      BY <1>7, <2>1 DEF Contents
    <2>3. PICK d \in ds : e = mark(d)
      BY <1>1, <2>2
    <2>4. d \in docs /\ d.read = FALSE
      <3>1. d \in docs /\ (d.read = TRUE => mark(d) = d)
        BY <1>2, <1>4
      <3> QED BY <1>3, <2>2, <2>3, <3>1
    <2>5. c = Copy(mark(d)) /\ Copy(d) \in Contents
      BY <2>1, <2>3, <2>4 DEF Contents
    <2>6. Copy(d) = [c EXCEPT !.read = FALSE] /\ c.read
      BY <1>4, <2>4, <2>5
    <2> QED BY <2>5, <2>6
  <1> QED BY <1>1, <1>6, <1>7 DEF Box!Next, Box!Mark, Contents

\* What a deletion, an acknowledgement or the cleaner takes was asked for.
LEMMA DeleteReleases == ASSUME IInv, DeleteStep PROVE Box!Next
  <1>1. /\ sent' = sent /\ asked' = asked /\ api.op = "number" /\ docs' \subseteq docs
        /\ docs \ docs' \subseteq Numbered(Head(api.colls), api.u, api.ns)
    BY DEF DeleteStep, Deleted
  <1>2. ASSUME NEW d \in docs \ docs' PROVE \E r \in asked' : Box!Releases(r, Copy(d))
    <2>1. d.to = api.u /\ d.n \in api.ns
      BY <1>1 DEF Numbered
    <2>2. [kind |-> "number", to |-> d.to, n |-> d.n] \in asked
      BY <1>1, <2>1 DEF IInv, Requested, Requests
    <2>3. Copy(d).to = d.to /\ Copy(d).n = d.n
      BY DEF Copy
    <2> QED BY <1>1, <2>2, <2>3 DEF Box!Releases
  <1> QED BY <1>1, <1>2, TakesFromBox

LEMMA AckReleases == ASSUME IInv, NEW c, AckStep(c) PROVE Box!Next
  <1>1. /\ sent' = sent /\ asked' = asked /\ cons.op = "id" /\ docs' \subseteq docs
        /\ \A d \in docs \ docs' : d.m = cons.m
    BY DEF AckStep
  <1>2. ASSUME NEW d \in docs \ docs' PROVE \E r \in asked' : Box!Releases(r, Copy(d))
    <2>1. [kind |-> "id", m |-> d.m] \in asked
      BY <1>1 DEF IInv, Requested
    <2>2. Copy(d).m = d.m
      BY DEF Copy
    <2> QED BY <1>1, <2>1, <2>2 DEF Box!Releases
  <1> QED BY <1>1, <1>2, TakesFromBox

LEMMA CleanReleases == ASSUME IInv, NEW c, CleanStep(c) PROVE Box!Next
  <1>1. /\ sent' = sent /\ asked' = asked /\ clean.pc = "sweep" /\ docs' \subseteq docs
        /\ \A d \in docs \ docs' : Expired(d, clean.at)
    BY DEF CleanStep
  <1>2. ASSUME NEW d \in docs \ docs' PROVE \E r \in asked' : Box!Releases(r, Copy(d))
    <2>1. [kind |-> "before", at |-> clean.at - Period] \in asked
      BY <1>1 DEF IInv, Requested
    <2>2. Copy(d).at = SendTime(d.m) /\ Copy(d).spared = sent[d.m].spared
      BY DEF Copy
    <2> QED BY <1>1, <2>1, <2>2 DEF Box!Releases, Expired
  <1> QED BY <1>1, <1>2, TakesFromBox
-----------------------------------------------------------------------------
(* Saving, maintenance and the clock.                                      *)

\* The topic and the numbers drawn only grow, and with them the requests.
LEMMA TypesGrow ==
    ASSUME TypeOK, Grows
    PROVE  /\ Document \subseteq Document' /\ InsertTask \subseteq InsertTask'
           /\ Saving \subseteq Saving' /\ Reading' = Reading /\ Acking \subseteq Acking'
           /\ Deleting \subseteq Deleting' /\ Pulling \subseteq Pulling'
           /\ Sweeping' = Sweeping /\ Msg' = Msg /\ MaxSave' = MaxSave
           /\ (1..Len(sent)) \X Users \subseteq (1..Len(sent')) \X Users
  <1>1. Len(sent) \in Nat /\ draws \in Nat /\ Len(sent') \in Nat /\ draws' \in Nat
    BY SMTT(30), Setting DEF Grows, TypeOK
  <1>2. /\ 1..Len(sent) \subseteq 1..Len(sent') /\ 0..draws \subseteq 0..draws'
        /\ 1..draws \subseteq 1..draws'
    BY SMTT(30), <1>1 DEF Grows
  <1>3. Document \subseteq Document'
    BY <1>2 DEF Document
  <1>4. InsertTask \subseteq InsertTask' /\ Saving \subseteq Saving' /\ Acking \subseteq Acking'
    BY <1>2 DEF InsertTask, Saving, Acking
  <1>5. (1..Len(sent)) \X Users \subseteq (1..Len(sent')) \X Users
    BY SMTT(30), <1>2
  <1>6. Deleting \subseteq Deleting' /\ Pulling \subseteq Pulling'
    BY <1>2, <1>3, <1>5 DEF Deleting, Pulling
  <1>7. Reading' = Reading /\ Sweeping' = Sweeping
    BY DEF Reading, Sweeping
  <1>8. Msg' = Msg /\ MaxSave' = MaxSave
    BY DEF Msg, Last, MaxSave, Grows
  <1> QED BY <1>3, <1>4, <1>5, <1>6, <1>7, <1>8

\* A save spawns its tasks, with a number of its own.
LEMMA SaveStep ==
    ASSUME IInv, NEW m \in 1..Len(sent'), Save(m, sent'[m]), Grows,
           \A k \in 1..Len(sent') : sent'[k].at <= now,
           \A k \in 1..Len(sent') : k = m \/ k \in 1..Len(sent)
    PROVE  IInv'
  <1> DEFINE msg == sent'[m]
             task(u) == [m |-> m, to |-> u, n |-> IF u \in msg.to THEN draws' ELSE 0,
                         by |-> draws']
             new == {task(u) : u \in CopiesFor(msg)}
  <1>1. /\ draws' = draws + 1 /\ inserts' = inserts \cup new
        /\ cons' = [op |-> "save", by |-> draws', err |-> FALSE]
        /\ lost' = {l \in lost : l[1] # m}
        /\ UNCHANGED <<clock, docs, had, asks, api, active, cleaner, asked>>
    BY DEF Save
  <1>2. draws \in Nat /\ draws' \in Nat /\ draws' \in 1..draws' /\ draws < draws' /\ draws' > 0
        /\ Len(sent) \in Nat
    BY SMTT(30), <1>1, Setting DEF IInv
  <1>3. msg \in Msg /\ CopiesFor(msg) \subseteq Users
    <2>1. msg \in Msg'
      BY SMTT(30), TypesGrow DEF Grows, IInv
    <2>2. msg.from \in Users /\ msg.to \subseteq Users
      BY <2>1 DEF Msg
    <2> QED BY <2>1, <2>2, TypesGrow DEF CopiesFor, IInv
  <1>4. ASSUME NEW u \in Users
        PROVE  /\ task(u) \in InsertTask' /\ task(u).m = m /\ task(u).to = u
               /\ task(u).n = (IF u \in msg.to THEN draws' ELSE 0) /\ task(u).by = draws'
    <2>1. (IF u \in msg.to THEN draws' ELSE 0) \in 0..draws'
      BY SMTT(30), <1>2
    <2> QED BY <1>2, <2>1 DEF InsertTask
  <1> HIDE DEF task
  <1>5. \A i \in new : /\ i \in InsertTask' /\ i.m = m /\ i.by = draws'
                       /\ i.n \in {0, draws'} /\ (i.n > 0 <=> i.to \in msg.to)
    BY SMTT(30), <1>2, <1>3, <1>4
  <1>6. ASSUME NEW i \in new, NEW j \in new, i.to = j.to PROVE i = j
    <2>1. PICK u \in CopiesFor(msg) : i = task(u)
      OBVIOUS
    <2>2. PICK v \in CopiesFor(msg) : j = task(v)
      OBVIOUS
    <2>3. task(u).to = u /\ task(v).to = v
      BY <1>3, <1>4
    <2>4. u = v
      BY <1>6, <2>1, <2>2, <2>3
    <2> QED BY <2>1, <2>2, <2>4
  <1>7. \A u \in CopiesFor(msg) : \E i \in new : i.m = m /\ i.to = u
    BY <1>3, <1>4
  <1> HIDE DEF new
  <1>8. \A k \in 1..Len(sent) : sent'[k] = sent[k]
    BY DEF Grows
  <1>9. docs \subseteq Document /\ inserts \subseteq InsertTask
    BY DEF IInv, TypeOK
  <1>10. TypeOK'
    <2>1. inserts' \subseteq InsertTask' /\ docs' \subseteq Document'
      BY <1>1, <1>5, <1>9, TypesGrow DEF IInv
    <2>2. cons' \in Saving'
      BY <1>1, <1>2 DEF Saving
    <2>3. now' \in Nat /\ now' >= First /\ setting' \in Settings /\ asks' \in 0..MaxAsk
      BY <1>1 DEF clock, IInv, TypeOK
    <2>4. api' \in {Nothing} \cup Deleting' \cup Pulling'
      BY <1>1, TypesGrow DEF IInv, TypeOK
    <2>5. clean' \in [pc : {"tick", "stuck"}] \cup Sweeping'
      BY <1>1, TypesGrow DEF IInv, TypeOK, cleaner
    <2>6. had' \cup lost' \subseteq (1..Len(sent')) \X Users
      BY <1>1, TypesGrow DEF IInv, TypeOK
    <2>7. sent' \in Seq(Msg)' /\ draws' \in 0..MaxSave'
      BY TypesGrow DEF IInv, Grows
    <2>8. active' \subseteq Collection /\ tracked' \subseteq Collection
      BY <1>1 DEF IInv, TypeOK, cleaner
    <2> QED BY <2>1, <2>2, <2>3, <2>4, <2>5, <2>6, <2>7, <2>8 DEF TypeOK
  <1>11. \A u : \A k \in 1..Len(sent) :
           CollectionName(SendTime(k), u)' = CollectionName(SendTime(k), u)
    BY <1>1, <1>8 DEF CollectionName, SendTime, Range, clock
  <1>12. Placed'
    <2>1. \A d \in docs : d.m \in 1..Len(sent)
      BY <1>9 DEF Document
    <2>2. \A d \in inserts : d.m \in 1..Len(sent)
      BY <1>9 DEF InsertTask
    <2>3. \A d \in docs' : /\ d.coll = CollectionName(SendTime(d.m), d.to)'
                           /\ <<d.m, d.to>> \in had'
      BY <1>1, <1>11, <2>1 DEF IInv, Placed
    <2>4. \A x \in docs' \cup inserts' : x.n > 0 <=> x.to \in sent'[x.m].to
      BY <1>1, <1>5, <1>8, <2>1, <2>2 DEF IInv, Placed
    <2> QED BY <1>1, <2>3, <2>4 DEF Placed, clock
  <1>13. InsertedOnce'
    <2>1. \A i \in inserts' : i.n \in {0, i.by}
      BY <1>1, <1>5 DEF IInv, InsertedOnce
    <2>2. \A i \in inserts : i.by # draws'
      BY SMTT(30), <1>2, <1>9 DEF InsertTask
    <2>3. ASSUME NEW i \in inserts', NEW j \in inserts', i.by = j.by, i.to = j.to PROVE i = j
      <3>1. i \in new <=> j \in new
        BY <1>1, <1>5, <2>2, <2>3
      <3> QED BY <1>1, <1>6, <2>3, <3>1 DEF IInv, InsertedOnce
    <2>4. \A d \in docs, i \in new : d.n > 0 => d.n # i.n
      BY SMTT(30), <1>2, <1>5, <1>9 DEF Document
    <2>5. \A d \in docs', i \in inserts' : d.n > 0 /\ d.to = i.to => d.n # i.n
      BY <1>1, <2>4 DEF IInv, InsertedOnce
    <2> QED BY <2>1, <2>3, <2>5 DEF InsertedOnce
  <1>14. RetryCompletes'
    <2> SUFFICES ASSUME NEW k \in 1..Len(sent'), NEW u \in CopiesFor(sent[k])'
                 PROVE  \/ <<k, u>> \in had' \cup lost'
                        \/ \E i \in inserts' : i.m = k /\ i.to = u
      BY DEF RetryCompletes
    <2>1. CASE k = m
      BY <1>1, <1>7, <2>1
    <2>2. CASE k # m
      <3>1. k \in 1..Len(sent) /\ CopiesFor(sent[k])' = CopiesFor(sent[k])
        BY <2>2, <1>8 DEF CopiesFor
      <3>2. <<k, u>>[1] # m
        BY <2>2
      <3>3. \/ <<k, u>> \in had \cup lost
            \/ \E i \in inserts : i.m = k /\ i.to = u
        BY <3>1 DEF IInv, RetryCompletes
      <3> QED BY <1>1, <3>2, <3>3
    <2> QED BY <2>1, <2>2
  <1>15. Requested'
    <2>1. cons'.op = "save"
      BY <1>1
    <2> QED BY <1>1, <2>1 DEF IInv, Requested, Requests, cleaner
  <1>16. PullWalks => PullWalks'
    <2>1. api.op = "pull" => \A p \in api.due : p[1] \in 1..Len(sent)
      BY SMTT(30), Kinds DEF IInv, Pulling
    <2> QED BY <1>1, <1>8, <1>11, <2>1 DEF PullWalks
  <1>17. DeleteWalks => DeleteWalks'
    <2>1. api.op = "number" => \A d \in api.due : d.m \in 1..Len(sent)
      BY Kinds DEF IInv, Deleting, Document
    <2>2. ASSUME DeleteWalks, api.op = "number", NEW d \in api.due, NEW i \in new
          PROVE  d.n # i.n
      <3>1. d.n \in 1..draws
        BY <2>2, Kinds DEF IInv, Deleting, DeleteWalks
      <3> QED BY SMTT(30), <3>1, <1>2, <1>5
    <2> QED BY <1>1, <1>11, <2>1, <2>2 DEF DeleteWalks
  <1> QED BY <1>1, <1>10, <1>12, <1>13, <1>14, <1>15, <1>16, <1>17 DEF IInv, OneCopyEach

\* A message is handled for the first time, at the end of the topic.
LEMMA SaveNewStep == ASSUME IInv, NEW msg \in Msg, SaveNew(msg) PROVE IInv'
  <1>1. /\ sent' = Append(sent, msg) /\ msg.at = now /\ Save(Len(sent'), msg)
        /\ sent \in Seq(Msg) /\ now \in Nat /\ TypeOK /\ draws < MaxSave /\ draws' = draws + 1
        /\ setting' = setting /\ now' = now
    BY DEF SaveNew, Save, clock, IInv, TypeOK
  <1>2. /\ sent' \in Seq(Msg) /\ Len(sent') = Len(sent) + 1 /\ Len(sent) \in Nat
        /\ Len(sent') \in 1..Len(sent') /\ sent'[Len(sent')] = msg
        /\ \A k \in 1..Len(sent) : sent'[k] = sent[k]
        /\ \A k \in 1..Len(sent') : k = Len(sent') \/ k \in 1..Len(sent)
    BY SMTT(30), <1>1
  <1>3. draws' \in 0..MaxSave /\ draws <= draws' /\ Len(sent) <= Len(sent') /\ now <= now
    BY SMTT(30), <1>1, <1>2, Setting
  <1>4. \A k \in 1..Len(sent') : sent'[k].at <= now
    BY <1>1, <1>2, <1>3 DEF IInv, Placed
  <1>5. Grows
    BY <1>1, <1>2, <1>3 DEF Grows
  <1> QED BY <1>1, <1>2, <1>4, <1>5, SaveStep

\* The last message is handled again.
LEMMA SaveAgainStep == ASSUME IInv, SaveAgain PROVE IInv'
  <1>1. /\ sent' = sent /\ sent # <<>> /\ Save(Len(sent), sent[Len(sent)])
        /\ sent \in Seq(Msg) /\ now \in Nat /\ TypeOK /\ draws < MaxSave /\ draws' = draws + 1
        /\ setting' = setting /\ now' = now
    BY DEF SaveAgain, Save, clock, IInv, TypeOK
  <1>2. Len(sent) \in Nat /\ Len(sent) \in 1..Len(sent)
    BY SMTT(30), <1>1
  <1>3. draws' \in 0..MaxSave /\ draws <= draws' /\ Len(sent) <= Len(sent) /\ now <= now
    BY SMTT(30), <1>1, <1>2, Setting
  <1>4. \A k \in 1..Len(sent') : sent'[k].at <= now /\ k \in 1..Len(sent)
    BY <1>1 DEF IInv, Placed
  <1>5. Grows
    BY <1>1, <1>3 DEF Grows
  <1> QED BY <1>1, <1>2, <1>4, <1>5, SaveStep

\* A copy that was had, lost or on its way is so still.
LEMMA RetryGoesOn ==
    ASSUME RetryCompletes, sent' = sent, had \subseteq had', lost \subseteq lost',
           \A i \in inserts : i \in inserts' \/ <<i.m, i.to>> \in had' \cup lost'
    PROVE  RetryCompletes'
  <1> SUFFICES ASSUME NEW k \in 1..Len(sent'), NEW u \in CopiesFor(sent[k])'
               PROVE  \/ <<k, u>> \in had' \cup lost'
                      \/ \E i \in inserts' : i.m = k /\ i.to = u
    BY DEF RetryCompletes
  <1>1. k \in 1..Len(sent) /\ CopiesFor(sent[k])' = CopiesFor(sent[k])
    BY DEF CopiesFor
  <1>2. \/ <<k, u>> \in had \cup lost
        \/ \E i \in inserts : i.m = k /\ i.to = u
    BY <1>1 DEF RetryCompletes
  <1> QED BY <1>2

\* Tasks end: what changes is the tables of a save, and what it has heard of.
LEMMA TasksEnd ==
    ASSUME IInv, UNCHANGED <<clock, sent, draws, asks, api, cleaner, asked>>,
           inserts' \subseteq inserts, docs' \subseteq Document,
           \A e \in docs' : \/ e \in docs
                           \/ \E i \in inserts \ inserts' : e.to = i.to /\ e.n = i.n,
           had' \cup lost' \subseteq (1..Len(sent)) \X Users, active' \subseteq Collection,
           Placed', OneCopyEach', RetryCompletes',
           cons' = cons \/ cons' \in {Nothing} \cup Saving
    PROVE  IInv'
  <1> USE DEF clock, cleaner
  <1>0. /\ api' = api /\ clean' = clean /\ asked' = asked
        /\ setting' = setting /\ now' = now /\ sent' = sent
    OBVIOUS
  <1>1. /\ Document' = Document /\ InsertTask' = InsertTask
        /\ Saving' = Saving /\ Reading' = Reading /\ Acking' = Acking
        /\ Deleting' = Deleting /\ Pulling' = Pulling
        /\ MaxSave' = MaxSave /\ Msg' = Msg /\ Sweeping' = Sweeping
    BY DEF Document, InsertTask, Saving, Reading, Acking, Deleting, Pulling,
           MaxSave, Msg, Last, Sweeping
  <1>2. TypeOK'
    BY <1>1 DEF IInv, TypeOK
  <1>3. InsertedOnce'
    <2>1. ASSUME NEW e \in docs', NEW j \in inserts', e.n > 0, e.to = j.to PROVE e.n # j.n
      <3>1. CASE e \in docs
        BY <2>1, <3>1 DEF IInv, InsertedOnce
      <3>2. ASSUME NEW i \in inserts \ inserts', e.to = i.to, e.n = i.n PROVE e.n # j.n
        <4>1. ~(0 > 0)
          BY SMTT(30)
        <4>2. i.n = i.by /\ (j.n = i.n => j.by = i.by)
          BY <2>1, <3>2, <4>1 DEF IInv, InsertedOnce
        <4>3. j.by # i.by
          BY <2>1, <3>2 DEF IInv, InsertedOnce
        <4> QED BY <3>2, <4>2, <4>3
      <3> QED BY <3>1, <3>2
    <2> QED BY <2>1 DEF IInv, InsertedOnce
  <1>4. Requested'
    <2>1. cons' \in {Nothing} \cup Saving => cons'.op # "read" /\ cons'.op # "id"
      BY SMTT(30) DEF Nothing, Saving
    <2> QED BY <1>0, <2>1 DEF IInv, Requested, Requests
  <1>5. PullWalks /\ DeleteWalks => PullWalks' /\ DeleteWalks'
    <2>1. \A e \in docs : SameCopy(e, e)
      BY DEF SameCopy
    <2> QED BY <1>0, <2>1, WalksGoOn
  <1> QED BY <1>2, <1>3, <1>4, <1>5 DEF IInv

\* What a save hears of a task.
LEMMA Reported ==
    ASSUME IInv, NEW i, NEW err \in BOOLEAN, Reports(i, err)
    PROVE  cons' = cons \/ cons' \in {Nothing} \cup Saving
  <1>1. cons.op = "save" => cons \in Saving
    BY Kinds DEF IInv
  <1>2. cons.op = "save" => [cons EXCEPT !.err = @ \/ err] \in Saving
    BY <1>1 DEF Saving
  <1> QED BY <1>2 DEF Reports

LEMMA InsertStep == ASSUME IInv, NEW i \in inserts, Insert(i) PROVE IInv'
  <1> DEFINE c == CollectionName(SendTime(i.m), i.to)
             new == [m |-> i.m, to |-> i.to, n |-> i.n, coll |-> c, read |-> FALSE]
  <1>1. /\ inserts' = inserts \ {i}
        /\ UNCHANGED <<clock, sent, draws, lost, asks, api, active, cleaner, asked>>
        /\ \/ Duplicate(i, c) /\ docs' = docs /\ had' = had
           \/ ~Duplicate(i, c) /\ docs' = docs \cup {new} /\ had' = had \cup {<<i.m, i.to>>}
        /\ \E err \in BOOLEAN : Reports(i, err)
    BY DEF Insert, Remaining
  <1>2. i.m \in 1..Len(sent) /\ i.to \in Users /\ i.n \in 0..draws
    BY DEF IInv, TypeOK, InsertTask
  <1>3. c \in Collection
    <2>1. SendTime(i.m) \in Nat
      BY <1>2, Messages DEF IInv
    <2>2. SendTime(i.m) \in Int
      BY SMTT(30), <2>1
    <2> QED BY <1>2, <2>2, Named DEF IInv
  <1>4. new \in Document /\ new.m = i.m /\ new.to = i.to /\ new.n = i.n /\ new.coll = c
    BY <1>2, <1>3 DEF Document
  <1> HIDE DEF new
  <1>5. <<i.m, i.to>> \in had' /\ had \subseteq had'
    <2>1. Duplicate(i, c) => <<i.m, i.to>> \in had
      BY DEF Duplicate, IInv, Placed
    <2> QED BY <1>1, <2>1
  <1>6. RetryCompletes'
    BY <1>1, <1>5, RetryGoesOn DEF IInv
  <1>7. \A m, u : CollectionName(SendTime(m), u)' = CollectionName(SendTime(m), u)
    BY <1>1 DEF CollectionName, SendTime, Range, clock
  <1>8. Placed'
    <2>1. ASSUME NEW d \in docs'
          PROVE  d.coll = CollectionName(SendTime(d.m), d.to)' /\ <<d.m, d.to>> \in had'
      <3>1. CASE d \in docs
        BY <3>1, <1>5, <1>7 DEF IInv, Placed
      <3>2. CASE d = new
        BY <3>2, <1>4, <1>5, <1>7
      <3> QED BY <1>1, <3>1, <3>2
    <2>2. \A x \in docs' \cup inserts' : x.n > 0 <=> x.to \in sent'[x.m].to
      BY <1>1, <1>4 DEF IInv, Placed
    <2> QED BY <1>1, <2>1, <2>2 DEF IInv, Placed, clock
  <1>9. OneCopyEach'
    <2>1. ~Duplicate(i, c) => \A d \in docs : ~(d.m = i.m /\ d.to = i.to)
      BY DEF Duplicate, IInv, Placed
    <2> QED BY <1>1, <1>4, <2>1 DEF IInv, OneCopyEach
  <1>10. docs' \subseteq Document /\ had' \cup lost' \subseteq (1..Len(sent)) \X Users
    <2>1. <<i.m, i.to>> \in (1..Len(sent)) \X Users
      BY SMTT(30), <1>2
    <2> QED BY <1>1, <1>4, <2>1 DEF IInv, TypeOK
  <1>11. cons' = cons \/ cons' \in {Nothing} \cup Saving
    BY <1>1, Reported
  <1>12. \A e \in docs' : \/ e \in docs
                          \/ \E j \in inserts \ inserts' : e.to = j.to /\ e.n = j.n
    BY <1>1, <1>4
  <1> QED BY <1>1, <1>6, <1>8, <1>9, <1>10, <1>11, <1>12, TasksEnd DEF IInv, TypeOK

LEMMA InsertFailsStep == ASSUME IInv, NEW i \in inserts, InsertFails(i) PROVE IInv'
  <1>1. /\ inserts' = inserts \ {i} /\ lost' = lost \cup {<<i.m, i.to>>} /\ Reports(i, TRUE)
        /\ UNCHANGED <<clock, sent, docs, draws, had, asks, api, active, cleaner, asked>>
    BY DEF InsertFails
  <1>2. i.m \in 1..Len(sent) /\ i.to \in Users
    BY DEF IInv, TypeOK, InsertTask
  <1>3. RetryCompletes'
    BY <1>1, RetryGoesOn DEF IInv
  <1>4. \A m, u : CollectionName(SendTime(m), u)' = CollectionName(SendTime(m), u)
    BY <1>1 DEF CollectionName, SendTime, Range, clock
  <1>5. Placed' /\ OneCopyEach'
    BY <1>1, <1>4 DEF IInv, Placed, OneCopyEach, clock
  <1>6. docs' \subseteq Document /\ had' \cup lost' \subseteq (1..Len(sent)) \X Users
    <2>1. <<i.m, i.to>> \in (1..Len(sent)) \X Users
      BY SMTT(30), <1>2
    <2> QED BY <1>1, <2>1 DEF IInv, TypeOK
  <1>7. cons' = cons \/ cons' \in {Nothing} \cup Saving
    BY <1>1, Reported
  <1> QED BY <1>1, <1>3, <1>5, <1>6, <1>7, TasksEnd DEF IInv, TypeOK

\* A crash ends all tasks of the server at once.
LEMMA CrashStep == ASSUME IInv, Crash PROVE IInv'
  <1>1. /\ inserts' = {} /\ lost' = lost \cup {<<i.m, i.to>> : i \in inserts} /\ cons' = Nothing
        /\ UNCHANGED <<clock, sent, docs, draws, had, asks, api, cleaner, asked>>
        /\ active' \in {Ahead, active}
    BY DEF Crash
  <1>2. \A i \in inserts : i.m \in 1..Len(sent) /\ i.to \in Users
    BY DEF IInv, TypeOK, InsertTask
  <1>3. RetryCompletes'
    BY <1>1, RetryGoesOn DEF IInv
  <1>4. \A m, u : CollectionName(SendTime(m), u)' = CollectionName(SendTime(m), u)
    BY <1>1 DEF CollectionName, SendTime, Range, clock
  <1>5. Placed' /\ OneCopyEach'
    BY <1>1, <1>4 DEF IInv, Placed, OneCopyEach, clock
  <1>6. docs' \subseteq Document /\ had' \cup lost' \subseteq (1..Len(sent)) \X Users
    <2>1. \A i \in inserts : <<i.m, i.to>> \in (1..Len(sent)) \X Users
      BY SMTT(30), <1>2
    <2> QED BY ZenonT(40), <1>1, <2>1 DEF IInv, TypeOK
  <1>7. active' \subseteq Collection
    BY <1>1, AheadCollections DEF IInv, TypeOK
  <1> QED BY <1>1, <1>3, <1>5, <1>6, <1>7, TasksEnd DEF IInv, TypeOK

\* The box is empty to start with.
LEMMA InitIInv == Init => IInv
  <1> SUFFICES ASSUME Init PROVE IInv
    OBVIOUS
  <1>1. cons.op = "none" /\ api.op = "none" /\ clean.pc = "tick"
    BY DEF Init, Nothing
  <1>2. /\ setting \in Settings /\ now \in Nat /\ now >= First /\ MaxSave \in Nat
        /\ sent \in Seq(Msg) /\ Len(sent) = 0 /\ draws \in 0..MaxSave /\ asks \in 0..MaxAsk
    BY SMTT(30), ShardedBoxAssumption DEF Init, MaxSave
  <1>3. Ahead \subseteq Collection
    BY SMTT(30), ShardedBoxAssumption DEF Init, Ahead, Ranges, Range, Collection
  <1>4. TypeOK
    BY <1>2, <1>3 DEF Init, TypeOK
  <1>5. 1..Len(sent) = {}
    BY SMTT(30), <1>2
  <1>6. Placed /\ InsertedOnce /\ RetryCompletes /\ OneCopyEach
    BY <1>5 DEF Init, Placed, InsertedOnce, RetryCompletes, OneCopyEach
  <1> QED BY <1>1, <1>4, <1>6 DEF IInv, Requested, PullWalks, DeleteWalks

\* Every step keeps the invariant.
LEMMA NextIInv == IInv /\ [Next]_vars => IInv'
  <1> SUFFICES ASSUME IInv, [Next]_vars PROVE IInv'
    OBVIOUS
  <1>1. CASE UNCHANGED vars
    BY <1>1, ConsumerMoves DEF vars, IInv, TypeOK, Requested
  <1>2. CASE Consumes
    BY <1>2, SaveNewStep, SaveAgainStep, SaveReturnsStep, InsertStep, InsertFailsStep,
       ReadBeginsStep, AckBeginsStep, AckStepStep, ReadStepStep, AckReturnsStep, CrashStep
       DEF Consumes
  <1>3. CASE Serves
    BY <1>3, DeleteBeginsStep, PullBeginsStep, DeleteStepStep, PullStepStep, PullSkipsStep,
       RequestEndsStep DEF Serves
  <1>4. CASE Cleans
    BY <1>4, CleanBeginsStep, CleanEndsStep, CleanStepStep DEF Cleans
  <1>5. CASE Maintain \/ MaintainTracked \/ MonthPasses
    BY <1>5, MaintainStep, MaintainTrackedStep, MonthStep
  <1> QED BY <1>1, <1>2, <1>3, <1>4, <1>5 DEF Next, Idle
-----------------------------------------------------------------------------
\* What an insert puts into the box is not marked as read.
LEMMA InsertPuts == ASSUME IInv, NEW i \in inserts, Insert(i) PROVE Box!Next
  <1>1. sent' = sent /\ asked' = asked
    BY DEF Insert
  <1>2. docs \subseteq docs' /\ \A d \in docs' \ docs : ~d.read
    <2> DEFINE new == [m |-> i.m, to |-> i.to, n |-> i.n,
                       coll |-> CollectionName(SendTime(i.m), i.to), read |-> FALSE]
    <2>1. docs' = docs \/ docs' = docs \cup {new}
      BY DEF Insert
    <2>2. ~new.read
      OBVIOUS
    <2> HIDE DEF new
    <2> QED BY <2>1, <2>2
  <1>3. \A d : Copy(d)' = Copy(d)
    BY <1>1 DEF Copy, SendTime
  <1>4. \A d : Copy(d).read = d.read
    BY DEF Copy
  <1>5. Contents \subseteq Contents' /\ \A c \in Contents' \ Contents : ~c.read
    BY <1>2, <1>3, <1>4 DEF Contents
  <1> QED BY <1>1, <1>5 DEF Box!Next, Box!Put, Contents

\* Every step of the sharded box is one of Inbox, or none.
LEMMA NextIsInbox == IInv /\ [Next]_vars => [Box!Next]_<<Contents, asked>>
  <1> SUFFICES ASSUME IInv, [Next]_vars PROVE Box!Next
    OBVIOUS
  <1>1. ASSUME docs' = docs, asked \subseteq asked',
               \A m \in 1..Len(sent) : sent'[m] = sent[m]
        PROVE  Box!Next
    BY <1>1, TakesFromBox
  <1>2. ASSUME NEW msg \in Msg, SaveNew(msg) PROVE Box!Next
    <2>1. docs' = docs /\ asked' = asked /\ sent' = Append(sent, msg) /\ sent \in Seq(Msg)
      BY <1>2 DEF SaveNew, Save, IInv, TypeOK
    <2>2. \A m \in 1..Len(sent) : sent'[m] = sent[m]
      BY SMTT(30), <2>1
    <2> QED BY <1>1, <2>1, <2>2
  <1>3. CASE UNCHANGED vars
    BY <1>1, <1>3 DEF vars, store
  <1>4. CASE Consumes
    <2>1. ASSUME SaveAgain \/ SaveReturns \/ AckReturns \/ WalkFails \/ Crash PROVE Box!Next
      BY <1>1, <2>1 DEF SaveAgain, Save, SaveReturns, AckReturns, WalkFails, Crash, store
    <2>2. ASSUME NEW i, InsertFails(i) PROVE Box!Next
      BY <1>1, <2>2 DEF InsertFails
    <2>3. ASSUME NEW u, NEW ns, ReadBegins(u, ns) PROVE Box!Next
      BY <1>1, <2>3 DEF ReadBegins, store
    <2>4. ASSUME NEW m, AckBegins(m) PROVE Box!Next
      BY <1>1, <2>4 DEF AckBegins, store
    <2> QED BY <1>2, <1>4, <2>1, <2>2, <2>3, <2>4, InsertPuts, ReadMarks, AckReleases DEF Consumes
  <1>5. CASE Serves
    <2>1. ASSUME NEW u, NEW ns, DeleteBegins(u, ns) PROVE Box!Next
      BY <1>1, <2>1 DEF DeleteBegins, store
    <2>2. ASSUME NEW u, NEW r, PullBegins(u, r, r) PROVE Box!Next
      BY <1>1, <2>2 DEF PullBegins, store
    <2>3. ASSUME PullStep \/ PullSkips \/ RequestReturns \/ RequestFails PROVE Box!Next
      BY <1>1, <2>3 DEF PullStep, PullSkips, RequestReturns, RequestFails, store
    <2> QED BY <1>5, <2>1, <2>2, <2>3, DeleteReleases DEF Serves
  <1>6. CASE Cleans
    <2>1. ASSUME CleanBegins \/ CleanEnds PROVE Box!Next
      BY <1>1, <2>1 DEF CleanBegins, CleanEnds, store
    <2> QED BY <1>6, <2>1, CleanReleases DEF Cleans
  <1>7. CASE Maintain \/ MaintainTracked \/ MonthPasses
    BY <1>1, <1>7 DEF Maintain, MaintainTracked, MonthPasses, store
  <1> QED BY <1>3, <1>4, <1>5, <1>6, <1>7 DEF Next, Idle
-----------------------------------------------------------------------------
\* The invariant is one.
THEOREM InductiveInvariant == Spec => []IInv
  BY InitIInv, NextIInv, PTL DEF Spec

\* However often a message is saved, in whatever month, the unique index of
\* the collection of its send_time leaves each receiver one copy.
THEOREM IndexCatchesAll == Spec => []OneCopyEach
  <1>1. IInv => OneCopyEach
    BY DEF IInv
  <1> QED BY <1>1, InductiveInvariant, PTL

\* Saving a message again makes good what an earlier save lost: the tasks of
\* save_message do not depend on each other.
THEOREM SavingAgainCompletes == Spec => []RetryCompletes
  <1>1. IInv => RetryCompletes
    BY DEF IInv
  <1> QED BY <1>1, InductiveInvariant, PTL

\* With send_time in seconds, get_msgs finds what a user received in the last
\* three months, although it asks collection after collection while documents
\* come and go and months pass.
THEOREM PullFinds == ASSUME Unit = 1 PROVE Spec => []PullFindsRecent
  <1>1. IInv => PullFindsRecent
    <2> SUFFICES ASSUME IInv, api.op = "pull", api.colls = <<>> PROVE api.due = {}
      BY DEF PullFindsRecent
    <2>1. ~\E j \in 1..Len(<<>>) : TRUE
      BY SMTT(30)
    <2> QED BY <2>1 DEF IInv, PullWalks, Remains
  <1> QED BY <1>1, InductiveInvariant, PTL

\* With send_time in seconds, delete_messages deletes what it is asked to of
\* this month and the last, also when the month changes while it does.
THEOREM DeleteReaches == ASSUME Unit = 1 PROVE Spec => []DeletesRecent
  <1>1. IInv => DeletesRecent
    <2> SUFFICES ASSUME IInv, api.op = "number", api.colls = <<>>, NEW d \in api.due
                 PROVE  \A e \in docs : ~SameCopy(d, e)
      BY DEF DeletesRecent
    <2>1. ~\E j \in 1..Len(<<>>) : TRUE
      BY SMTT(30)
    <2> QED BY <2>1 DEF IInv, DeleteWalks, Remains
  <1> QED BY <1>1, InductiveInvariant, PTL

\* The sharded box is an Inbox: whatever months pass while a request walks
\* through its collections, no copy goes or is marked that nobody asked for.
THEOREM ShardedBoxIsInbox == Spec => IsInbox
  <1>1. Init => Box!Init
    BY DEF Init, Box!Init
  <1>2. IInv /\ [Next]_vars => [Box!Next]_<<{Copy(d) : d \in docs}, asked>>
    BY NextIsInbox DEF Contents
  <1> QED BY <1>1, <1>2, InductiveInvariant, PTL DEF Spec, IsInbox, Box!Spec
-----------------------------------------------------------------------------
(* MsgBox, the receive box of one collection.  The two are alternatives,   *)
(* so it has the same names for its clock, topic and documents.            *)

CONSTANTS Group, Days, Saves
VARIABLE saving

Plain == INSTANCE MsgBox WITH Last <- Days, MaxSave <- Saves

\* The copies in the collection, as Inbox has them.
PlainContents == {Plain!Copy(d) : d \in docs}

\* The topic and the numbers drawn.
LEMMA PlainTopic ==
    ASSUME Plain!MsgBoxAssumption, Plain!TypeOK
    PROVE  /\ Len(sent) \in Nat /\ draws \in Nat /\ Saves \in Nat /\ Days \in Nat
           /\ now \in Nat /\ MaxAsk \in Nat /\ Period \in Nat
           /\ \A m \in 1..Len(sent) :
                 /\ sent[m] \in Plain!Msg /\ sent[m].from \in Users
                 /\ sent[m].to \in Users \cup {Group}
  <1>1. /\ Len(sent) \in Nat /\ draws \in Nat /\ Saves \in Nat /\ Days \in Nat
        /\ now \in Nat /\ MaxAsk \in Nat /\ Period \in Nat
        /\ \A m \in 1..Len(sent) : sent[m] \in Plain!Msg
    BY SMTT(30) DEF Plain!MsgBoxAssumption, Plain!TypeOK
  <1> QED BY <1>1 DEF Plain!Msg

\* The documents of a save are of one message, each for another receiver.
LEMMA PlainDocuments ==
    ASSUME Plain!MsgBoxAssumption, NEW msg \in Plain!Msg, msg.to # msg.from,
           NEW m \in 1..Saves, NEW k \in 1..Saves,
           NEW d \in Plain!Documents(m, msg, k)
    PROVE  /\ d \in Plain!Doc /\ d.m = m /\ d.by = k /\ ~d.read
           /\ d.to # msg.from
           /\ msg.to # Group => d.to = msg.to
           /\ \A e \in Plain!Documents(m, msg, k) : d.to = e.to => d = e
  <1>1. ASSUME NEW u \in Users \cup {Group}, NEW n \in 0..Saves
        PROVE  LET e == Plain!Doc1(m, u, n, k) IN
               e \in Plain!Doc /\ e.m = m /\ e.to = u /\ e.by = k /\ e.read = FALSE
    BY SMTT(30) DEF Plain!Doc1, Plain!Doc
  <1>2. /\ msg.from \in Users /\ msg.to \in Users \cup {Group} /\ Group \notin Users
        /\ k \in 0..Saves /\ 0 \in 0..Saves
    <2>1. k \in 0..Saves /\ 0 \in 0..Saves
      BY SMTT(30)
    <2> QED BY <2>1 DEF Plain!Msg, Plain!MsgBoxAssumption
  <1>3. ASSUME NEW e \in Plain!Documents(m, msg, k)
        PROVE  \/ msg.to # Group /\ e = Plain!Doc1(m, msg.to, k, k)
               \/ msg.to = Group /\ e = Plain!Doc1(m, Group, 0, k)
               \/ msg.to = Group /\ \E u \in Users \ {msg.from} : e = Plain!Doc1(m, u, k, k)
    BY DEF Plain!Documents
  <1>4. ASSUME NEW e \in Plain!Documents(m, msg, k)
        PROVE  /\ e \in Plain!Doc /\ e.m = m /\ e.by = k /\ e.read = FALSE
               /\ e.to # msg.from /\ (msg.to # Group => e.to = msg.to)
               /\ e.to = Group => e = Plain!Doc1(m, e.to, 0, k)
               /\ e.to # Group => e = Plain!Doc1(m, e.to, k, k)
    <2>1. CASE msg.to # Group /\ e = Plain!Doc1(m, msg.to, k, k)
      BY <1>1, <1>2, <2>1
    <2>2. CASE msg.to = Group /\ e = Plain!Doc1(m, Group, 0, k)
      BY <1>1, <1>2, <2>2
    <2>3. CASE msg.to = Group /\ \E u \in Users \ {msg.from} : e = Plain!Doc1(m, u, k, k)
      <3>1. PICK u \in Users \ {msg.from} : e = Plain!Doc1(m, u, k, k)
        BY <2>3
      <3>2. u \in Users \cup {Group} /\ u # Group
        BY <1>2
      <3> QED BY <1>1, <1>2, <2>3, <3>1, <3>2
    <2> QED BY <1>3, <2>1, <2>2, <2>3
  <1> QED BY <1>4

\* A save begins when the one before has ended.
LEMMA PlainSaveStep ==
    ASSUME Plain!MsgBoxAssumption, Plain!IInv,
           NEW msg \in Plain!Msg, msg.to # msg.from, Plain!Save(Len(sent'), msg),
           sent' \in Seq(Plain!Msg), Len(sent') <= draws + 1, Len(sent) <= Len(sent'),
           Len(sent') \in 1..Len(sent'), sent'[Len(sent')] = msg, Len(sent') \in {Len(sent), Len(sent) + 1},
           \A m \in 1..Len(sent) : sent'[m] = sent[m]
    PROVE  Plain!IInv'
  <1> DEFINE M == Len(sent')
             K == draws + 1
  <1>1. /\ draws' = K /\ saving = {} /\ saving' = Plain!Documents(M, msg, K)
        /\ UNCHANGED <<now, docs, asks, asked>>
    BY DEF Plain!Save
  <1>2. /\ K \in 1..Saves /\ K \in 0..Saves /\ M \in 1..Saves /\ M <= Saves /\ M <= K
        /\ 1..Len(sent) \subseteq 1..M
        /\ \A k \in Nat : k <= draws => k <= K /\ k # K
    BY SMTT(30), PlainTopic DEF Plain!IInv, Plain!TypeOK, Plain!Save, Plain!MsgBoxAssumption
  <1> HIDE DEF M, K
  <1>3. ASSUME NEW d \in saving'
        PROVE  /\ d \in Plain!Doc /\ d.m = M /\ d.by = K /\ ~d.read
               /\ d.to # msg.from
               /\ msg.to # Group => d.to = msg.to
               /\ \A e \in saving' : d.to = e.to => d = e
    <2>1. saving' = Plain!Documents(M, msg, K) /\ M \in 1..Saves /\ K \in 1..Saves
      BY <1>1, <1>2
    <2>2. d \in Plain!Documents(M, msg, K)
      BY <2>1
    <2> QED BY SMTT(30), <2>1, <2>2, PlainDocuments
  <1>4. ASSUME NEW d \in docs PROVE Plain!Addressed(d) /\ d.by \in Nat /\ d.by # K
    <2>1. Plain!Addressed(d)
      BY DEF Plain!IInv
    <2>2. d.by \in Nat
      <3>1. d.by \in 1..Saves
        BY DEF Plain!IInv, Plain!TypeOK, Plain!Doc
      <3> QED BY SMTT(30), <3>1
    <2> QED BY <1>2, <2>1, <2>2 DEF Plain!Addressed
  <1>5. Plain!TypeOK'
    BY <1>1, <1>2, <1>3 DEF Plain!IInv, Plain!TypeOK, Plain!Msg, Plain!Doc, M
  <1>6. ASSUME NEW d \in docs' \cup saving' PROVE Plain!Addressed(d)'
    <2>1. CASE d \in docs
      <3>1. d.m \in 1..Len(sent) /\ d.m \in 1..M /\ sent'[d.m] = sent[d.m]
        BY <1>2, <1>4, <2>1 DEF Plain!Addressed
      <3>2. d.by <= draws'
        BY <1>1, <1>2, <1>4, <2>1 DEF Plain!Addressed
      <3> QED BY <1>4, <2>1, <3>1, <3>2 DEF Plain!Addressed, M
    <2>2. CASE d \in saving'
      <3>1. K <= K
        BY SMTT(30), <1>2
      <3>2. d.m \in 1..Len(sent') /\ sent'[d.m] = msg
        BY <1>3, <2>2 DEF M
      <3> QED BY <1>1, <1>3, <2>2, <3>1, <3>2 DEF Plain!Addressed
    <2> QED BY <1>1, <2>1, <2>2
  <1>7. Plain!OneEach(docs \cup saving)'
    <2> SUFFICES ASSUME NEW d \in docs \cup saving', NEW e \in docs \cup saving', d.by = e.by
                 PROVE  d.m = e.m /\ (d.to = e.to => d = e)
      BY ZenonT(40), <1>1 DEF Plain!OneEach
    <2>1. CASE d \in docs /\ e \in docs
      BY <2>1 DEF Plain!IInv, Plain!OneEach
    <2>2. CASE d \in saving' /\ e \in saving'
      BY <1>3, <2>2
    <2> QED BY <1>3, <1>4, <2>1, <2>2
  <1>8. Plain!Pending'
    BY <1>1, <1>3, <1>4 DEF Plain!Pending, M
  <1>9. ASSUME NEW m \in 1..M PROVE sent'[m].to # sent'[m].from
    <2>1. m = M \/ m \in 1..Len(sent)
      BY SMTT(30), PlainTopic, <1>2 DEF M, Plain!IInv
    <2> QED BY <2>1 DEF M, Plain!IInv
  <1> QED BY <1>1, <1>2, <1>5, <1>6, <1>7, <1>8, <1>9 DEF Plain!IInv, M

\* SaveNew appends its message, SaveAgain takes the last one.
LEMMA PlainSavesStep ==
    ASSUME Plain!MsgBoxAssumption, Plain!IInv,
           (\E msg \in Plain!Msg : Plain!SaveNew(msg)) \/ Plain!SaveAgain
    PROVE  Plain!IInv'
  <1>1. /\ sent \in Seq(Plain!Msg) /\ Len(sent) \in Nat /\ draws \in Nat /\ Len(sent) <= draws
        /\ \A m \in 1..Len(sent) : sent[m] \in Plain!Msg
    BY PlainTopic DEF Plain!IInv, Plain!TypeOK
  <1>2. ASSUME NEW msg \in Plain!Msg, Plain!SaveNew(msg) PROVE Plain!IInv'
    <2>1. msg.to # msg.from /\ sent' = Append(sent, msg) /\ Plain!Save(Len(sent'), msg)
      BY <1>2 DEF Plain!SaveNew
    <2>2. /\ sent' \in Seq(Plain!Msg) /\ Len(sent') <= draws + 1 /\ Len(sent) <= Len(sent')
          /\ Len(sent') \in 1..Len(sent') /\ sent'[Len(sent')] = msg
          /\ Len(sent') \in {Len(sent), Len(sent) + 1}
          /\ \A m \in 1..Len(sent) : sent'[m] = sent[m]
      BY SMTT(30), <1>1, <2>1
    <2> QED BY <2>1, <2>2, PlainSaveStep
  <1>3. ASSUME Plain!SaveAgain PROVE Plain!IInv'
    <2> DEFINE msg == sent[Len(sent)]
    <2>1. sent # <<>> /\ sent' = sent /\ Plain!Save(Len(sent), msg)
      BY <1>3 DEF Plain!SaveAgain
    <2>2. /\ Len(sent) \in 1..Len(sent) /\ Len(sent) <= draws + 1 /\ Len(sent) <= Len(sent)
      BY SMTT(30), <1>1, <2>1
    <2>3. msg \in Plain!Msg /\ msg.to # msg.from
      BY <1>1, <2>2 DEF Plain!IInv
    <2> QED BY <1>1, <2>1, <2>2, <2>3, PlainSaveStep
  <1> QED BY <1>2, <1>3

\* A step that inserts documents of the save, drops what is left of it, or
\* takes or marks documents, keeps the invariant: every document was there
\* before, up to the mark.
LEMMA PlainKeeps ==
    ASSUME Plain!MsgBoxAssumption, Plain!IInv, sent' = sent, draws' = draws,
           now' \in 0..Days, asks' \in 0..MaxAsk, saving' \subseteq saving,
           docs' \subseteq Plain!Doc,
           \A e \in docs' : \E d \in docs \cup saving :
              /\ d.m = e.m /\ d.to = e.to /\ d.by = e.by
              /\ d \in saving => d \notin saving',
           \A e, f \in docs' : e.by = f.by /\ e.to = f.to => e = f
    PROVE  Plain!IInv'
  <1>1. Plain!TypeOK'
    BY DEF Plain!IInv, Plain!TypeOK, Plain!Msg, Plain!Doc
  <1>2. ASSUME NEW e \in docs' \cup saving'
        PROVE  \E d \in docs \cup saving :
                  /\ d.m = e.m /\ d.to = e.to /\ d.by = e.by
                  /\ e \in saving' => d = e
                  /\ e \notin saving' => d \notin saving'
    <2>1. CASE e \in saving'
      BY <2>1
    <2>2. CASE e \notin saving'
      <3>1. PICK d \in docs \cup saving : /\ d.m = e.m /\ d.to = e.to /\ d.by = e.by
                                          /\ d \in saving => d \notin saving'
        BY <2>2
      <3>2. d \notin saving'
        BY <3>1 DEF Plain!IInv, Plain!Pending
      <3> QED BY <2>2, <3>1, <3>2
    <2> QED BY <2>1, <2>2
  <1>3. \A e \in docs' \cup saving' : Plain!Addressed(e)'
    <2> SUFFICES ASSUME NEW e \in docs' \cup saving' PROVE Plain!Addressed(e)'
      OBVIOUS
    <2>1. PICK d \in docs \cup saving : d.m = e.m /\ d.to = e.to /\ d.by = e.by
      BY <1>2
    <2>2. Plain!Addressed(d)
      BY DEF Plain!IInv
    <2> QED BY <2>1, <2>2 DEF Plain!Addressed
  <1>4. ASSUME NEW e \in docs' \cup saving', NEW f \in docs' \cup saving', e.by = f.by
        PROVE  e.m = f.m /\ (e.to = f.to => e = f)
    <2>1. PICK d \in docs \cup saving : /\ d.m = e.m /\ d.to = e.to /\ d.by = e.by
                                        /\ e \in saving' => d = e
                                        /\ e \notin saving' => d \notin saving'
      BY <1>2
    <2>2. PICK g \in docs \cup saving : /\ g.m = f.m /\ g.to = f.to /\ g.by = f.by
                                        /\ f \in saving' => g = f
                                        /\ f \notin saving' => g \notin saving'
      BY <1>2
    <2>3. d.by = g.by
      BY <1>4, <2>1, <2>2
    <2>4. d.m = g.m /\ (d.to = g.to => d = g)
      BY <2>3 DEF Plain!IInv, Plain!OneEach
    <2>5. e.to = f.to => d = g
      BY <2>1, <2>2, <2>4
    <2>6. e.to = f.to => e = f
      <3>1. CASE e \in saving' /\ f \in saving'
        BY <2>1, <2>2, <2>5, <3>1
      <3>2. CASE e \in docs' /\ f \in docs'
        BY <1>4, <3>2
      <3>3. CASE (e \in saving' /\ f \notin saving') \/ (e \notin saving' /\ f \in saving')
        BY <2>1, <2>2, <2>5, <3>3
      <3> QED BY <3>1, <3>2, <3>3
    <2> QED BY <2>1, <2>2, <2>4, <2>6
  <1>5. Plain!OneEach(docs \cup saving)'
    BY <1>4 DEF Plain!OneEach
  <1>6. ASSUME NEW d \in saving' PROVE d \notin docs'
    <2> SUFFICES ASSUME d \in docs' PROVE FALSE
      OBVIOUS
    <2>1. PICK g \in docs \cup saving : /\ g.m = d.m /\ g.to = d.to /\ g.by = d.by
                                        /\ g \in saving => g \notin saving'
      OBVIOUS
    <2>2. g = d
      BY <2>1 DEF Plain!IInv, Plain!OneEach
    <2> QED BY <2>1, <2>2
  <1>7. Plain!Pending'
    BY <1>6 DEF Plain!IInv, Plain!Pending
  <1> QED BY <1>1, <1>3, <1>5, <1>7 DEF Plain!IInv

\* Marking a document leaves all else in it, and one that is marked as it is.
LEMMA PlainMarks ==
    ASSUME NEW d \in Plain!Doc
    PROVE  LET e == [d EXCEPT !.read = TRUE] IN
           /\ e \in Plain!Doc /\ e.read = TRUE /\ (d.read = TRUE => e = d)
           /\ e.m = d.m /\ e.to = d.to /\ e.n = d.n /\ e.by = d.by
  BY DEF Plain!Doc

\* Every step of the box keeps the invariant.
LEMMA PlainNextIInv ==
    ASSUME Plain!MsgBoxAssumption, Plain!IInv, [Plain!Next]_Plain!vars
    PROVE  Plain!IInv'
  <1>1. /\ now \in 0..Days /\ asks \in 0..MaxAsk /\ docs \subseteq Plain!Doc
        /\ saving \subseteq Plain!Doc
    BY DEF Plain!IInv, Plain!TypeOK
  <1>2. /\ \A e, f \in docs \cup saving : e.by = f.by /\ e.to = f.to => e = f
        /\ saving \cap docs = {}
    BY DEF Plain!IInv, Plain!OneEach, Plain!Pending
  <1>3. ASSUME sent' = sent, draws' = draws, now' \in 0..Days, asks' \in 0..MaxAsk,
               saving' \subseteq saving, docs' \subseteq docs
        PROVE  Plain!IInv'
    BY <1>1, <1>2, <1>3, PlainKeeps
  <1>4. ASSUME NEW rs, Plain!Ask(rs) PROVE asks' \in 0..MaxAsk
    BY SMTT(30), <1>1, <1>4 DEF Plain!Ask, Plain!MsgBoxAssumption
  <1>5. CASE UNCHANGED Plain!vars
    BY <1>1, <1>3, <1>5 DEF Plain!vars
  <1>6. ASSUME NEW d \in saving, Plain!Insert(d) PROVE Plain!IInv'
    <2>1. docs' = docs \cup {d} /\ saving' = saving \ {d}
          /\ UNCHANGED <<now, sent, draws, asks, asked>>
      BY <1>6 DEF Plain!Insert
    <2>2. ASSUME NEW e \in docs' PROVE e \in docs \cup saving /\ (e \in saving => e \notin saving')
      BY <1>2, <2>1
    <2> QED BY <1>1, <1>2, <2>1, <2>2, PlainKeeps
  <1>7. CASE Plain!InsertFails
    BY <1>1, <1>3, <1>7 DEF Plain!InsertFails
  <1>8. ASSUME NEW m, Plain!DeleteMessage(m) PROVE Plain!IInv'
    BY <1>1, <1>3, <1>4, <1>8 DEF Plain!DeleteMessage
  <1>9. ASSUME NEW u, NEW ns, Plain!DeleteMessages(u, ns) PROVE Plain!IInv'
    BY <1>1, <1>3, <1>4, <1>9 DEF Plain!DeleteMessages
  <1>10. ASSUME NEW u, NEW ns, Plain!MsgRead(u, ns) PROVE Plain!IInv'
    <2> DEFINE ds == Plain!Selected(u, ns)
    <2>1. /\ docs' = (docs \ ds) \cup {[d EXCEPT !.read = TRUE] : d \in ds}
          /\ UNCHANGED <<now, sent, saving, draws>> /\ asks' \in 0..MaxAsk
      BY <1>4, <1>10 DEF Plain!MsgRead
    <2>2. ds \subseteq docs
      BY DEF Plain!Selected
    <2> HIDE DEF ds
    <2>3. ASSUME NEW e \in docs'
          PROVE  \E d \in docs : /\ d.m = e.m /\ d.to = e.to /\ d.by = e.by /\ e \in Plain!Doc
                                 /\ \/ e = d /\ d \notin ds
                                    \/ e = [d EXCEPT !.read = TRUE] /\ d \in ds
      <3>1. CASE e \in docs \ ds
        BY <1>1, <3>1
      <3>2. CASE e \in {[d EXCEPT !.read = TRUE] : d \in ds}
        <4>1. PICK d \in ds : e = [d EXCEPT !.read = TRUE]
          BY <3>2
        <4>2. d \in Plain!Doc /\ d \in docs
          BY <1>1, <2>2
        <4> QED BY <4>1, <4>2, PlainMarks
      <3> QED BY <2>1, <3>1, <3>2
    <2>4. ASSUME NEW e \in docs', NEW f \in docs', e.by = f.by, e.to = f.to PROVE e = f
      <3>1. PICK d \in docs : /\ d.to = e.to /\ d.by = e.by
                              /\ \/ e = d /\ d \notin ds
                                 \/ e = [d EXCEPT !.read = TRUE] /\ d \in ds
        BY <2>3
      <3>2. PICK g \in docs : /\ g.to = f.to /\ g.by = f.by
                              /\ \/ f = g /\ g \notin ds
                                 \/ f = [g EXCEPT !.read = TRUE] /\ g \in ds
        BY <2>3
      <3>3. d = g
        BY <1>2, <2>4, <3>1, <3>2
      <3> QED BY <3>1, <3>2, <3>3
    <2>5. docs' \subseteq Plain!Doc
      BY <2>3
    <2>6. ASSUME NEW e \in docs'
          PROVE  \E d \in docs \cup saving : /\ d.m = e.m /\ d.to = e.to /\ d.by = e.by
                                             /\ d \in saving => d \notin saving'
      BY <1>2, <2>3
    <2> QED BY <1>1, <2>1, <2>4, <2>5, <2>6, PlainKeeps
  <1>11. CASE Plain!CleanReceiveBox
    BY <1>1, <1>3, <1>11 DEF Plain!CleanReceiveBox
  <1>12. CASE Plain!DayPasses
    <2>1. now' \in 0..Days
      BY SMTT(30), <1>1, <1>12 DEF Plain!DayPasses, Plain!MsgBoxAssumption
    <2> QED BY <1>1, <1>3, <1>12, <2>1 DEF Plain!DayPasses
  <1>13. CASE Plain!Next
    BY <1>5, <1>6, <1>7, <1>8, <1>9, <1>10, <1>11, <1>12, <1>13, PlainSavesStep
       DEF Plain!Next, Plain!Idle
  <1> QED BY <1>5, <1>13

\* The collection is empty to start with.
LEMMA PlainInitIInv == ASSUME Plain!MsgBoxAssumption, Plain!Init PROVE Plain!IInv
  <1>1. /\ now \in 0..Days /\ sent \in Seq(Plain!Msg) /\ Len(sent) <= Saves /\ Len(sent) <= draws
        /\ draws \in 0..Saves /\ asks \in 0..MaxAsk /\ 1..Len(sent) = {}
    BY SMTT(30) DEF Plain!Init, Plain!MsgBoxAssumption
  <1> QED BY <1>1 DEF Plain!Init, Plain!IInv, Plain!TypeOK, Plain!OneEach, Plain!Pending

\* A step that takes documents, or none, takes from the box what is released.
LEMMA PlainTakes ==
    ASSUME Plain!IInv, docs' \subseteq docs, asked \subseteq asked',
           \A m \in 1..Len(sent) : sent'[m] = sent[m],
           \A d \in docs \ docs' : \E r \in asked' : Plain!Box!Releases(r, Plain!Copy(d))
    PROVE  Plain!Box!Next
  <1>1. \A d \in docs : d.m \in 1..Len(sent)
    BY DEF Plain!IInv, Plain!Addressed
  <1>2. \A d \in docs : Plain!Copy(d)' = Plain!Copy(d)
    BY <1>1 DEF Plain!Copy, Plain!SendTime
  <1>3. PlainContents' \subseteq PlainContents
    BY <1>2 DEF PlainContents
  <1>4. \A c \in PlainContents \ PlainContents' : \E r \in asked' : Plain!Box!Releases(r, c)
    BY <1>2 DEF PlainContents
  <1> QED BY <1>3, <1>4 DEF Plain!Box!Next, Plain!Box!Take, PlainContents

\* What a copy says of its document.
LEMMA PlainCopies ==
    ASSUME NEW d
    PROVE  LET c == Plain!Copy(d) IN
           /\ c.m = d.m /\ c.to = d.to /\ c.n = d.n /\ c.read = d.read
           /\ c.at = Plain!SendTime(d.m) /\ c.spared = sent[d.m].spared
  BY DEF Plain!Copy

\* Marking a document marks its copy.
LEMMA PlainMarkedCopy ==
    ASSUME NEW d \in Plain!Doc
    PROVE  LET e == [d EXCEPT !.read = TRUE] IN
           /\ Plain!Copy(e) = [Plain!Copy(d) EXCEPT !.read = TRUE]
           /\ d.read = FALSE => Plain!Copy(d) = [Plain!Copy(e) EXCEPT !.read = FALSE]
  <1> DEFINE mark == [d EXCEPT !.read = TRUE]
             rec(r) == [m |-> d.m, to |-> d.to, n |-> d.n, by |-> d.by,
                        at |-> Plain!SendTime(d.m), spared |-> sent[d.m].spared, read |-> r]
  <1>1. mark.read = TRUE /\ mark.m = d.m /\ mark.to = d.to /\ mark.n = d.n /\ mark.by = d.by
    BY PlainMarks
  <1> HIDE DEF mark
  <1>2. Plain!Copy(mark) = rec(TRUE) /\ Plain!Copy(d) = rec(d.read)
    BY <1>1 DEF Plain!Copy
  <1>3. ASSUME NEW r, NEW q PROVE [rec(r) EXCEPT !.read = q] = rec(q)
    BY SMTT(30)
  <1> HIDE DEF rec
  <1>4. Plain!Copy(mark) = [Plain!Copy(d) EXCEPT !.read = TRUE]
    <2>1. [Plain!Copy(d) EXCEPT !.read = TRUE] = [rec(d.read) EXCEPT !.read = TRUE]
      BY <1>2
    <2>2. [rec(d.read) EXCEPT !.read = TRUE] = rec(TRUE)
      BY <1>3
    <2> QED BY <1>2, <2>1, <2>2
  <1>5. d.read = FALSE => Plain!Copy(d) = [Plain!Copy(mark) EXCEPT !.read = FALSE]
    <2>1. [Plain!Copy(mark) EXCEPT !.read = FALSE] = [rec(TRUE) EXCEPT !.read = FALSE]
      BY <1>2
    <2>2. [rec(TRUE) EXCEPT !.read = FALSE] = rec(FALSE)
      BY <1>3
    <2> QED BY <1>2, <2>1, <2>2
  <1> QED BY <1>4, <1>5 DEF mark

\* What msg_read marks in the box its receiver said to have read.
LEMMA PlainReadMarks ==
    ASSUME Plain!IInv, NEW u, NEW ns, Plain!MsgRead(u, ns) PROVE Plain!Box!Next
  <1> DEFINE ds == Plain!Selected(u, ns)
             mark(d) == [d EXCEPT !.read = TRUE]
  <1>1. /\ sent' = sent /\ asked' = asked \cup Plain!Requests("read", u, ns)
        /\ docs' = (docs \ ds) \cup {mark(d) : d \in ds}
    BY DEF Plain!MsgRead, Plain!Ask
  <1>2. \A d \in ds : d \in docs /\ d.to = u /\ d.n \in ns
    BY DEF Plain!Selected
  <1>3. \A d \in docs : d \in Plain!Doc /\ d.read \in BOOLEAN
    BY DEF Plain!IInv, Plain!TypeOK, Plain!Doc
  <1>4. ASSUME NEW d \in docs
        PROVE  /\ Plain!Copy(mark(d)) = [Plain!Copy(d) EXCEPT !.read = TRUE]
               /\ d.read = FALSE => Plain!Copy(d) = [Plain!Copy(mark(d)) EXCEPT !.read = FALSE]
               /\ d.read = TRUE => mark(d) = d
               /\ Plain!Copy(mark(d)).read
    <2>1. d \in Plain!Doc
      BY <1>3
    <2>2. mark(d).read = TRUE /\ (d.read = TRUE => mark(d) = d)
      BY <2>1, PlainMarks
    <2>3. /\ Plain!Copy(mark(d)) = [Plain!Copy(d) EXCEPT !.read = TRUE]
          /\ d.read = FALSE => Plain!Copy(d) = [Plain!Copy(mark(d)) EXCEPT !.read = FALSE]
      BY <2>1, PlainMarkedCopy
    <2> HIDE DEF mark
    <2>4. Plain!Copy(mark(d)).read = mark(d).read
      BY PlainCopies
    <2> QED BY <2>2, <2>3, <2>4
  <1> HIDE DEF mark, ds
  <1>5. \A d : Plain!Copy(d)' = Plain!Copy(d)
    BY <1>1 DEF Plain!Copy, Plain!SendTime
  <1>6. ASSUME NEW c \in PlainContents, c \notin PlainContents'
        PROVE  /\ [c EXCEPT !.read = TRUE] \in PlainContents'
               /\ \E r \in asked' : r.kind = "read" /\ r.to = c.to /\ r.n = c.n
    <2>1. PICK d \in docs : c = Plain!Copy(d)
      BY DEF PlainContents
    <2>2. d \in ds /\ mark(d) \in docs'
      BY <1>1, <1>5, <1>6, <2>1 DEF PlainContents
    <2>3. [c EXCEPT !.read = TRUE] = Plain!Copy(mark(d))
      BY <1>4, <2>1
    <2>4. Plain!Copy(mark(d)) \in PlainContents'
      BY <1>5, <2>2 DEF PlainContents
    <2>5. [kind |-> "read", to |-> u, n |-> d.n] \in asked'
      BY <1>1, <1>2, <2>2 DEF Plain!Requests
    <2>6. c.to = u /\ c.n = d.n
      BY <1>2, <2>1, <2>2, PlainCopies
    <2> QED BY <2>3, <2>4, <2>5, <2>6
  <1>7. ASSUME NEW c \in PlainContents', c \notin PlainContents
        PROVE  c.read /\ [c EXCEPT !.read = FALSE] \in PlainContents
    <2>1. PICK e \in docs' : c = Plain!Copy(e)
      BY <1>5 DEF PlainContents
    <2>2. e \notin docs
      BY <1>7, <2>1 DEF PlainContents
    <2>3. PICK d \in ds : e = mark(d)
      BY <1>1, <2>2
    <2>4. d \in docs /\ d.read = FALSE
      <3>1. d \in docs /\ (d.read = TRUE => mark(d) = d)
        BY <1>2, <1>4
      <3> QED BY <1>3, <2>2, <2>3, <3>1
    <2>5. c = Plain!Copy(mark(d)) /\ Plain!Copy(d) \in PlainContents
      BY <2>1, <2>3, <2>4 DEF PlainContents
    <2>6. Plain!Copy(d) = [c EXCEPT !.read = FALSE] /\ c.read
      BY <1>4, <2>4, <2>5
    <2> QED BY <2>5, <2>6
  <1> QED BY <1>1, <1>6, <1>7 DEF Plain!Box!Next, Plain!Box!Mark, PlainContents

\* Every step of the box of one collection is one of Inbox, or none.
LEMMA PlainNextIsInbox ==
    ASSUME Plain!MsgBoxAssumption, Plain!IInv, [Plain!Next]_Plain!vars
    PROVE  [Plain!Box!Next]_<<PlainContents, asked>>
  <1> SUFFICES Plain!Box!Next
    OBVIOUS
  <1>1. ASSUME docs' = docs, asked' = asked, \A m \in 1..Len(sent) : sent'[m] = sent[m]
        PROVE  Plain!Box!Next
    BY <1>1, PlainTakes
  <1>2. ASSUME NEW msg \in Plain!Msg, Plain!SaveNew(msg) PROVE Plain!Box!Next
    <2>1. docs' = docs /\ asked' = asked /\ sent' = Append(sent, msg) /\ sent \in Seq(Plain!Msg)
      BY <1>2 DEF Plain!SaveNew, Plain!Save, Plain!IInv, Plain!TypeOK
    <2>2. \A m \in 1..Len(sent) : sent'[m] = sent[m]
      BY SMTT(30), <2>1
    <2> QED BY <1>1, <2>1, <2>2
  <1>3. CASE UNCHANGED Plain!vars \/ Plain!SaveAgain \/ Plain!InsertFails \/ Plain!DayPasses
    BY <1>1, <1>3 DEF Plain!vars, Plain!SaveAgain, Plain!Save, Plain!InsertFails, Plain!DayPasses
  <1>4. ASSUME NEW d \in saving, Plain!Insert(d) PROVE Plain!Box!Next
    <2>1. sent' = sent /\ asked' = asked /\ docs' = docs \cup {d}
      BY <1>4 DEF Plain!Insert
    <2>2. ~d.read
      BY DEF Plain!IInv, Plain!Pending
    <2>3. \A e : Plain!Copy(e)' = Plain!Copy(e)
      BY <2>1 DEF Plain!Copy, Plain!SendTime
    <2>4. Plain!Copy(d).read = d.read
      BY PlainCopies
    <2>5. PlainContents \subseteq PlainContents'
      BY <2>1, <2>3 DEF PlainContents
    <2>6. ASSUME NEW c \in PlainContents', c \notin PlainContents PROVE ~c.read
      <3>1. PICK e \in docs' : c = Plain!Copy(e)
        BY <2>3 DEF PlainContents
      <3>2. e = d
        BY <2>1, <2>6, <3>1 DEF PlainContents
      <3> QED BY <2>2, <2>4, <3>1, <3>2
    <2> QED BY <2>1, <2>5, <2>6 DEF Plain!Box!Next, Plain!Box!Put, PlainContents
  <1>5. ASSUME NEW m, Plain!DeleteMessage(m) PROVE Plain!Box!Next
    <2>1. /\ sent' = sent /\ asked' = asked \cup {[kind |-> "id", m |-> m]}
          /\ docs' \subseteq docs /\ \A d \in docs \ docs' : d.m = m
      BY <1>5 DEF Plain!DeleteMessage, Plain!Ask
    <2>2. ASSUME NEW d \in docs \ docs'
          PROVE  \E r \in asked' : Plain!Box!Releases(r, Plain!Copy(d))
      <3>1. Plain!Copy(d).m = m /\ [kind |-> "id", m |-> m] \in asked'
        BY <2>1, PlainCopies
      <3> QED BY <3>1 DEF Plain!Box!Releases
    <2> QED BY <2>1, <2>2, PlainTakes
  <1>6. ASSUME NEW u, NEW ns, Plain!DeleteMessages(u, ns) PROVE Plain!Box!Next
    <2>1. /\ sent' = sent /\ asked' = asked \cup Plain!Requests("number", u, ns)
          /\ docs' \subseteq docs /\ \A d \in docs \ docs' : d.to = u /\ d.n \in ns
      BY <1>6 DEF Plain!DeleteMessages, Plain!Ask, Plain!Selected
    <2>2. ASSUME NEW d \in docs \ docs'
          PROVE  \E r \in asked' : Plain!Box!Releases(r, Plain!Copy(d))
      <3>1. [kind |-> "number", to |-> u, n |-> d.n] \in asked'
        BY <2>1 DEF Plain!Requests
      <3> QED BY <2>1, <3>1, PlainCopies DEF Plain!Box!Releases
    <2> QED BY <2>1, <2>2, PlainTakes
  <1>7. CASE Plain!CleanReceiveBox
    <2>1. /\ sent' = sent /\ asked' = asked \cup {[kind |-> "before", at |-> now - Period]}
          /\ docs' \subseteq docs /\ \A d \in docs \ docs' : Plain!Expired(d)
      BY <1>7 DEF Plain!CleanReceiveBox
    <2>2. ASSUME NEW d \in docs \ docs'
          PROVE  \E r \in asked' : Plain!Box!Releases(r, Plain!Copy(d))
      <3>1. Plain!Copy(d).at < now - Period /\ ~Plain!Copy(d).spared
        BY <2>1, PlainCopies DEF Plain!Expired
      <3>2. [kind |-> "before", at |-> now - Period] \in asked'
        BY <2>1
      <3> QED BY SMTT(30), <3>1, <3>2 DEF Plain!Box!Releases
    <2> QED BY <2>1, <2>2, PlainTakes
  <1>8. CASE Plain!Next
    BY <1>2, <1>3, <1>4, <1>5, <1>6, <1>7, <1>8, PlainReadMarks DEF Plain!Next, Plain!Idle
  <1> QED BY <1>3, <1>8

\* What a user pulls, with the invariant behind it.
LEMMA PlainPulls == ASSUME Plain!MsgBoxAssumption, Plain!IInv PROVE Plain!PullsOwnCopies
  <1> SUFFICES ASSUME NEW u \in Users, NEW d \in Plain!GetMsgs(u, 0, 0)
               PROVE  /\ sent[d.m].to = Group =>
                            d.to = u \/ (d.to = Group /\ sent[d.m].from = u)
                      /\ \A e \in Plain!GetMsgs(u, 0, 0) : e.by = d.by => e = d
    BY DEF Plain!PullsOwnCopies
  <1>1. ~(0 > 0)
    BY SMTT(30)
  <1>2. ASSUME NEW e \in Plain!GetMsgs(u, 0, 0)
        PROVE  /\ e \in docs /\ e.to # sent[e.m].from
               /\ sent[e.m].to # Group => e.to = sent[e.m].to
               /\ sent[e.m].to = Group => e.to = u \/ (e.to = Group /\ sent[e.m].from = u)
    <2>1. e \in docs /\ (e.to = u \/ (sent[e.m].from = u /\ Plain!SendSeq(e) > 0))
      BY DEF Plain!GetMsgs
    <2>2. Plain!Addressed(e)
      BY <2>1 DEF Plain!IInv
    <2> QED BY <1>1, <2>1, <2>2 DEF Plain!Addressed, Plain!SendSeq
  <1>3. ASSUME NEW e \in Plain!GetMsgs(u, 0, 0), e.by = d.by PROVE e = d
    <2>1. e.m = d.m /\ (e.to = d.to => e = d)
      BY <1>2, <1>3 DEF Plain!IInv, Plain!OneEach
    <2>2. e.to = d.to
      BY <1>2, <2>1
    <2> QED BY <2>1, <2>2
  <1> QED BY <1>2, <1>3

\* The box of one collection gives a user their own copies: of a message to a
\* group, the sender pulls the sender's copy and a member the member's, and of
\* each save one (save_group_msg, get_msgs of mongodb/message.rs).
THEOREM PlainPullsOwn ==
    ASSUME Plain!MsgBoxAssumption PROVE Plain!Spec => []Plain!PullsOwnCopies
  <1>1. Plain!Init => Plain!IInv
    BY PlainInitIInv
  <1>2. Plain!IInv /\ [Plain!Next]_Plain!vars => Plain!IInv'
    BY PlainNextIInv
  <1>3. Plain!IInv => Plain!PullsOwnCopies
    BY PlainPulls
  <1> QED BY <1>1, <1>2, <1>3, PTL DEF Plain!Spec

\* And it is an Inbox: no copy goes or is marked that nobody asked for, through
\* partial inserts, repeated saves and cleanings.
THEOREM PlainIsInbox == ASSUME Plain!MsgBoxAssumption PROVE Plain!Spec => Plain!IsInbox
  <1>1. Plain!Init => Plain!IInv /\ Plain!Box!Init
    BY PlainInitIInv DEF Plain!Init, Plain!Box!Init
  <1>2. Plain!IInv /\ [Plain!Next]_Plain!vars => Plain!IInv'
    BY PlainNextIInv
  <1>3. Plain!IInv /\ [Plain!Next]_Plain!vars
            => [Plain!Box!Next]_<<{Plain!Copy(d) : d \in docs}, asked>>
    BY PlainNextIsInbox DEF PlainContents
  <1> QED BY <1>1, <1>2, <1>3, PTL DEF Plain!Spec, Plain!IsInbox, Plain!Box!Spec
=============================================================================
