--------------------------- MODULE DeliveryProofs ---------------------------
(***************************************************************************)
(* Proofs about Delivery, for any users, members, kinds of messages, any   *)
(* length of the topic and number of crashes: what commits, numbers and    *)
(* copies in the inbox have to do with the order of the topic, how many    *)
(* copies acknowledgements take, and that no message is passed over.       *)
(***************************************************************************)
EXTENDS Delivery, FiniteSetTheorems, TLAPS

\* Zenon is tried unless a leaf names Z3, which takes the arithmetic.
USE Zenon

\* The inbox and its topic grow, and no error is forgotten.
Grows ==
    /\ Len(log) <= Len(log') /\ \A i \in 1..Len(log) : log'[i] = log[i]
    /\ stored \subseteq stored'
    /\ failed \subseteq failed' /\ errs \subseteq errs'

\* Whoever a number is drawn for is a user.
LEMMA ReceiversAreUsers == \A m \in Message : Receivers(m) \subseteq Users
  BY DeliveryAssumption DEF Receivers, GroupMembers, Message

\* What was settled stays settled.
LEMMA SettledStays ==
    ASSUME Grows, NEW i \in 1..Len(log), Len(log) \in Nat, Settled(i)
    PROVE  Settled(i)'
  BY DEF Grows, Settled, HasCopies

\* A step that gives no new numbers leaves the numbers in order.
LEMMA NoNewNumbers ==
    ASSUME IInv, TypeOK', Grows, UNCHANGED seq,
           \A c \in Labels' : c.n > 0 => c \in Labels
    PROVE  Numbered' /\ Ordered'
  <1>1. Len(log) \in Nat /\ Len(log') \in Nat
    BY SMTT(30) DEF IInv, TypeOK
  <1>2. Numbered'
    BY SMTT(30), <1>1 DEF IInv, Numbered, Grows
  <1>3. Ordered'
    <2> SUFFICES ASSUME failed' \cup errs' = {}, NEW d \in Labels', d.n > 0,
                        NEW i \in 1..(d.at - 1),
                        Storable(i)', d.to \in Receivers(log'[i])
                 PROVE  \E e \in stored' : e.to = d.to /\ e.at = i /\ e.n < d.n
      BY DEF Ordered
    <2>1. d \in Labels /\ failed \cup errs = {}
      BY DEF Grows
    <2>2. d.at \in 1..Len(log)
      BY <2>1 DEF IInv, Numbered
    <2>3. i \in 1..Len(log) /\ log'[i] = log[i]
      BY SMTT(30), <1>1, <2>2 DEF Grows
    <2>4. \E e \in stored : e.to = d.to /\ e.at = i /\ e.n < d.n
      BY <2>1, <2>3 DEF IInv, Ordered, Storable
    <2> QED BY <2>4 DEF Grows
  <1> QED BY <1>2, <1>3

\* Everything is empty to start with.
LEMMA InitIInv == Init => IInv
  <1> SUFFICES ASSUME Init PROVE IInv
    OBVIOUS
  <1>0. pushing \in BOOLEAN
    BY DEF Init
  <1>1. TypeOK /\ Len(log) <= MaxLog
    BY SMTT(30), <1>0, DeliveryAssumption DEF Init, TypeOK, Numbers, NoNumbers
  <1>2. Handled /\ OnlyStorable
    BY SMTT(30) DEF Init, Handled, OnlyStorable
  <1>3. \A c \in Labels : c.n = 0
    BY SMTT(30) DEF Init, Labels, NoNumbers
  <1>4. Numbered /\ Ordered
    BY SMTT(30), <1>3 DEF Numbered, Ordered
  <1> QED BY <1>1, <1>2, <1>4 DEF IInv

\* send_msg appends to the topic.
LEMMA SendStep == ASSUME IInv, NEW m \in Message, SendMsg(m) PROVE IInv'
  <1> USE DEF SendMsg, run, mongo
  <1>1. TypeOK' /\ Len(log') <= MaxLog
    BY SMTT(30), DeliveryAssumption DEF IInv, TypeOK
  <1>2. Grows
    BY SMTT(30) DEF Grows, IInv, TypeOK
  <1>3. pos \in 0..Len(log) /\ Len(log) \in Nat
    BY SMTT(30) DEF IInv, TypeOK
  <1>4. Handled'
    <2>1. \A i \in 1..pos : Settled(i) => Settled(i)'
      BY SMTT(30), <1>2, <1>3, SettledStays
    <2> QED BY SMTT(30), <2>1, <1>3 DEF IInv, Handled, TypeOK
  <1>5. OnlyStorable'
    <2>1. \A i \in 1..Len(log) : Storable(i) => Storable(i)'
      BY <1>2 DEF Grows, Storable
    <2>2. h # "idle" => pos \in 1..Len(log)
      BY SMTT(30), <1>3 DEF IInv, Handled, TypeOK
    <2>3. (h \in {"numbered", "tasks"} => log[pos].kind # "read")'
      BY <2>2, <1>2 DEF IInv, OnlyStorable, Grows
    <2>4. stores' = stores /\ stored' = stored
      OBVIOUS
    <2>5. 1..Len(log) \subseteq 1..Len(log') /\ \A i \in 1..Len(log) : log'[i] = log[i]
      BY SMTT(30), <1>2, <1>3 DEF Grows
    <2> QED BY <2>1, <2>3, <2>4, <2>5 DEF IInv, OnlyStorable
  <1>6. Numbered' /\ Ordered'
    <2>1. Labels' = Labels
      BY SMTT(30) DEF Labels
    <2> QED BY <1>1, <1>2, <2>1, NoNewNumbers
  <1> QED BY <1>1, <1>4, <1>5, <1>6 DEF IInv

\* A message is taken.
LEMMA RecvStep == ASSUME IInv, Recv PROVE IInv'
  <1> USE DEF Recv, More, kafka, mongo
  <1>1. TypeOK' /\ Len(log') <= MaxLog
    BY SMTT(30) DEF IInv, TypeOK, Numbers, NoNumbers
  <1>2. Grows
    BY SMTT(30) DEF Grows, IInv, TypeOK
  <1>3. Handled'
    <2>1. \A i \in 1..pos : Settled(i) => Settled(i)'
      BY DEF Settled, HasCopies
    <2> QED BY SMTT(30), <2>1 DEF IInv, Handled, TypeOK
  <1>4. OnlyStorable'
    BY DEF IInv, OnlyStorable, Storable
  <1>5. Numbered' /\ Ordered'
    <2>1. \A c \in Labels' : c.n > 0 => c \in Labels
      BY SMTT(30) DEF Labels, NoNumbers
    <2> QED BY <1>1, <1>2, <2>1, NoNewNumbers
  <1> QED BY <1>1, <1>3, <1>4, <1>5 DEF IInv

\* The offset is sent for commit once the message is settled.
LEMMA SucceedStep ==
    ASSUME IInv, Succeed, Settled(pos), h # "idle", ~pushing PROVE IInv'
  <1> USE DEF Succeed, SendsCommit, kafka, mongo
  <1>1. TypeOK' /\ Len(log') <= MaxLog
    BY DEF IInv, TypeOK
  <1>2. Grows
    BY SMTT(30) DEF Grows, IInv, TypeOK
  <1>3. Handled'
    <2>1. \A i \in 1..pos : Settled(i) => Settled(i)'
      BY DEF Settled, HasCopies
    <2> QED BY SMTT(30), <2>1 DEF IInv, Handled, TypeOK
  <1>4. OnlyStorable'
    BY DEF IInv, OnlyStorable, Storable
  <1>5. Numbered' /\ Ordered'
    <2>1. Labels' = Labels
      BY SMTT(30) DEF Labels
    <2> QED BY <1>1, <1>2, <2>1, NoNewNumbers
  <1> QED BY <1>1, <1>3, <1>4, <1>5 DEF IInv

\* An error settles the message, and the offset stays where it is.
LEMMA ReturnStep == ASSUME IInv, Return, h # "idle" PROVE IInv'
  <1> USE DEF Return, kafka, mongo
  <1>0. pos \in 1..Len(log) /\ Len(log) \in Nat
    BY SMTT(30) DEF IInv, TypeOK, Handled
  <1>1. TypeOK' /\ Len(log') <= MaxLog
    <2>1. pushing' \in BOOLEAN
      OBVIOUS
    <2> QED BY SMTT(30), <1>0, <2>1, DeliveryAssumption DEF IInv, TypeOK
  <1>2. Grows
    BY SMTT(30), <1>0 DEF Grows, IInv, TypeOK
  <1>3. Handled'
    <2>1. \A i \in 1..pos : Settled(i) => Settled(i)'
      BY SMTT(30), <1>0, <1>2, SettledStays
    <2>2. Settled(pos)'
      BY DEF Settled
    <2> QED BY SMTT(30), <1>0, <2>1, <2>2 DEF IInv, Handled, TypeOK
  <1>4. OnlyStorable'
    BY DEF IInv, OnlyStorable, Storable
  <1>5. Numbered' /\ Ordered'
    <2>1. Labels' = Labels
      BY SMTT(30) DEF Labels
    <2> QED BY <1>1, <1>2, <2>1, NoNewNumbers
  <1> QED BY <1>1, <1>3, <1>4, <1>5 DEF IInv

\* The offset of a message being handled is one of the topic.
LEMMA Handling == IInv /\ h # "idle" => pos \in 1..Len(log) /\ log[pos] \in Message
  BY SMTT(30) DEF IInv, TypeOK, Handled

\* increase_message_seq and handle_group_seq: the new numbers are larger than
\* all others of their users, and what comes before the message is settled.
LEMMA IncreaseStep == ASSUME IInv, IncreaseSeq PROVE IInv'
  <1> USE DEF IncreaseSeq, kafka, mongo
  <1> DEFINE m == log[pos]
  <1>0. pos \in 1..Len(log) /\ Len(log) \in Nat /\ m \in Message
    BY SMTT(30), Handling DEF IInv, TypeOK
  <1>1. \A u \in Users : /\ seq[u] \in Nat /\ seq'[u] \in Nat /\ seq[u] <= seq'[u]
                         /\ nums'[u] \in Nat
                         /\ nums'[u] > 0 => /\ u \in Receivers(m)
                                            /\ nums'[u] = seq[u] + 1
                                            /\ seq'[u] = seq[u] + 1
    BY SMTT(30) DEF IInv, TypeOK, Numbers, Increased, Drawn
  <1>2. TypeOK' /\ Len(log') <= MaxLog
    <2>1. seq' \in Numbers /\ nums' \in Numbers
      BY <1>1 DEF Increased, Drawn, Numbers
    <2> QED BY <2>1 DEF IInv, TypeOK
  <1>3. Handled'
    BY SMTT(30) DEF IInv, Handled, TypeOK, Settled, HasCopies
  <1>4. OnlyStorable'
    BY DEF IInv, OnlyStorable, Storable
  <1>5. \A c \in Labels' :
           \/ c \in Labels
           \/ \E u \in Users : c = [at |-> pos, to |-> u, n |-> nums'[u]]
    BY SMTT(30) DEF Labels
  <1>6. \A c \in Labels : c.n > 0 => c.n <= seq[c.to] /\ c.to \in Users
    BY DEF IInv, Numbered
  <1>7. \A c \in Labels : c.n \in Nat
    BY SMTT(30) DEF Labels, IInv, TypeOK, Copy, Numbers
  <1>8. Numbered'
    <2>1. ASSUME NEW c \in Labels', c.n > 0
          PROVE  /\ c.to \in Users /\ c.n <= seq'[c.to]
                 /\ c.at \in 1..Len(log) /\ c.to \in Receivers(log[c.at])
      <3>1. CASE c \in Labels
        BY SMTT(30), <1>1, <1>7, <2>1, <3>1 DEF IInv, Numbered
      <3>2. ASSUME NEW u \in Users, c = [at |-> pos, to |-> u, n |-> nums'[u]]
            PROVE  /\ c.to \in Users /\ c.n <= seq'[c.to]
                   /\ c.at \in 1..Len(log) /\ c.to \in Receivers(log[c.at])
        BY SMTT(30), <1>0, <1>1, <2>1, <3>2
      <3> QED BY <1>5, <3>1, <3>2
    <2>2. ASSUME NEW c \in Labels', NEW d \in Labels',
                 c.to = d.to, c.n = d.n, c.n > 0
          PROVE  c.at = d.at
      <3>1. CASE c \in Labels /\ d \in Labels
        BY <2>2, <3>1 DEF IInv, Numbered
      <3>2. ASSUME NEW a \in Labels, NEW u \in Users, a.n > 0, a.to = u
            PROVE  ~(nums'[u] > 0 /\ a.n = nums'[u])
        BY SMTT(30), <1>1, <1>6, <1>7, <3>2
      <3> QED BY SMTT(30), <1>5, <2>2, <3>1, <3>2
    <2> QED BY <2>1, <2>2 DEF Numbered
  <1>9. Ordered'
    <2> SUFFICES ASSUME failed \cup errs = {}, NEW d \in Labels', d.n > 0,
                        NEW i \in 1..(d.at - 1), Storable(i), d.to \in Receivers(log[i])
                 PROVE  \E e \in stored : e.to = d.to /\ e.at = i /\ e.n < d.n
      BY DEF Ordered, Storable
    <2>1. CASE d \in Labels
      BY <2>1 DEF IInv, Ordered
    <2>2. ASSUME NEW u \in Users, d = [at |-> pos, to |-> u, n |-> nums'[u]]
          PROVE  \E e \in stored : e.to = d.to /\ e.at = i /\ e.n < d.n
      <3>1. i \in 1..pos /\ i < pos
        BY SMTT(30), <1>0, <2>2
      <3>2. HasCopies(i)
        BY <3>1 DEF IInv, Handled, Settled
      <3>3. PICK e \in stored : e.at = i /\ e.to = u
        BY <2>2, <3>2 DEF HasCopies, Storable
      <3>4. e \in Labels
        BY SMTT(30) DEF Labels
      <3>5. e.n < nums'[u]
        BY SMTT(30), <1>1, <1>6, <1>7, <2>2, <3>3, <3>4
      <3> QED BY <2>2, <3>3, <3>5
    <2> QED BY <1>5, <2>1, <2>2
  <1> QED BY <1>2, <1>3, <1>4, <1>8, <1>9 DEF IInv

\* The tasks get the numbers handle_msg has drawn.
LEMMA SpawnStep == ASSUME IInv, SpawnTasks PROVE IInv'
  <1> USE DEF SpawnTasks, kafka, mongo
  <1>0. pos \in 1..Len(log) /\ Len(log) \in Nat /\ log[pos] \in Message
    BY SMTT(30), Handling DEF IInv, TypeOK
  <1>1. TypeOK' /\ Len(log') <= MaxLog
    <2>1. pushing' \in BOOLEAN
      OBVIOUS
    <2>2. [at |-> pos, nums |-> nums] \in [at : 1..MaxLog, nums : Numbers]
      BY SMTT(30), <1>0, DeliveryAssumption DEF IInv, TypeOK
    <2>3. stores' \subseteq [at : 1..MaxLog, nums : Numbers]
      BY <2>2 DEF IInv, TypeOK
    <2> QED BY <2>1, <2>3 DEF IInv, TypeOK
  <1>2. Grows
    BY SMTT(30), <1>0 DEF Grows
  <1>3. Handled'
    <2>1. Settled(pos) \/ \E s \in stores' : s.at = pos
      <3>1. CASE SendToDb(log[pos].kind)
        <4>1. [at |-> pos, nums |-> nums] \in stores'
          BY <3>1
        <4> QED BY <4>1
      <3>2. CASE ~SendToDb(log[pos].kind)
        BY <3>2 DEF Settled, HasCopies
      <3> QED BY <3>1, <3>2
    <2> QED BY SMTT(30), <2>1 DEF IInv, Handled, TypeOK, Settled, HasCopies
  <1>4. OnlyStorable'
    <2>1. \A s \in stores' : s \in stores \/ (s.at = pos /\ SendToDb(log[pos].kind))
      BY SMTT(30)
    <2> QED BY <1>0, <2>1 DEF IInv, OnlyStorable, Storable
  <1>5. Numbered' /\ Ordered'
    <2>1. \A c \in Labels' : c \in Labels
      BY SMTT(30) DEF Labels
    <2> QED BY <1>1, <1>2, <2>1, NoNewNumbers
  <1> QED BY <1>1, <1>3, <1>4, <1>5 DEF IInv

\* A push hands out the numbers handle_msg has drawn.
LEMMA PushStep == ASSUME IInv, Push PROVE IInv'
  <1> USE DEF Push, kafka, mongo
  <1>0. pos \in 1..Len(log) /\ Len(log) \in Nat /\ log[pos] \in Message /\ h = "tasks"
    BY SMTT(30), Handling DEF IInv, TypeOK, Handled
  <1>1. \A c \in pushed' : c \in pushed \/ \E u \in Users : c = [at |-> pos, to |-> u, n |-> nums[u]]
    BY <1>0, ReceiversAreUsers
  <1>2. TypeOK' /\ Len(log') <= MaxLog
    <2>1. pushing' \in BOOLEAN
      OBVIOUS
    <2>2. \A u \in Users : [at |-> pos, to |-> u, n |-> nums[u]] \in Copy
      BY SMTT(30), <1>0, DeliveryAssumption DEF IInv, TypeOK, Numbers, Copy
    <2>3. pushed' \subseteq Copy
      BY <1>1, <2>2 DEF IInv, TypeOK
    <2> QED BY <2>1, <2>3 DEF IInv, TypeOK
  <1>3. Grows
    BY SMTT(30), <1>0 DEF Grows
  <1>4. Handled'
    BY SMTT(30) DEF IInv, Handled, Settled, HasCopies
  <1>5. OnlyStorable'
    BY DEF IInv, OnlyStorable, Storable
  <1>6. Numbered' /\ Ordered'
    <2>1. \A c \in Labels' : c \in Labels
      BY SMTT(30), <1>1 DEF Labels
    <2> QED BY <1>2, <1>3, <2>1, NoNewNumbers
  <1> QED BY <1>2, <1>4, <1>5, <1>6 DEF IInv

\* The copies of a database task carry the numbers it was given, or none.
LEMMA CopiesLabelled ==
    ASSUME IInv, NEW s \in stores
    PROVE  /\ s.at \in 1..Len(log) /\ log[s.at] \in Message
           /\ MemberCopies(s) \subseteq Labels \cap Copy
           /\ SenderCopy(s) \in Copy /\ SenderCopy(s).n = 0
           /\ Copies(s) \subseteq Copy
           /\ \A c \in Copies(s) : c.n > 0 => c \in Labels
           /\ \A c \in MemberCopies(s) \cup Copies(s) \cup {SenderCopy(s)} : c.at = s.at
  <1>1. s.at \in 1..Len(log) /\ Len(log) \in Nat /\ log[s.at] \in Message /\ s.at \in 1..MaxLog
    BY SMTT(30) DEF IInv, TypeOK, OnlyStorable
  <1>2. \A u \in Users : [at |-> s.at, to |-> u, n |-> s.nums[u]] \in Labels \cap Copy
    BY SMTT(30), <1>1 DEF Labels, IInv, TypeOK, Copy, Numbers
  <1>3. MemberCopies(s) \subseteq Labels \cap Copy
    BY <1>1, <1>2, ReceiversAreUsers DEF MemberCopies
  <1>4. SenderCopy(s) \in Copy /\ SenderCopy(s).n = 0
    BY <1>1 DEF SenderCopy, Copy
  <1>5. log[s.at].to \in Users
    BY <1>1 DEF Message
  <1>6. Copies(s) \subseteq Copy /\ \A c \in Copies(s) : c.n > 0 => c \in Labels
    BY SMTT(30), <1>2, <1>3, <1>4, <1>5 DEF Copies
  <1>7. \A c \in MemberCopies(s) \cup Copies(s) \cup {SenderCopy(s)} : c.at = s.at
    BY SMTT(30) DEF MemberCopies, Copies, SenderCopy
  <1> QED BY <1>1, <1>3, <1>4, <1>6, <1>7

\* The end of a database task that has added to the inbox what it could.
LEMMA StoredStep ==
    ASSUME IInv, NEW s \in stores, StoreEnds(s),
           inbox' \subseteq Copy, errs \subseteq errs', errs' \subseteq 1..MaxLog,
           NEW cs, stored' = stored \cup cs, cs \subseteq Copy,
           \A c \in cs : c.at = s.at /\ (c.n > 0 => c \in Labels),
           cs # {} => log[s.at].kind # "ack",
           s.at \in errs' \/ ~Storable(s.at)
             \/ \A u \in Receivers(log[s.at]) : \E c \in cs : c.to = u
    PROVE  IInv'
  <1> USE DEF StoreEnds, kafka, run
  <1>0. s.at \in 1..Len(log) /\ Len(log) \in Nat
    BY SMTT(30), CopiesLabelled DEF IInv, TypeOK
  <1>1. TypeOK' /\ Len(log') <= MaxLog
    BY DEF IInv, TypeOK
  <1>2. Grows
    BY SMTT(30), <1>0 DEF Grows
  <1>3. Handled'
    <2>1. \A i \in 1..Len(log) : Settled(i) => Settled(i)'
      BY <1>0, <1>2, SettledStays
    <2>2. Settled(s.at)'
      BY DEF Settled, HasCopies, Storable
    <2>3. pos \in 0..Len(log)
      BY DEF IInv, TypeOK
    <2>4. (h = "tasks" => Settled(pos) \/ \E t \in stores : t.at = pos)'
      <3> SUFFICES ASSUME h = "tasks", ~Settled(pos)'
                   PROVE  \E t \in stores' : t.at = pos
        OBVIOUS
      <3>1. pos \in 1..Len(log)
        BY Handling
      <3>2. PICK t \in stores : t.at = pos
        BY <2>1, <3>1 DEF IInv, Handled
      <3>3. t # s
        BY <2>2, <3>2
      <3> QED BY <3>2, <3>3
    <2> QED BY SMTT(30), <1>0, <2>1, <2>3, <2>4 DEF IInv, Handled
  <1>4. OnlyStorable'
    <2>1. SendToDb(log[s.at].kind) /\ log[s.at].kind # "read"
      BY DEF IInv, OnlyStorable
    <2>2. \A c \in stored' : c.at \in 1..Len(log) /\ Storable(c.at)
      BY <1>0, <2>1 DEF IInv, OnlyStorable, Storable
    <2> QED BY <2>2 DEF IInv, OnlyStorable, Storable
  <1>5. Numbered' /\ Ordered'
    <2>1. \A c \in Labels' : c.n > 0 => c \in Labels
      BY SMTT(30) DEF Labels
    <2> QED BY <1>1, <1>2, <2>1, NoNewNumbers
  <1> QED BY <1>1, <1>3, <1>4, <1>5 DEF IInv

\* The database task deletes for an acknowledgement and stores all copies of
\* any other message.
LEMMA StoreStep == ASSUME IInv, NEW s \in stores, Store(s) PROVE IInv'
  <1> USE DEF Store
  <1>0. errs \subseteq 1..MaxLog /\ inbox \subseteq Copy
    BY DEF IInv, TypeOK
  <1>1. CASE log[s.at].kind = "ack"
    <2> DEFINE cs == {}
    <2>1. stored' = stored \cup cs /\ inbox' \subseteq Copy
      BY <1>0, <1>1 DEF Deletes
    <2>2. ~Storable(s.at)
      BY <1>1 DEF Storable
    <2>3. cs \subseteq Copy /\ cs = {} /\ \A c \in cs : c.at = s.at /\ (c.n > 0 => c \in Labels)
      OBVIOUS
    <2> HIDE DEF cs
    <2> QED BY <1>0, <2>1, <2>2, <2>3, StoredStep
  <1>2. CASE log[s.at].kind # "ack"
    <2>1. stored' = stored \cup Copies(s) /\ inbox' \subseteq Copy
      BY <1>0, <1>2, CopiesLabelled DEF Inserts
    <2>2. ASSUME NEW u \in Receivers(log[s.at]) PROVE \E c \in Copies(s) : c.to = u
      <3>1. [at |-> s.at, to |-> u, n |-> s.nums[u]] \in Copies(s)
        BY DEF Receivers, Copies, MemberCopies
      <3> QED BY <3>1
    <2> QED BY SMTT(30), <1>0, <1>2, <2>1, <2>2, StoredStep, CopiesLabelled
  <1> QED BY <1>1, <1>2

\* A task that fails has logged an error, whatever it has stored.
LEMMA StoreErrorStep == ASSUME IInv, NEW s \in stores, StoreError(s) PROVE IInv'
  <1> USE DEF StoreError
  <1>0. /\ errs \subseteq errs' /\ errs' \subseteq 1..MaxLog /\ s.at \in errs'
        /\ inbox \subseteq Copy
    BY DEF IInv, TypeOK
  <1>1. CASE UNCHANGED <<inbox, stored>>
    <2> DEFINE cs == {}
    <2>1. stored' = stored \cup cs /\ inbox' \subseteq Copy
      BY <1>0, <1>1
    <2>2. cs \subseteq Copy /\ cs = {} /\ \A c \in cs : c.at = s.at /\ (c.n > 0 => c \in Labels)
      OBVIOUS
    <2> HIDE DEF cs
    <2> QED BY <1>0, <2>1, <2>2, StoredStep
  <1>2. ASSUME IsGroup(log[s.at].kind),
               NEW us \in SUBSET MemberCopies(s), Inserts(s, {SenderCopy(s)} \cup us)
        PROVE  IInv'
    <2> DEFINE cs == {SenderCopy(s)} \cup us
    <2>1. /\ cs \subseteq Copy
          /\ \A c \in cs : c.at = s.at /\ (c.n > 0 => c \in Labels)
      BY SMTT(30), CopiesLabelled
    <2>2. stored' = stored \cup cs /\ inbox' \subseteq Copy
      BY <1>0, <1>2, <2>1 DEF Inserts
    <2>3. log[s.at].kind # "ack"
      BY <1>2 DEF IsGroup
    <2> HIDE DEF cs
    <2> QED BY <1>0, <2>1, <2>2, <2>3, StoredStep
  <1> QED BY <1>1, <1>2

\* The broker records the offset it was sent.
LEMMA CommitStep == ASSUME IInv, CommitArrives PROVE IInv'
  <1> USE DEF CommitArrives, run, mongo
  <1>1. TypeOK' /\ Len(log') <= MaxLog
    BY DEF IInv, TypeOK
  <1>2. Grows
    BY SMTT(30) DEF Grows, IInv, TypeOK
  <1>3. Handled'
    BY SMTT(30) DEF IInv, Handled, TypeOK, Settled, HasCopies
  <1>4. OnlyStorable'
    BY DEF IInv, OnlyStorable, Storable
  <1>5. Numbered' /\ Ordered'
    <2>1. Labels' = Labels
      BY SMTT(30) DEF Labels
    <2> QED BY <1>1, <1>2, <2>1, NoNewNumbers
  <1> QED BY <1>1, <1>3, <1>4, <1>5 DEF IInv

\* The consumer resumes behind the committed offset: what is before it is
\* settled, and numbers in its hands are lost.
LEMMA CrashStep == ASSUME IInv, Crash PROVE IInv'
  <1> USE DEF Crash, kafka, mongo
  <1>1. TypeOK' /\ Len(log') <= MaxLog
    <2>1. pushing' \in BOOLEAN
      OBVIOUS
    <2> QED BY SMTT(30), <2>1, DeliveryAssumption DEF IInv, TypeOK, Numbers, NoNumbers
  <1>2. Grows
    BY SMTT(30) DEF Grows, IInv, TypeOK
  <1>3. Handled'
    <2>1. ASSUME NEW i \in 1..committed PROVE Settled(i)'
      <3>1. i \in 1..Len(log) /\ Len(log) \in Nat
        BY SMTT(30) DEF IInv, TypeOK
      <3>2. i \in 1..pos /\ (i < pos \/ h = "idle")
        BY SMTT(30) DEF IInv, TypeOK, Handled
      <3> QED BY <1>2, <3>1, <3>2, SettledStays DEF IInv, Handled
    <2>2. pos' = committed /\ acking' = committed /\ h' = "idle" /\ ~pushing' /\ committed' = committed
      OBVIOUS
    <2> QED BY SMTT(30), <2>1, <2>2 DEF IInv, TypeOK, Handled
  <1>4. OnlyStorable'
    BY DEF IInv, OnlyStorable, Storable
  <1>5. Numbered' /\ Ordered'
    <2>1. \A c \in Labels' : c.n > 0 => c \in Labels
      BY SMTT(30) DEF Labels, NoNumbers
    <2> QED BY <1>1, <1>2, <2>1, NoNewNumbers
  <1> QED BY <1>1, <1>3, <1>4, <1>5 DEF IInv

\* Every step of the system keeps the inductive invariant.
LEMMA NextIInv == IInv /\ [Next]_vars => IInv'
  <1> SUFFICES ASSUME IInv, [Next]_vars PROVE IInv'
    OBVIOUS
  <1>1. ASSUME NEW m \in Message, SendMsg(m) PROVE IInv'
    BY <1>1, SendStep
  <1>2. CASE Recv
    BY <1>2, RecvStep
  <1>3. CASE HandleMsgRead
    <2>1. Settled(pos)
      BY <1>3 DEF HandleMsgRead, Settled, HasCopies
    <2>2. h # "idle" /\ ~pushing
      BY <1>3 DEF HandleMsgRead, IInv, Handled
    <2> QED BY <1>3, <2>1, <2>2, SucceedStep DEF HandleMsgRead
  <1>4. CASE IncreaseSeq
    BY <1>4, IncreaseStep
  <1>5. CASE SpawnTasks
    BY <1>5, SpawnStep
  <1>6. CASE HandleMsgReturns
    <2>1. Settled(pos) /\ h # "idle" /\ ~pushing
      BY <1>6 DEF HandleMsgReturns, Joined, IInv, Handled
    <2> QED BY <1>6, <2>1, SucceedStep DEF HandleMsgReturns
  <1>7. CASE HandleMsgError
    BY <1>7, ReturnStep DEF HandleMsgError
  <1>8. CASE Push
    BY <1>8, PushStep
  <1>9. CASE PushPanics
    BY <1>9, ReturnStep DEF PushPanics, IInv, Handled
  <1>10. ASSUME NEW s \in stores, Store(s) \/ StoreError(s) PROVE IInv'
    BY <1>10, StoreStep, StoreErrorStep
  <1>11. CASE CommitArrives
    BY <1>11, CommitStep
  <1>12. CASE Crash
    BY <1>12, CrashStep
  <1>13. CASE UNCHANGED vars
    <2> USE <1>13 DEF vars, kafka, run, mongo
    <2>1. TypeOK' /\ Len(log') <= MaxLog
      BY DEF IInv, TypeOK
    <2>2. Handled' /\ OnlyStorable'
      BY SMTT(30) DEF IInv, Handled, OnlyStorable, Settled, HasCopies, Storable
    <2>3. Labels' = Labels /\ Grows
      BY SMTT(30) DEF Labels, Grows, IInv, TypeOK
    <2> QED BY <2>1, <2>2, <2>3, NoNewNumbers DEF IInv
  <1> QED
    BY <1>1, <1>2, <1>3, <1>4, <1>5, <1>6, <1>7, <1>8, <1>9, <1>10, <1>11, <1>12, <1>13
       DEF Next, Consumes, Pushes, Stores, Idle

\* The inductive invariant holds throughout.
THEOREM InductiveInvariant == Spec => []IInv
  BY InitIInv, NextIInv, PTL DEF Spec

\* An offset the broker has recorded is settled: its message has a copy for
\* everyone it was addressed to, or consume or the database task has logged an
\* error for it, whatever crashed and whenever a commit arrived.
THEOREM CommitFollowsStore == Spec => []CommittedIsStored
  <1>1. IInv => CommittedIsStored
    BY SMTT(30) DEF IInv, TypeOK, Handled, CommittedIsStored, Settled
  <1> QED BY <1>1, InductiveInvariant, PTL

\* No number of a user is on two messages, stored or pushed, however often the
\* consumer handles a message.
THEOREM NumbersTellApart == Spec => []NumberNamesOneMessage
  <1>1. IInv => NumberNamesOneMessage
    BY SMTT(30) DEF IInv, Numbered, NumberNamesOneMessage, Labels
  <1> QED BY <1>1, InductiveInvariant, PTL

\* Without errors a message's number is larger than one of every earlier
\* message of its receiver, also after crashes and repetitions.
THEOREM NumbersFollowTopic == Spec => []InboxInTopicOrder
  <1>1. ASSUME IInv PROVE InboxInTopicOrder
    <2> SUFFICES ASSUME failed \cup errs = {}, NEW c \in stored, NEW d \in stored,
                        c.to = d.to, c.at < d.at, c.n > 0, d.n > 0
                 PROVE  \E e \in stored : e.to = c.to /\ e.at = c.at /\ e.n < d.n
      BY DEF InboxInTopicOrder
    <2>1. c \in Labels /\ d \in Labels
      BY SMTT(30) DEF Labels
    <2>2. c.at \in 1..(d.at - 1) /\ Storable(c.at) /\ c.to \in Receivers(log[c.at])
      BY SMTT(30), <1>1, <2>1 DEF IInv, Numbered, OnlyStorable
    <2> QED BY SMTT(30), <1>1, <2>1, <2>2 DEF IInv, Ordered
  <1>2. IInv => InboxInTopicOrder
    BY <1>1
  <1> QED BY <1>2, InductiveInvariant, PTL
-----------------------------------------------------------------------------
(* Counting the numbers that are on no copy.                               *)

\* A step that changes neither what is missing nor where handle_msg is.
LEMMA CountedStays ==
    ASSUME IInv, Counted, Grows, UNCHANGED <<pos, h, nums, seq, stored>>,
           stores' \subseteq stores, crashes \in Nat, crashes <= crashes'
    PROVE  Counted'
  <1> SUFFICES ASSUME failed' \cup errs' = {}, crashes' = 0 PROVE Counted'
    BY DEF Counted
  <1>1. failed \cup errs = {} /\ crashes = 0
    BY SMTT(30) DEF Grows
  <1>2. \A i \in 1..pos : log'[i] = log[i]
    BY SMTT(30) DEF IInv, TypeOK, Grows
  <1>3. h # "idle" => pos \in 1..pos
    BY SMTT(30), Handling
  <1>4. \A u \in Users : Skipped(u)' = Skipped(u)
    BY DEF Skipped, Missing
  <1>5. \A u \in Users : Connects(u, Behind)' = Connects(u, Behind)
    BY SMTT(30), <1>2 DEF Connects, Behind, IInv, TypeOK
  <1> QED BY <1>1, <1>2, <1>3, <1>4, <1>5 DEF Counted

\* The next message has no copies yet.
LEMMA CountedRecv == ASSUME IInv, Counted, Recv PROVE Counted'
  <1> USE DEF Recv, kafka, mongo
  <1> SUFFICES ASSUME failed \cup errs = {}, crashes = 0 PROVE Counted'
    BY DEF Counted
  <1>1. pos \in Nat
    BY SMTT(30) DEF IInv, TypeOK
  <1>2. stores = {}
    BY DEF Counted
  <1>3. \A c \in stored : c.at <= pos /\ c.at \in Nat
    BY SMTT(30) DEF Counted, IInv, TypeOK, Copy
  <1>4. \A u \in Users : Skipped(u)' = Skipped(u)
    BY SMTT(30) DEF Skipped, Missing, NoNumbers
  <1>5. \A u \in Users : Connects(u, Behind)' = Connects(u, Behind)
    BY SMTT(30), <1>1 DEF Connects, Behind
  <1> QED BY SMTT(30), <1>1, <1>2, <1>3, <1>4, <1>5 DEF Counted

\* A number that is drawn is missing, and in the hands of handle_msg.
LEMMA CountedIncrease == ASSUME IInv, Counted, IncreaseSeq PROVE Counted'
  <1> USE DEF IncreaseSeq, kafka, mongo
  <1> SUFFICES ASSUME failed \cup errs = {}, crashes = 0 PROVE Counted'
    BY DEF Counted
  <1>1. log[pos] \in Message /\ pos \in Nat
    BY SMTT(30), Handling DEF IInv, TypeOK
  <1>2. stores = {} /\ nums = NoNumbers
    BY DEF Counted
  <1>3. \A c \in stored : c.at <= pos /\ ~(c.at = pos /\ c.to \in Users)
    BY DEF Counted
  <1>4. \A u \in Receivers(log[pos]) : nums'[u] > 0
    BY SMTT(30), <1>1, ReceiversAreUsers DEF Drawn, IInv, TypeOK, Numbers
  <1>5. ASSUME NEW u \in Users PROVE Skipped(u)' = Skipped(u)
    <2>1. seq[u] \in Nat /\ \A c \in stored : c.to = u => c.n \in Nat /\ c.n <= seq[u]
      BY SMTT(30) DEF IInv, TypeOK, Numbers, Copy, Numbered, Labels
    <2>2. Skipped(u) = Missing(u)
      BY SMTT(30), <1>2, <2>1 DEF Skipped, Missing, NoNumbers
    <2>3. CASE u \in Receivers(log[pos])
      <3>1. seq'[u] = seq[u] + 1 /\ nums'[u] = seq[u] + 1
        BY <2>3 DEF Increased, Drawn
      <3>2. Missing(u)' = Missing(u) \cup {seq[u] + 1}
        BY SMTT(30), <2>1, <3>1 DEF Missing
      <3>3. seq[u] + 1 \notin Missing(u)
        BY SMTT(30), <2>1 DEF Missing
      <3> QED BY <2>2, <3>1, <3>2, <3>3 DEF Skipped
    <2>4. CASE u \notin Receivers(log[pos])
      <3>1. seq'[u] = seq[u] /\ nums'[u] = 0
        BY <2>4 DEF Increased, Drawn
      <3> QED BY SMTT(30), <2>1, <2>2, <3>1 DEF Skipped, Missing
    <2> QED BY <2>3, <2>4
  <1>6. \A u \in Users : Connects(u, Behind)' = Connects(u, Behind)
    BY <1>1 DEF Connects, Behind
  <1> QED BY <1>2, <1>3, <1>4, <1>5, <1>6 DEF Counted

\* The database task gets the numbers in the hands of handle_msg.
LEMMA CountedSpawn == ASSUME IInv, Counted, SpawnTasks PROVE Counted'
  <1> USE DEF SpawnTasks, kafka, mongo
  <1> SUFFICES ASSUME failed \cup errs = {}, crashes = 0 PROVE Counted'
    BY DEF Counted
  <1>1. stores = {}
    BY DEF Counted
  <1>2. \A u \in Users : Skipped(u)' = Skipped(u) /\ Connects(u, Behind)' = Connects(u, Behind)
    BY DEF Skipped, Missing, Connects, Behind
  <1> QED BY SMTT(30), <1>1, <1>2 DEF Counted

\* The database task stores copies under the numbers in the hands of handle_msg.
LEMMA CountedStore == ASSUME IInv, Counted, NEW s \in stores, Store(s) PROVE Counted'
  <1> USE DEF Store, StoreEnds, kafka, run
  <1> SUFFICES ASSUME failed \cup errs = {}, crashes = 0 PROVE Counted'
    BY DEF Counted
  <1>1. h = "tasks" /\ s.at = pos /\ s.nums = nums
    BY DEF Counted
  <1>2. log[pos] \in Message
    BY <1>1, Handling
  <1>3. ASSUME NEW c \in stored', c \notin stored
        PROVE  c.at = pos /\ (c.to \in Users => c.n = nums[c.to])
    <2>1. c \in Copies(s)
      BY <1>3 DEF Deletes, Inserts
    <2> QED BY SMTT(30), <1>1, <2>1, DeliveryAssumption DEF Copies, MemberCopies, SenderCopy
  <1>4. stored \subseteq stored'
    BY DEF Deletes, Inserts
  <1>5. \A u \in Users : Skipped(u)' = Skipped(u)
    BY SMTT(30), <1>1, <1>3, <1>4 DEF Skipped, Missing
  <1>6. \A u \in Users : Connects(u, Behind)' = Connects(u, Behind)
    BY <1>1 DEF Connects, Behind
  <1>7. \A c \in stored' : c.at <= pos /\ (c.at = pos /\ c.to \in Users => c.n = nums[c.to])
    <2>1. pos \in Nat
      BY SMTT(30) DEF IInv, TypeOK
    <2> QED BY SMTT(30), <1>1, <1>3, <2>1 DEF Counted
  <1> QED BY <1>1, <1>5, <1>6, <1>7 DEF Counted

\* When a message is done, its numbers are on copies, but for a
\* ConnectSingleCall, whose number joins those that are missing.
LEMMA CountedSucceed ==
    ASSUME IInv, Counted, Succeed, HandleMsgRead \/ HandleMsgReturns
    PROVE  Counted'
  <1> USE DEF Succeed, kafka, mongo
  <1> SUFFICES ASSUME failed \cup errs = {}, crashes = 0 PROVE Counted'
    BY DEF Counted
  <1>1. pos \in 1..Len(log) /\ log[pos] \in Message /\ pos \in Nat \ {0} /\ h \in {"taken", "tasks"}
    BY SMTT(30), Handling DEF HandleMsgRead, HandleMsgReturns, Joined, IInv, TypeOK
  <1>2. stores = {}
    BY DEF Counted, HandleMsgRead, HandleMsgReturns, Joined
  <1>3. ASSUME NEW u \in Users
        PROVE  Cardinality(Skipped(u)') = Cardinality(Connects(u, Behind)')
    <2>0. Missing(u)' = Missing(u) /\ h # "idle" /\ h' = "idle"
      BY <1>1 DEF Missing
    <2>1. /\ Skipped(u)' = Missing(u) /\ Skipped(u) = Missing(u) \ {nums[u]}
          /\ Connects(u, Behind)' = Connects(u, pos) /\ Behind = pos - 1
      <3>1. Skipped(u)' = Missing(u)' \ {} /\ Skipped(u) = Missing(u) \ {nums[u]}
        BY <2>0 DEF Skipped
      <3>2. Behind' = pos /\ Behind = pos - 1
        BY <2>0 DEF Behind
      <3>3. Connects(u, Behind)' = Connects(u, pos)
        BY <3>2 DEF Connects
      <3> QED BY <2>0, <3>1, <3>2, <3>3
    <2>2. Cardinality(Missing(u) \ {nums[u]}) = Cardinality(Connects(u, pos - 1))
      <3>1. Cardinality(Skipped(u)) = Cardinality(Connects(u, Behind))
        BY DEF Counted
      <3> QED BY <2>1, <3>1
    <2>3. seq[u] \in Nat /\ nums[u] \in Nat
      BY DEF IInv, TypeOK, Numbers
    <2>4. [at |-> pos, to |-> u, n |-> nums[u]] \in Labels
      BY SMTT(30) DEF Labels
    <2>5. nums[u] > 0 => u \in Receivers(log[pos]) /\ nums[u] <= seq[u]
      BY <2>4 DEF IInv, Numbered
    <2>6. CASE log[pos].kind = "connect" /\ log[pos].to = u
      <3>1. u \in Receivers(log[pos]) /\ h = "tasks" /\ ~Storable(pos)
        BY <2>6 DEF Receivers, IsGroup, NeedIncreaseSeq, HandleMsgRead, HandleMsgReturns, Joined,
                    Storable, SendToDb
      <3>2. nums[u] > 0
        BY <3>1 DEF Counted
      <3>3. \A c \in stored : c.to = u => c.n # nums[u]
        <4> SUFFICES ASSUME NEW c \in stored, c.to = u, c.n = nums[u] PROVE FALSE
          OBVIOUS
        <4>1. c \in Labels
          BY SMTT(30) DEF Labels
        <4>2. c.at = pos
          BY <2>4, <3>2, <4>1 DEF IInv, Numbered
        <4> QED BY <3>1, <4>2 DEF IInv, OnlyStorable
      <3>4. nums[u] \in Missing(u)
        BY SMTT(30), <2>3, <2>5, <3>2, <3>3 DEF Missing
      <3>5. Connects(u, pos) = Connects(u, pos - 1) \cup {pos} /\ pos \notin Connects(u, pos - 1)
        BY SMTT(30), <1>1, <2>6 DEF Connects
      <3>6. IsFiniteSet(Missing(u)) /\ IsFiniteSet(Connects(u, pos - 1))
        <4>0. 1 \in Int /\ seq[u] \in Int /\ pos - 1 \in Int
          BY SMTT(30), <1>1, <2>3
        <4>1. IsFiniteSet(1..seq[u]) /\ IsFiniteSet(1..(pos - 1))
          BY <4>0, FS_Interval
        <4>2. Missing(u) \in SUBSET (1..seq[u]) /\ Connects(u, pos - 1) \in SUBSET (1..(pos - 1))
          BY DEF Missing, Connects
        <4> QED BY <4>1, <4>2, FS_Subset
      <3>7. Cardinality(Missing(u) \ {nums[u]}) = Cardinality(Missing(u)) - 1
        BY <3>4, <3>6, FS_RemoveElement
      <3>8. Cardinality(Connects(u, pos)) = Cardinality(Connects(u, pos - 1)) + 1
        BY <3>5, <3>6, FS_AddElement
      <3>9. Cardinality(Missing(u)) \in Nat /\ Cardinality(Connects(u, pos - 1)) \in Nat
        BY <3>6, FS_CardinalityType
      <3> QED BY SMTT(30), <2>1, <2>2, <3>7, <3>8, <3>9
    <2>7. CASE ~(log[pos].kind = "connect" /\ log[pos].to = u)
      <3>1. Connects(u, pos) = Connects(u, pos - 1)
        BY SMTT(30), <1>1, <2>7 DEF Connects
      <3>2. nums[u] \notin Missing(u)
        <4>1. CASE u \notin Receivers(log[pos])
          BY SMTT(30), <2>3, <2>5, <4>1 DEF Missing
        <4>2. CASE u \in Receivers(log[pos])
          <5>1. log[pos].kind \in {"single", "group", "groupfile"}
            BY <2>7, <4>2 DEF Receivers, IsGroup, NeedIncreaseSeq
          <5>2. h = "tasks" /\ Settled(pos)
            BY <5>1 DEF HandleMsgRead, HandleMsgReturns, Joined, IInv, Handled
          <5>3. PICK c \in stored : c.at = pos /\ c.to = u
            BY <4>2, <5>1, <5>2 DEF Settled, HasCopies, SendToDb
          <5>4. c.n = nums[u]
            BY <5>2, <5>3 DEF Counted
          <5> QED BY <5>3, <5>4 DEF Missing
        <4> QED BY <4>1, <4>2
      <3> QED BY <2>1, <2>2, <3>1, <3>2
    <2> QED BY <2>6, <2>7
  <1>4. \A c \in stored : c.at <= pos
    BY DEF Counted
  <1> QED BY <1>2, <1>3, <1>4 DEF Counted

\* Every step keeps count.
LEMMA NextCounted == IInv /\ Counted /\ [Next]_vars => Counted'
  <1> SUFFICES ASSUME IInv, Counted, [Next]_vars PROVE Counted'
    OBVIOUS
  <1>0. Len(log) \in Nat /\ crashes \in Nat /\ \A i \in 1..Len(log) : Append(log, 0)[i] = log[i]
    BY SMTT(30) DEF IInv, TypeOK
  <1>1. ASSUME NEW m \in Message, SendMsg(m) PROVE Counted'
    <2>1. Grows
      BY SMTT(30), <1>1 DEF SendMsg, Grows, IInv, TypeOK, mongo
    <2> QED BY SMTT(30), <1>0, <1>1, <2>1, CountedStays DEF SendMsg, run, mongo
  <1>2. CASE HandleMsgRead \/ HandleMsgReturns
    BY <1>2, CountedSucceed DEF HandleMsgRead, HandleMsgReturns
  <1>3. CASE HandleMsgError \/ PushPanics
    BY <1>3 DEF HandleMsgError, PushPanics, Return, Counted
  <1>4. CASE Push \/ CommitArrives \/ UNCHANGED vars
    <2>1. Grows
      BY SMTT(30), <1>0, <1>4 DEF Push, CommitArrives, Grows, vars, kafka, mongo
    <2> QED BY SMTT(30), <1>0, <1>4, <2>1, CountedStays DEF Push, CommitArrives, vars, kafka, run, mongo
  <1>5. ASSUME NEW s \in stores, StoreError(s) PROVE Counted'
    BY <1>5 DEF StoreError, Counted
  <1>6. CASE Crash
    <2>1. crashes' = crashes + 1
      BY <1>6 DEF Crash
    <2>2. crashes' # 0
      BY SMTT(30), <1>0, <2>1
    <2> QED BY <2>2 DEF Counted
  <1> QED
    BY <1>1, <1>2, <1>3, <1>4, <1>5, <1>6, CountedRecv, CountedIncrease, CountedSpawn, CountedStore
       DEF Next, Consumes, Pushes, Stores, Idle

\* Without errors and crashes, the numbers on no copy are as many as the
\* ConnectSingleCall messages of the user.
THEOREM NumbersAreStored == Spec => []EveryNumberStored
  <1>1. Init => Counted
    <2> SUFFICES ASSUME Init PROVE Counted
      OBVIOUS
    <2>1. \A u \in Users : Skipped(u) = {} /\ Connects(u, Behind) = {}
      BY SMTT(30) DEF Init, Skipped, Missing, Connects, Behind, NoNumbers
    <2>2. \A u \in Users : Cardinality(Skipped(u)) = Cardinality(Connects(u, Behind))
      BY <2>1
    <2> QED BY <2>2 DEF Init, Counted
  <1>2. IInv /\ Counted => EveryNumberStored
    <2> SUFFICES ASSUME Counted, failed \cup errs = {}, crashes = 0, h = "idle", NEW u \in Users
                 PROVE  Cardinality(Missing(u)) = Cardinality(Connects(u, pos))
      BY DEF EveryNumberStored
    <2>1. Skipped(u) = Missing(u) /\ Behind = pos
      BY DEF Skipped, Behind
    <2> QED BY <2>1 DEF Counted
  <1> QED BY <1>1, <1>2, InitIInv, NextIInv, NextCounted, PTL DEF Spec
-----------------------------------------------------------------------------
(* Counting the copies that acknowledgements take.                         *)

\* Sets that lose, keep or gain an element.
LEMMA NoMore ==
    ASSUME NEW S, IsFiniteSet(S), NEW T, T \subseteq S
    PROVE  /\ IsFiniteSet(T) /\ Cardinality(T) \in Nat /\ Cardinality(S) \in Nat
           /\ Cardinality(T) <= Cardinality(S)
  BY FS_Subset, FS_CardinalityType

LEMMA OneMore ==
    ASSUME NEW S, IsFiniteSet(S), NEW x, NEW T, T \subseteq S \cup {x}
    PROVE  /\ IsFiniteSet(T) /\ Cardinality(T) \in Nat /\ Cardinality(S) \in Nat
           /\ Cardinality(T) <= Cardinality(S) + 1
  <1>1. /\ IsFiniteSet(S \cup {x}) /\ Cardinality(S) \in Nat
        /\ Cardinality(S \cup {x}) \in {Cardinality(S), Cardinality(S) + 1}
    BY FS_AddElement, FS_CardinalityType
  <1>2. /\ IsFiniteSet(T) /\ Cardinality(T) \in Nat
        /\ Cardinality(T) <= Cardinality(S \cup {x})
    BY <1>1, NoMore
  <1> QED BY SMTT(30), <1>1, <1>2

LEMMA OneLess ==
    ASSUME NEW S, IsFiniteSet(S), NEW x \in S, NEW T, T \subseteq S \ {x}
    PROVE  /\ IsFiniteSet(T) /\ Cardinality(T) \in Nat /\ Cardinality(S) \in Nat
           /\ Cardinality(T) + 1 <= Cardinality(S)
  <1>1. /\ IsFiniteSet(S \ {x}) /\ Cardinality(S) \in Nat
        /\ Cardinality(S \ {x}) = Cardinality(S) - 1
    BY FS_RemoveElement, FS_CardinalityType
  <1>2. /\ IsFiniteSet(T) /\ Cardinality(T) \in Nat
        /\ Cardinality(T) <= Cardinality(S \ {x})
    BY <1>1, NoMore
  <1> QED BY SMTT(30), <1>1, <1>2

\* The acknowledgements in the topic are finitely many.
LEMMA AcksFinite ==
    ASSUME IInv, NEW i
    PROVE  /\ IsFiniteSet(Acks(i)) /\ IsFiniteSet(Unhandled(i))
           /\ Cardinality(Acks(i)) \in Nat /\ Cardinality(Unhandled(i)) \in Nat
           /\ Cardinality(Unhandled(i)) <= Cardinality(Acks(i))
           /\ crashes \in Nat /\ Len(log) \in Nat
  <1>1. 1 \in Int /\ Len(log) \in Int /\ Len(log) \in Nat /\ crashes \in Nat
    BY SMTT(30), DeliveryAssumption DEF IInv, TypeOK
  <1>2. IsFiniteSet(1..Len(log))
    BY <1>1, FS_Interval
  <1>3. Acks(i) \subseteq 1..Len(log) /\ Unhandled(i) \subseteq Acks(i)
    BY DEF Acks, Unhandled
  <1>4. IsFiniteSet(Acks(i))
    BY <1>2, <1>3, NoMore
  <1> QED BY <1>1, <1>3, <1>4, NoMore

\* A step of the same consumer that adds nothing anywhere.
LEMMA BalanceKept ==
    ASSUME IInv, Balanced, crashes' = crashes,
           \A i \in 1..MaxLog : /\ Gone(i)' \subseteq Gone(i)
                                /\ Acking(i)' \subseteq Acking(i)
                                /\ Unhandled(i)' \subseteq Unhandled(i)
                                /\ Acks(i)' = Acks(i)
    PROVE  Balanced'
  <1> SUFFICES ASSUME NEW i \in 1..MaxLog
               PROVE  /\ IsFiniteSet(Gone(i)') /\ IsFiniteSet(Acking(i)')
                      /\ Cardinality(Gone(i)') + Cardinality(Acking(i)') + Cardinality(Unhandled(i)')
                            <= Cardinality(Acks(i)) * (crashes + 1)
    BY DEF Balanced
  <1> DEFINE K == Cardinality(Acks(i)) * (crashes + 1)
  <1>1. /\ IsFiniteSet(Gone(i)) /\ IsFiniteSet(Acking(i)) /\ IsFiniteSet(Unhandled(i))
        /\ Cardinality(Gone(i)) + Cardinality(Acking(i)) + Cardinality(Unhandled(i)) <= K
    BY AcksFinite DEF Balanced
  <1>2. K \in Nat
    BY SMTT(30), AcksFinite
  <1> HIDE DEF K
  <1>3. /\ Cardinality(Gone(i)') \in Nat /\ Cardinality(Gone(i)) \in Nat
        /\ Cardinality(Gone(i)') <= Cardinality(Gone(i)) /\ IsFiniteSet(Gone(i)')
    BY <1>1, NoMore
  <1>4. /\ Cardinality(Acking(i)') \in Nat /\ Cardinality(Acking(i)) \in Nat
        /\ Cardinality(Acking(i)') <= Cardinality(Acking(i)) /\ IsFiniteSet(Acking(i)')
    BY <1>1, NoMore
  <1>5. /\ Cardinality(Unhandled(i)') \in Nat /\ Cardinality(Unhandled(i)) \in Nat
        /\ Cardinality(Unhandled(i)') <= Cardinality(Unhandled(i))
    BY <1>1, NoMore
  <1>6. Cardinality(Gone(i)') + Cardinality(Acking(i)') + Cardinality(Unhandled(i)') <= K
    BY SMTT(30), <1>1, <1>2, <1>3, <1>4, <1>5
  <1> QED BY <1>3, <1>4, <1>6 DEF K

\* A new acknowledgement of a message may take a copy of it.
LEMMA BalanceSend == ASSUME IInv, Balanced, NEW m \in Message, SendMsg(m) PROVE Balanced'
  <1> DEFINE N == Len(log) + 1
  <1>1. /\ Len(log) \in Nat /\ crashes \in Nat /\ pos \in Nat /\ pos <= Len(log)
        /\ Len(log') = N /\ log'[N] = m /\ \A j \in 1..Len(log) : log'[j] = log[j]
        /\ \A j \in 1..N : j = N \/ j \in 1..Len(log)
    BY SMTT(30) DEF SendMsg, IInv, TypeOK
  <1>2. crashes' = crashes /\ UNCHANGED <<stored, inbox, stores, pos, h>>
    BY DEF SendMsg, mongo, run
  <1>3. \A s \in stores : s.at \in 1..Len(log)
    BY DEF IInv, OnlyStorable
  <1>4. \A i : Gone(i)' = Gone(i) /\ Acking(i)' = Acking(i)
    BY <1>1, <1>2, <1>3 DEF Gone, Acking
  <1>5. N \notin 1..Len(log) /\ N \in 1..N /\ 1..Len(log) \subseteq 1..N /\ N > pos /\ N \in Nat
    BY SMTT(30), <1>1
  <1> HIDE DEF N
  <1>6. ASSUME NEW i
        PROVE  Acks(i)' = Acks(i) \cup (IF m.kind = "ack" /\ m.ref = i THEN {N} ELSE {})
    BY <1>1, <1>5 DEF Acks
  <1>7. ASSUME NEW i PROVE Unhandled(i)' \subseteq Unhandled(i) \cup (Acks(i)' \ Acks(i))
    BY <1>2, <1>6 DEF Unhandled
  <1> SUFFICES ASSUME NEW i \in 1..MaxLog
               PROVE  /\ IsFiniteSet(Gone(i)') /\ IsFiniteSet(Acking(i)')
                      /\ Cardinality(Gone(i)') + Cardinality(Acking(i)') + Cardinality(Unhandled(i)')
                            <= Cardinality(Acks(i)') * (crashes + 1)
    BY <1>2 DEF Balanced
  <1>8. /\ IsFiniteSet(Gone(i)) /\ IsFiniteSet(Acking(i)) /\ IsFiniteSet(Unhandled(i))
        /\ IsFiniteSet(Acks(i))
        /\ Cardinality(Gone(i)) + Cardinality(Acking(i)) + Cardinality(Unhandled(i))
              <= Cardinality(Acks(i)) * (crashes + 1)
        /\ Cardinality(Acks(i)) \in Nat
    BY AcksFinite DEF Balanced
  <1>9. Cardinality(Gone(i)) \in Nat /\ Cardinality(Acking(i)) \in Nat
    BY <1>8, FS_CardinalityType
  <1>10. CASE m.kind = "ack" /\ m.ref = i
    <2>1. Acks(i)' = Acks(i) \cup {N} /\ N \notin Acks(i)
      BY <1>5, <1>6, <1>10 DEF Acks
    <2>2. Cardinality(Acks(i)') = Cardinality(Acks(i)) + 1
      BY <1>8, <2>1, FS_AddElement
    <2>3. Unhandled(i)' \subseteq Unhandled(i) \cup {N}
      BY <1>7, <2>1
    <2>4. /\ Cardinality(Unhandled(i)') \in Nat /\ Cardinality(Unhandled(i)) \in Nat
          /\ Cardinality(Unhandled(i)') <= Cardinality(Unhandled(i)) + 1
      BY <1>8, <2>3, OneMore
    <2>5. \A a, c \in Nat : (a + 1) * (c + 1) = a * (c + 1) + c + 1 /\ a * (c + 1) \in Nat
      BY SMTT(30)
    <2> DEFINE K == Cardinality(Acks(i)) * (crashes + 1)
    <2>6. Cardinality(Acks(i)') * (crashes + 1) = K + crashes + 1 /\ K \in Nat
      BY ZenonT(40), <1>1, <1>8, <2>2, <2>5
    <2>7. Cardinality(Gone(i)) + Cardinality(Acking(i)) + Cardinality(Unhandled(i)) <= K
      BY <1>8
    <2> HIDE DEF K
    <2>8. Cardinality(Gone(i)) + Cardinality(Acking(i)) + Cardinality(Unhandled(i)') <= K + crashes + 1
      BY SMTT(30), <1>1, <1>9, <2>4, <2>6, <2>7
    <2> QED BY <1>4, <1>8, <2>6, <2>8
  <1>11. CASE ~(m.kind = "ack" /\ m.ref = i)
    <2>1. Acks(i)' = Acks(i)
      BY <1>6, <1>11
    <2>2. Unhandled(i)' \subseteq Unhandled(i)
      BY <1>7, <2>1
    <2>3. /\ Cardinality(Unhandled(i)') \in Nat /\ Cardinality(Unhandled(i)) \in Nat
          /\ Cardinality(Unhandled(i)') <= Cardinality(Unhandled(i))
      BY <1>8, <2>2, NoMore
    <2> DEFINE K == Cardinality(Acks(i)) * (crashes + 1)
    <2>4. K \in Nat
      BY SMTT(30), <1>1, <1>8
    <2>5. Cardinality(Gone(i)) + Cardinality(Acking(i)) + Cardinality(Unhandled(i)) <= K
      BY <1>8
    <2> HIDE DEF K
    <2>6. Cardinality(Gone(i)) + Cardinality(Acking(i)) + Cardinality(Unhandled(i)') <= K
      BY SMTT(30), <1>9, <2>3, <2>4, <2>5
    <2> QED BY <1>4, <1>8, <2>1, <2>6 DEF K
  <1> QED BY <1>10, <1>11

\* What is handed to a database task is no longer to be handled.
LEMMA BalanceSpawn == ASSUME IInv, Balanced, SpawnTasks PROVE Balanced'
  <1>1. /\ UNCHANGED <<log, inbox, stored, pos, crashes>>
        /\ h = "numbered" /\ h' = "tasks" /\ pos \in 1..Len(log) /\ Len(log) \in Nat
        /\ stores' \subseteq stores \cup {[at |-> pos, nums |-> nums]}
    <2>1. pos \in 1..Len(log)
      BY Handling DEF SpawnTasks
    <2> QED BY <2>1, AcksFinite DEF SpawnTasks, kafka, mongo
  <1> DEFINE s == [at |-> pos, nums |-> nums]
  <1>2. s.at = pos
    OBVIOUS
  <1> HIDE DEF s
  <1>3. \A i : Gone(i)' = Gone(i) /\ Acks(i)' = Acks(i)
    BY <1>1 DEF Gone, Acks
  <1>4. ~(pos > pos)
    BY SMTT(30), <1>1
  <1>5. ASSUME NEW i
        PROVE  /\ Acking(i)' \subseteq Acking(i) \cup {s}
               /\ pos \notin Acks(i) => Acking(i)' \subseteq Acking(i)
               /\ Unhandled(i)' \subseteq Unhandled(i) \ {pos}
               /\ pos \in Acks(i) => pos \in Unhandled(i)
    <2>1. Acking(i)' \subseteq Acking(i) \cup {s}
      BY <1>1 DEF Acking, s
    <2>2. pos \notin Acks(i) => Acking(i)' \subseteq Acking(i)
      BY <1>1, <1>2 DEF Acking, Acks, s
    <2>3. Unhandled(i)' \subseteq Unhandled(i) \ {pos}
      BY <1>1, <1>3, <1>4 DEF Unhandled
    <2>4. pos \in Acks(i) => pos \in Unhandled(i)
      BY <1>1 DEF Unhandled
    <2> QED BY <2>1, <2>2, <2>3, <2>4
  <1> SUFFICES ASSUME NEW i \in 1..MaxLog
               PROVE  /\ IsFiniteSet(Gone(i)') /\ IsFiniteSet(Acking(i)')
                      /\ Cardinality(Gone(i)') + Cardinality(Acking(i)') + Cardinality(Unhandled(i)')
                            <= Cardinality(Acks(i)) * (crashes + 1)
    BY <1>1, <1>3 DEF Balanced
  <1> DEFINE K == Cardinality(Acks(i)) * (crashes + 1)
  <1>6. /\ IsFiniteSet(Gone(i)) /\ IsFiniteSet(Acking(i)) /\ IsFiniteSet(Unhandled(i))
        /\ Cardinality(Gone(i)) + Cardinality(Acking(i)) + Cardinality(Unhandled(i)) <= K
    BY AcksFinite DEF Balanced
  <1>7. K \in Nat
    BY SMTT(30), AcksFinite
  <1> HIDE DEF K
  <1>8. Cardinality(Gone(i)) \in Nat
    BY <1>6, FS_CardinalityType
  <1>9. CASE pos \in Acks(i)
    <2>1. /\ Cardinality(Unhandled(i)') \in Nat /\ Cardinality(Unhandled(i)) \in Nat
          /\ Cardinality(Unhandled(i)') + 1 <= Cardinality(Unhandled(i))
      BY <1>5, <1>6, <1>9, OneLess
    <2>2. /\ Cardinality(Acking(i)') \in Nat /\ Cardinality(Acking(i)) \in Nat
          /\ Cardinality(Acking(i)') <= Cardinality(Acking(i)) + 1 /\ IsFiniteSet(Acking(i)')
      BY <1>5, <1>6, OneMore
    <2>3. Cardinality(Gone(i)) + Cardinality(Acking(i)') + Cardinality(Unhandled(i)') <= K
      BY SMTT(30), <1>6, <1>7, <1>8, <2>1, <2>2
    <2> QED BY <1>3, <1>6, <2>2, <2>3 DEF K
  <1>10. CASE pos \notin Acks(i)
    <2>1. /\ Cardinality(Unhandled(i)') \in Nat /\ Cardinality(Unhandled(i)) \in Nat
          /\ Cardinality(Unhandled(i)') <= Cardinality(Unhandled(i))
      BY <1>5, <1>6, NoMore
    <2>2. /\ Cardinality(Acking(i)') \in Nat /\ Cardinality(Acking(i)) \in Nat
          /\ Cardinality(Acking(i)') <= Cardinality(Acking(i)) /\ IsFiniteSet(Acking(i)')
      BY <1>5, <1>6, <1>10, NoMore
    <2>3. Cardinality(Gone(i)) + Cardinality(Acking(i)') + Cardinality(Unhandled(i)') <= K
      BY SMTT(30), <1>6, <1>7, <1>8, <2>1, <2>2
    <2> QED BY <1>3, <1>6, <2>2, <2>3 DEF K
  <1> QED BY <1>9, <1>10

\* The task of an acknowledgement ends with at most one copy gone.
LEMMA BalanceStore ==
    ASSUME IInv, Balanced, NEW s \in stores, Store(s) \/ StoreError(s) PROVE Balanced'
  <1>1. /\ UNCHANGED <<log, pos, h, crashes>> /\ stores' = stores \ {s}
    BY DEF Store, StoreError, StoreEnds, kafka, run
  <1>2. \A i : /\ Acks(i)' = Acks(i) /\ Unhandled(i)' = Unhandled(i)
               /\ Acking(i)' = Acking(i) \ {s}
    BY <1>1 DEF Acks, Unhandled, Acking
  <1>3. CASE \A i \in 1..MaxLog : Gone(i)' \subseteq Gone(i)
    BY <1>1, <1>2, <1>3, BalanceKept
  <1>4. ASSUME NEW cs, inbox' = inbox \cup cs, stored' = stored \cup cs PROVE Balanced'
    <2>1. \A i : Gone(i)' \subseteq Gone(i)
      BY <1>4 DEF Gone
    <2> QED BY <1>3, <2>1
  <1>5. CASE UNCHANGED <<inbox, stored>>
    BY <1>3, <1>5 DEF Gone
  <1>6. ASSUME NEW c \in inbox, log[s.at].kind = "ack", c.at = log[s.at].ref,
               inbox' = inbox \ {c}, stored' = stored
        PROVE  Balanced'
    <2>1. \A i : /\ Gone(i)' \subseteq Gone(i) \cup {c}
                 /\ c.at # i => Gone(i)' \subseteq Gone(i)
                 /\ c.at = i => s \in Acking(i)
      BY <1>6 DEF Gone, Acking
    <2> SUFFICES ASSUME NEW i \in 1..MaxLog
                 PROVE  /\ IsFiniteSet(Gone(i)') /\ IsFiniteSet(Acking(i)')
                        /\ Cardinality(Gone(i)') + Cardinality(Acking(i)') + Cardinality(Unhandled(i))
                              <= Cardinality(Acks(i)) * (crashes + 1)
      BY <1>1, <1>2 DEF Balanced
    <2> DEFINE K == Cardinality(Acks(i)) * (crashes + 1)
    <2>2. /\ IsFiniteSet(Gone(i)) /\ IsFiniteSet(Acking(i)) /\ IsFiniteSet(Unhandled(i))
          /\ Cardinality(Gone(i)) + Cardinality(Acking(i)) + Cardinality(Unhandled(i)) <= K
          /\ Cardinality(Unhandled(i)) \in Nat
      BY AcksFinite DEF Balanced
    <2>3. K \in Nat
      BY SMTT(30), AcksFinite
    <2> HIDE DEF K
    <2>4. CASE c.at = i
      <3>0. s \in Acking(i) /\ Acking(i)' \subseteq Acking(i) \ {s}
        BY <1>2, <2>1, <2>4
      <3>1. /\ Cardinality(Acking(i)') \in Nat /\ Cardinality(Acking(i)) \in Nat
            /\ Cardinality(Acking(i)') + 1 <= Cardinality(Acking(i)) /\ IsFiniteSet(Acking(i)')
        BY <2>2, <3>0, OneLess
      <3>2. /\ Cardinality(Gone(i)') \in Nat /\ Cardinality(Gone(i)) \in Nat
            /\ Cardinality(Gone(i)') <= Cardinality(Gone(i)) + 1 /\ IsFiniteSet(Gone(i)')
        BY <2>1, <2>2, OneMore
      <3>3. Cardinality(Gone(i)') + Cardinality(Acking(i)') + Cardinality(Unhandled(i)) <= K
        BY SMTT(30), <2>2, <2>3, <3>1, <3>2
      <3> QED BY <3>1, <3>2, <3>3 DEF K
    <2>5. CASE c.at # i
      <3>1. /\ Cardinality(Acking(i)') \in Nat /\ Cardinality(Acking(i)) \in Nat
            /\ Cardinality(Acking(i)') <= Cardinality(Acking(i)) /\ IsFiniteSet(Acking(i)')
        BY <1>2, <2>2, NoMore
      <3>2. /\ Cardinality(Gone(i)') \in Nat /\ Cardinality(Gone(i)) \in Nat
            /\ Cardinality(Gone(i)') <= Cardinality(Gone(i)) /\ IsFiniteSet(Gone(i)')
        BY <2>1, <2>2, <2>5, NoMore
      <3>3. Cardinality(Gone(i)') + Cardinality(Acking(i)') + Cardinality(Unhandled(i)) <= K
        BY SMTT(30), <2>2, <2>3, <3>1, <3>2
      <3> QED BY <3>1, <3>2, <3>3 DEF K
    <2> QED BY <2>4, <2>5
  <1>7. CASE Store(s)
    BY <1>4, <1>5, <1>6, <1>7 DEF Store, Deletes, Inserts
  <1>8. CASE StoreError(s)
    BY <1>4, <1>5, <1>8 DEF StoreError, Inserts
  <1> QED BY <1>7, <1>8

\* After a crash every acknowledgement may be handled again.
LEMMA BalanceCrash == ASSUME IInv, Balanced, Crash PROVE Balanced'
  <1>1. /\ UNCHANGED <<log, inbox, stored>> /\ crashes' = crashes + 1 /\ stores' = {}
    BY DEF Crash, kafka, mongo
  <1>2. \A i : /\ Acks(i)' = Acks(i) /\ Gone(i)' = Gone(i) /\ Acking(i)' = {}
               /\ Unhandled(i)' \subseteq Acks(i)
    BY <1>1 DEF Acks, Gone, Acking, Unhandled
  <1> SUFFICES ASSUME NEW i \in 1..MaxLog
               PROVE  /\ IsFiniteSet(Gone(i)) /\ IsFiniteSet({})
                      /\ Cardinality(Gone(i)) + Cardinality({}) + Cardinality(Unhandled(i)')
                            <= Cardinality(Acks(i)) * (crashes + 1 + 1)
    BY <1>1, <1>2 DEF Balanced
  <1>3. /\ IsFiniteSet(Gone(i)) /\ IsFiniteSet(Acking(i)) /\ IsFiniteSet(Acks(i))
        /\ Cardinality(Gone(i)) + Cardinality(Acking(i)) + Cardinality(Unhandled(i))
              <= Cardinality(Acks(i)) * (crashes + 1)
        /\ Cardinality(Acks(i)) \in Nat /\ crashes \in Nat /\ Cardinality(Unhandled(i)) \in Nat
    BY AcksFinite DEF Balanced
  <1>4. /\ Cardinality(Gone(i)) \in Nat /\ Cardinality(Acking(i)) \in Nat
        /\ IsFiniteSet({}) /\ Cardinality({}) = 0
    BY <1>3, FS_CardinalityType, FS_EmptySet
  <1>5. /\ Cardinality(Unhandled(i)') \in Nat
        /\ Cardinality(Unhandled(i)') <= Cardinality(Acks(i))
    BY <1>2, <1>3, NoMore
  <1>6. \A a, c \in Nat : a * (c + 1 + 1) = a * (c + 1) + a /\ a * (c + 1) \in Nat
    BY SMTT(30)
  <1> DEFINE K == Cardinality(Acks(i)) * (crashes + 1)
  <1>7. Cardinality(Acks(i)) * (crashes + 1 + 1) = K + Cardinality(Acks(i)) /\ K \in Nat
    BY <1>3, <1>6
  <1>8. Cardinality(Gone(i)) + Cardinality(Acking(i)) + Cardinality(Unhandled(i)) <= K
    BY <1>3
  <1> HIDE DEF K
  <1>9. Cardinality(Gone(i)) + 0 + Cardinality(Unhandled(i)') <= K + Cardinality(Acks(i))
    BY SMTT(30), <1>3, <1>4, <1>5, <1>7, <1>8
  <1> QED BY <1>3, <1>4, <1>7, <1>9

\* Every step keeps the balance.
LEMMA NextBalanced == IInv /\ Balanced /\ [Next]_vars => Balanced'
  <1> SUFFICES ASSUME IInv, Balanced, [Next]_vars PROVE Balanced'
    OBVIOUS
  <1>0. pos \in Nat
    BY SMTT(30) DEF IInv, TypeOK
  <1>1. ASSUME UNCHANGED <<log, inbox, stored, stores, crashes>>,
               \A i : Unhandled(i)' \subseteq Unhandled(i)
        PROVE  Balanced'
    BY <1>1, BalanceKept DEF Gone, Acking, Acks
  <1>2. ASSUME UNCHANGED <<log, inbox, stored, stores, crashes, pos>>,
               h' \in {"taken", "numbered"} => h \in {"taken", "numbered"}
        PROVE  Balanced'
    BY <1>1, <1>2 DEF Unhandled, Acks
  <1>3. CASE Recv
    <2>1. UNCHANGED <<log, inbox, stored, stores, crashes>> /\ pos' = pos + 1
      BY <1>3 DEF Recv, kafka, mongo
    <2>2. \A j \in Nat : j > pos + 1 \/ j = pos + 1 => j > pos
      BY SMTT(30), <1>0
    <2>3. \A i : Acks(i) \subseteq Nat
      BY SMTT(30) DEF Acks
    <2>4. \A i : Unhandled(i)' \subseteq Unhandled(i)
      BY <2>1, <2>2, <2>3 DEF Unhandled, Acks
    <2> QED BY <1>1, <2>1, <2>4
  <1>4. CASE HandleMsgRead \/ HandleMsgReturns
    BY <1>2, <1>4 DEF HandleMsgRead, HandleMsgReturns, Succeed, kafka, mongo
  <1>5. CASE IncreaseSeq
    BY <1>2, <1>5 DEF IncreaseSeq, kafka, mongo
  <1>6. CASE HandleMsgError \/ PushPanics
    BY <1>2, <1>6 DEF HandleMsgError, PushPanics, Return, kafka, mongo
  <1>7. CASE Push \/ CommitArrives \/ UNCHANGED vars
    BY <1>2, <1>7 DEF Push, CommitArrives, vars, kafka, run, mongo
  <1> QED
    BY <1>3, <1>4, <1>5, <1>6, <1>7, BalanceSend, BalanceSpawn, BalanceStore, BalanceCrash
       DEF Next, Consumes, Pushes, Stores, Idle

\* A copy goes only by an acknowledgement of its message, and an
\* acknowledgement takes one, once and again after each crash of the consumer.
THEOREM AcksStayBounded == Spec => []AcksTakeOneEach
  <1>1. Init => Balanced
    <2> SUFFICES ASSUME Init PROVE Balanced
      OBVIOUS
    <2>1. \A i : Gone(i) = {} /\ Acking(i) = {} /\ Unhandled(i) = {} /\ Acks(i) = {}
      BY SMTT(30) DEF Init, Gone, Acking, Unhandled, Acks
    <2>2. IsFiniteSet({}) /\ Cardinality({}) = 0 /\ crashes = 0
      BY FS_EmptySet DEF Init
    <2>3. 0 + 0 + 0 <= 0 * (0 + 1)
      BY SMTT(30)
    <2> QED BY <2>1, <2>2, <2>3 DEF Balanced
  <1>2. IInv /\ Balanced => AcksTakeOneEach
    <2> SUFFICES ASSUME IInv, Balanced, NEW i \in 1..Len(log)
                 PROVE  Cardinality(Gone(i)) <= Cardinality(Acks(i)) * (crashes + 1)
      BY DEF AcksTakeOneEach
    <2>1. i \in 1..MaxLog
      BY SMTT(30), DeliveryAssumption DEF IInv, TypeOK
    <2>2. /\ IsFiniteSet(Gone(i)) /\ IsFiniteSet(Acking(i))
          /\ Cardinality(Gone(i)) + Cardinality(Acking(i)) + Cardinality(Unhandled(i))
                <= Cardinality(Acks(i)) * (crashes + 1)
      BY <2>1 DEF Balanced
    <2>3. /\ Cardinality(Gone(i)) \in Nat /\ Cardinality(Acking(i)) \in Nat
          /\ Cardinality(Unhandled(i)) \in Nat
      BY <2>2, FS_CardinalityType, AcksFinite
    <2> DEFINE K == Cardinality(Acks(i)) * (crashes + 1)
    <2>4. K \in Nat
      BY SMTT(30), AcksFinite
    <2>5. Cardinality(Gone(i)) + Cardinality(Acking(i)) + Cardinality(Unhandled(i)) <= K
      BY <2>2
    <2> HIDE DEF K
    <2>6. Cardinality(Gone(i)) <= K
      BY SMTT(30), <2>3, <2>4, <2>5
    <2> QED BY <2>6 DEF K
  <1> QED BY <1>1, <1>2, InitIInv, NextIInv, NextBalanced, PTL DEF Spec
-----------------------------------------------------------------------------
(* No message is passed over.                                              *)

\* What the consumer has left behind was sent for commit or has failed: the
\* commit of a message covers those before it.
LEMMA NextKept == ASSUME IInv, \A i \in 1..pos : ~Dropped(i), [Next]_vars
                  PROVE  (\A i \in 1..pos : ~Dropped(i))'
  <1> SUFFICES ASSUME NEW i \in 1..pos', i <= Behind', i \notin failed'
               PROVE  i <= acking'
    BY SMTT(30), NextIInv DEF Dropped, IInv, TypeOK
  <1>0. /\ pos \in Nat /\ acking \in Nat /\ committed \in Nat /\ acking <= pos
        /\ pos' \in Nat /\ i \in Nat
    BY SMTT(30), NextIInv DEF IInv, TypeOK, Handled
  <1>1. (i \in 1..pos /\ i <= Behind /\ i \notin failed) => i <= acking
    BY SMTT(30), <1>0 DEF Dropped
  <1>2. CASE UNCHANGED <<pos, acking, failed>> /\ (h = "idle" <=> h' = "idle")
    BY <1>1, <1>2 DEF Behind
  <1>3. CASE Recv
    <2>1. pos' = pos + 1 /\ h' # "idle" /\ h = "idle" /\ UNCHANGED <<acking, failed>>
      BY <1>3 DEF Recv
    <2> QED BY SMTT(30), <1>0, <1>1, <2>1 DEF Behind
  <1>4. CASE HandleMsgRead \/ HandleMsgReturns
    <2>1. acking' = pos /\ pos' = pos
      BY <1>4 DEF HandleMsgRead, HandleMsgReturns, Succeed, SendsCommit
    <2> QED BY SMTT(30), <1>0, <2>1
  <1>5. CASE HandleMsgError \/ PushPanics
    <2>1. h # "idle"
      BY <1>5 DEF HandleMsgError, PushPanics, IInv, Handled
    <2>2. failed' = failed \cup {pos} /\ pos' = pos /\ acking' = acking
      BY <1>5 DEF HandleMsgError, PushPanics, Return
    <2> QED BY SMTT(30), <1>0, <1>1, <2>1, <2>2 DEF Behind
  <1>6. CASE Crash
    <2>1. pos' = committed /\ acking' = committed
      BY <1>6 DEF Crash
    <2> QED BY SMTT(30), <1>0, <2>1
  <1>7. ASSUME NEW s \in stores, StoreEnds(s)
        PROVE  UNCHANGED <<pos, acking, failed, h>>
    BY <1>7 DEF StoreEnds, run
  <1> QED
    BY ZenonT(40), <1>2, <1>3, <1>4, <1>5, <1>6, <1>7
       DEF Next, Consumes, Pushes, Stores, Store, StoreError, SendMsg, IncreaseSeq,
           SpawnTasks, Push, CommitArrives, Idle, run, vars

\* A consumer that waits has left no message of the topic behind: with the
\* progress of handle_msg this gives EveryMessageHandled.
THEOREM NoMessageDropped == Spec => []NothingDropped
  <1> DEFINE Kept == \A i \in 1..pos : ~Dropped(i)
  <1>1. Init => Kept
    BY SMTT(30) DEF Init
  <1>2. IInv /\ Kept => NothingDropped
    BY SMTT(30) DEF IInv, TypeOK, NothingDropped, Dropped, Behind, More
  <1>3. IInv /\ Kept /\ [Next]_vars => Kept'
    BY NextKept
  <1> HIDE DEF Kept
  <1> QED BY <1>1, <1>2, <1>3, InitIInv, NextIInv, PTL DEF Spec
=============================================================================
