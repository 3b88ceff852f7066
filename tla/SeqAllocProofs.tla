--------------------------- MODULE SeqAllocProofs ---------------------------
(***************************************************************************)
(* Proofs about SeqAlloc, for any users, processes, step and bounds: IInv  *)
(* is an inductive invariant, and it implies the invariants and the action *)
(* property that the runs check on small instances.  With finitely many    *)
(* users, load_seq goes forward to its end.                                *)
(***************************************************************************)
EXTENDS SeqAlloc, FiniteSetTheorems, TLAPS

\* Zenon is tried unless a leaf names Z3, which takes the arithmetic.
USE Zenon

-----------------------------------------------------------------------------
(* The start, the steps of load_seq, a crash and the loss of Redis.        *)

\* set_seq leaves a well-formed counter.
LEMMA SetSeqCounter ==
    ASSUME NEW v \in Nat
    PROVE  /\ SetSeq(v) \in Counter /\ CounterOK(SetSeq(v))
           /\ SetSeq(v).cur = v /\ SetSeq(v).max = v
  BY SMTT(30), SeqAllocAssumption DEF SetSeq, Counter, CounterOK

\* A process starts from empty stores.
LEMMA InitIInv == Init => IInv
  <1> SUFFICES ASSUME Init PROVE IInv
    OBVIOUS
  <1> USE SeqAllocAssumption DEF Init
  <1>1. TypeOK
    BY DEF TypeOK, NoKey, NoRow, Row, Counter, PC, Fault
  <1>2. Shape
    BY SMTT(30) DEF Shape, registered, CounterOK, NoKey, NoRow
  <1>3. Restored
    BY DEF Restored, Loading, SomeUp
  <1>4. BoundCoversIssued
    BY SMTT(30) DEF BoundCoversIssued, registered, NoRow
  <1> QED BY <1>1, <1>2, <1>3, <1>4 DEF IInv

\* A starting process has restored nothing yet.
LEMMA StartStep ==
    ASSUME IInv, NEW p \in Procs, Start(p)
    PROVE  IInv'
  <1> USE DEF Start, redisVars, taskVars, loadVars
  <1>1. TypeOK'
    BY DEF IInv, TypeOK, PC
  <1>2. Shape'
    BY DEF IInv, TypeOK, Shape, registered, CounterOK
  <1>3. (Clean => Restored)'
    BY DEF IInv, TypeOK, Restored, Clean, Loading, SomeUp
  <1>4. BoundCoversIssued'
    BY DEF IInv, BoundCoversIssued, Clean, Bound, registered
  <1> QED BY <1>1, <1>2, <1>3, <1>4 DEF IInv

\* A process serves at once only when the flag is set; otherwise it fetches, and
\* doing so over loaded counters is a fault.
LEMMA CheckStep ==
    ASSUME IInv, NEW p \in Procs, CheckSeqLoaded(p) \/ CheckSeqLoadedError(p)
    PROVE  IInv'
  <1> USE DEF CheckSeqLoaded, CheckSeqLoadedError, redisVars, taskVars, loadVars
  <1>1. TypeOK'
    BY DEF IInv, TypeOK, PC, Fault
  <1>2. Shape'
    BY DEF IInv, TypeOK, Shape, registered, CounterOK
  <1>3. (Clean => Restored)'
    BY DEF IInv, TypeOK, Restored, Clean, Loading, SomeUp
  <1>4. BoundCoversIssued'
    BY DEF IInv, BoundCoversIssued, Clean, Bound, registered
  <1> QED BY <1>1, <1>2, <1>3, <1>4 DEF IInv

\* The snapshot of a clean loader covers what was issued: nothing is being
\* handled while a process is fetching.
LEMMA FetchStep ==
    ASSUME IInv, NEW p \in Procs, GetMaxSeq(p)
    PROVE  IInv'
  <1> USE DEF GetMaxSeq, redisVars, taskVars, loadVars
  <1>1. TypeOK'
    BY DEF IInv, TypeOK, PC, registered
  <1>2. Shape'
    <2>1. \A q \in Procs, u \in Users : snap'[q][u].rec <= pg[u].rec
      BY SMTT(30) DEF IInv, TypeOK, Shape, Row
    <2>2. \A q \in Procs : todo'[q] \subseteq registered
      BY DEF IInv, TypeOK, Shape
    <2>3. \A q \in Procs : handler = q => pc'[q] = "up"
      BY DEF IInv, TypeOK, Shape
    <2> QED BY <2>1, <2>2, <2>3 DEF IInv, Shape, registered, CounterOK
  <1>3. (Clean => Restored)'
    <2> SUFFICES ASSUME Clean PROVE Restored'
      BY DEF Clean
    <2>1. Restored /\ ~loaded /\ pend = {}
      BY DEF IInv, TypeOK, Shape, Restored, Loading, SomeUp
    <2>2. \A u \in registered : last[u] <= pg[u].rec
      BY SMTT(30), <2>1 DEF IInv, TypeOK, BoundCoversIssued, Bound, Row, registered
    <2>3. \A u \in Users \ registered : last[u] <= rec[u].cur
      BY SMTT(30) DEF IInv, TypeOK, Shape, Counter
    <2>4. SomeUp' => loaded'
      BY <2>1 DEF IInv, TypeOK, Restored, SomeUp
    <2>5. ASSUME NEW q \in Procs, pc'[q] = "set"
          PROVE  /\ \A u \in Users \ todo'[q] : last[u] <= rec[u].cur
                 /\ \A u \in todo'[q] : last[u] <= snap'[q][u].rec
      <3>1. CASE q = p
        BY <3>1, <2>2, <2>3 DEF IInv, TypeOK
      <3>2. CASE q # p
        BY <3>2, <2>5, <2>1 DEF IInv, TypeOK, Restored
      <3> QED BY <3>1, <3>2
    <2> QED BY <2>1, <2>4, <2>5 DEF Restored
  <1>4. BoundCoversIssued'
    BY DEF IInv, BoundCoversIssued, Clean, Bound, registered
  <1> QED BY <1>1, <1>2, <1>3, <1>4 DEF IInv

\* Restoring any part of what a loader has yet to set keeps the counters
\* well formed and below the persisted bounds.
LEMMA RestoreFacts ==
    ASSUME IInv, NEW p \in Procs, NEW us \in SUBSET todo[p], Restore(p, us)
    PROVE  /\ send' \in [Users -> Counter] /\ rec' \in [Users -> Counter]
           /\ \A u \in Users : CounterOK(send'[u]) /\ CounterOK(rec'[u])
           /\ \A u \in Users \ us : rec'[u] = rec[u]
           /\ \A u \in us : rec'[u].cur = snap[p][u].rec
                          /\ rec'[u].max = snap[p][u].rec
                          /\ rec'[u].max <= pg[u].rec
  <1>1. \A u \in Users : snap[p][u].send \in Nat /\ snap[p][u].rec \in Nat
    BY SMTT(30) DEF IInv, TypeOK, Row
  <1>2. us \subseteq Users
    BY DEF IInv, TypeOK
  <1>3. \A u \in Users : /\ SetSeq(snap[p][u].send) \in Counter
                         /\ CounterOK(SetSeq(snap[p][u].send))
                         /\ SetSeq(snap[p][u].rec) \in Counter
                         /\ CounterOK(SetSeq(snap[p][u].rec))
                         /\ SetSeq(snap[p][u].rec).cur = snap[p][u].rec
                         /\ SetSeq(snap[p][u].rec).max = snap[p][u].rec
    BY <1>1, SetSeqCounter
  <1>4. \A u \in Users : send[u] \in Counter /\ rec[u] \in Counter
    BY DEF IInv, TypeOK
  <1>5. \A u \in Users : CounterOK(send[u]) /\ CounterOK(rec[u])
    BY DEF IInv, Shape
  <1>6. send' \in [Users -> Counter] /\ rec' \in [Users -> Counter]
    BY <1>3, <1>4 DEF Restore
  <1>7. \A u \in Users : CounterOK(send'[u]) /\ CounterOK(rec'[u])
    BY <1>3, <1>5 DEF Restore
  <1>8. \A u \in us : snap[p][u].rec <= pg[u].rec
    BY <1>2 DEF IInv, Shape
  <1>9. \A u \in us : rec'[u] = SetSeq(snap[p][u].rec)
    BY <1>2 DEF Restore
  <1>10. \A u \in Users \ us : rec'[u] = rec[u]
    BY DEF Restore
  <1>11. \A u \in us : /\ rec'[u].cur = snap[p][u].rec
                       /\ rec'[u].max = snap[p][u].rec
    BY <1>2, <1>3, <1>9
  <1>12. \A u \in us : rec'[u].max <= pg[u].rec
    BY <1>8, <1>11
  <1> QED BY <1>6, <1>7, <1>10, <1>11, <1>12

\* A batch of load_seq, applied whole or in part.
LEMMA BatchStep ==
    ASSUME IInv, NEW p \in Procs, SetSeqBatch(p) \/ SetSeqBatchError(p)
    PROVE  IInv'
  <1>1. PICK b \in SUBSET todo[p], done \in SUBSET todo[p] :
           /\ Restore(p, done) /\ done \subseteq b
           /\ todo' = [todo EXCEPT ![p] = @ \ b]
           /\ \/ done = b /\ faults' = faults
              \/ faults' = faults \cup {"set"}
    BY DEF SetSeqBatch, SetSeqBatchError, Batches
  <1>2. pc[p] = "set" /\ UNCHANGED <<pg, loaded, pc, snap, handler, pend, last>>
    BY DEF SetSeqBatch, SetSeqBatchError, taskVars
  <1>3. done \in SUBSET todo[p]
    BY <1>1
  <1> DEFINE F == /\ send' \in [Users -> Counter] /\ rec' \in [Users -> Counter]
                  /\ \A u \in Users : CounterOK(send'[u]) /\ CounterOK(rec'[u])
                  /\ \A u \in Users \ done : rec'[u] = rec[u]
                  /\ \A u \in done : rec'[u].cur = snap[p][u].rec
                                 /\ rec'[u].max = snap[p][u].rec
                                 /\ rec'[u].max <= pg[u].rec
  <1>4. F
    BY <1>1, <1>3, RestoreFacts
  <1>5. TypeOK'
    BY <1>1, <1>2, <1>4, Zenon DEF IInv, TypeOK, Fault
  <1>6. Shape'
    <2>1. todo[p] \subseteq registered
      BY DEF IInv, Shape
    <2>2. \A u \in Users \ registered : rec'[u] = NoKey
      BY <2>1, <1>3, <1>4 DEF IInv, Shape
    <2>3. \A q \in Procs : todo'[q] \subseteq registered
      BY <1>1 DEF IInv, TypeOK, Shape
    <2> QED BY <1>2, <1>4, <2>2, <2>3 DEF IInv, Shape, registered, CounterOK
  <1>7. (Clean => Restored)'
    <2> SUFFICES ASSUME Clean' PROVE Restored'
      OBVIOUS
    <2>1. Clean /\ done = b
      BY <1>1 DEF Clean, IInv, TypeOK
    <2>2. Restored
      BY <2>1 DEF IInv
    <2>3. \A u \in done : last[u] <= rec'[u].cur
      BY <1>2, <1>3, <1>4, <2>2 DEF Restored
    <2>4. \A u \in Users : last[u] <= rec[u].cur => last[u] <= rec'[u].cur
      BY <1>4, <2>3
    <2>5. loaded' => \A q \in Procs : ~Loading(q)'
      BY <1>1, <1>2, <2>2 DEF IInv, TypeOK, Restored, Loading
    <2>6. ASSUME NEW q \in Procs, pc'[q] = "set"
          PROVE  /\ \A u \in Users \ todo'[q] : last[u] <= rec'[u].cur
                 /\ \A u \in todo'[q] : last[u] <= snap[q][u].rec
      BY <1>1, <1>2, <2>1, <2>2, <2>3, <2>4, <2>6 DEF IInv, TypeOK, Restored
    <2> QED BY <1>2, <2>2, <2>4, <2>5, <2>6 DEF Restored, SomeUp
  <1>8. BoundCoversIssued'
    <2> SUFFICES ASSUME Clean', NEW u \in registered
                 PROVE  rec'[u].max <= Bound(u) /\ last[u] <= Bound(u)
      BY <1>2 DEF BoundCoversIssued, registered, Bound
    <2>1. Clean
      BY <1>1 DEF Clean, IInv, TypeOK
    <2>2. rec[u].max <= Bound(u) /\ last[u] <= Bound(u)
      BY <2>1 DEF IInv, BoundCoversIssued
    <2>3. pg[u].rec <= Bound(u)
      BY SMTT(30), SeqAllocAssumption DEF Bound, registered, IInv, TypeOK, Row
    <2>4. u \in Users /\ pg[u].rec \in Nat /\ Bound(u) \in Nat
      BY SMTT(30), SeqAllocAssumption DEF Bound, registered, IInv, TypeOK, Row
    <2>5. CASE u \in done
      <3>1. rec'[u].max <= pg[u].rec /\ rec'[u].max \in Nat
        BY <2>5, <1>4, <2>4 DEF Counter
      <3> QED BY SMTT(30), <3>1, <2>2, <2>3, <2>4
    <2>6. CASE u \notin done
      BY <2>6, <1>4, <2>2, <2>4
    <2> QED BY <2>5, <2>6
  <1> QED BY <1>5, <1>6, <1>7, <1>8 DEF IInv

\* The flag is set by the only loader, or the race is a fault.
LEMMA LoadedStep ==
    ASSUME IInv, NEW p \in Procs, SetSeqLoaded(p)
    PROVE  IInv'
  <1> USE DEF SetSeqLoaded, taskVars
  <1>1. TypeOK'
    BY DEF IInv, TypeOK, PC, Fault
  <1>2. Shape'
    <2>1. \A q \in Procs : handler = q => pc'[q] = "up"
      BY DEF IInv, TypeOK, Shape
    <2> QED BY <2>1 DEF IInv, Shape, registered, CounterOK
  <1>3. (Clean => Restored)'
    <2> SUFFICES ASSUME Clean' PROVE Restored'
      OBVIOUS
    <2>1. Clean /\ \A q \in Procs \ {p} : ~Loading(q)
      BY DEF Clean
    <2>2. Restored
      BY <2>1 DEF IInv
    <2>3. \A u \in Users : last[u] <= rec[u].cur
      BY <2>2 DEF Restored
    <2>4. \A q \in Procs : ~Loading(q)'
      BY <2>1 DEF Loading, IInv, TypeOK
    <2> QED BY <2>2, <2>3, <2>4 DEF Restored, SomeUp, IInv, TypeOK
  <1>4. BoundCoversIssued'
    BY DEF IInv, BoundCoversIssued, Clean, Bound, registered
  <1> QED BY <1>1, <1>2, <1>3, <1>4 DEF IInv

\* Redis is emptied: every counter is absent, and a clean loss finds no
\* process that has fetched or serves.
LEMMA LossStep ==
    ASSUME IInv, RedisLoss
    PROVE  IInv'
  <1> USE DEF RedisLoss, loadVars, taskVars
  <1>1. TypeOK'
    BY DEF IInv, TypeOK, NoKey, Counter, Fault
  <1>2. Shape'
    BY SMTT(30) DEF IInv, Shape, registered, CounterOK, NoKey
  <1>3. (Clean => Restored)'
    BY DEF Clean, Restored, SomeUp
  <1>4. BoundCoversIssued'
    <2> SUFFICES ASSUME Clean', NEW u \in registered
                 PROVE  rec'[u].max <= Bound(u) /\ last[u] <= Bound(u)
      BY DEF BoundCoversIssued, registered, Bound
    <2>1. Clean
      BY DEF Clean
    <2>2. last[u] <= Bound(u) /\ Bound(u) \in Nat
      BY SMTT(30), <2>1, SeqAllocAssumption
      DEF IInv, BoundCoversIssued, Bound, TypeOK, Row, registered
    <2> QED BY SMTT(30), <2>2 DEF registered, NoKey
  <1> QED BY <1>1, <1>2, <1>3, <1>4 DEF IInv

\* A crash loses only the state of the process, and is a fault if it was
\* about to persist a bound.
LEMMA CrashStep ==
    ASSUME IInv, NEW p \in Procs, Crash(p)
    PROVE  IInv'
  <1> USE DEF Crash, redisVars, taskVars
  <1>1. TypeOK'
    BY DEF IInv, TypeOK, PC, Fault, NoRow, Row
  <1>2. Shape'
    <2>1. \A q \in Procs, u \in Users : snap'[q][u].rec <= pg[u].rec
      BY SMTT(30) DEF IInv, TypeOK, Shape, Row, NoRow
    <2>2. \A q \in Procs : todo'[q] \subseteq registered
      BY DEF IInv, TypeOK, Shape
    <2>3. \A q \in Procs : handler' = q => pc'[q] = "up"
      BY SeqAllocAssumption DEF IInv, TypeOK, Shape
    <2>4. pend' \subseteq registered /\ (handler' = None => pend' = {})
      BY SeqAllocAssumption DEF IInv, Shape
    <2> QED BY <2>1, <2>2, <2>3, <2>4 DEF IInv, Shape, registered, CounterOK
  <1>3. Clean' => Clean /\ pend' = pend
    BY DEF Clean
  <1>4. (Clean => Restored)'
    BY <1>3 DEF IInv, TypeOK, Restored, SomeUp, Loading
  <1>5. BoundCoversIssued'
    BY <1>3 DEF IInv, BoundCoversIssued, Bound, registered
  <1> QED BY <1>1, <1>2, <1>4, <1>5 DEF IInv
-----------------------------------------------------------------------------
(* The steps that register users, issue numbers and persist bounds.        *)

\* The Lua script keeps a counter well formed, adds one, and moves the bound
\* by one step exactly when it reports that the bound was passed.
LEMMA IncrCounter ==
    ASSUME NEW c \in Counter, CounterOK(c)
    PROVE  /\ IncrScript(c, SeqStep) \in Counter
           /\ CounterOK(IncrScript(c, SeqStep))
           /\ IncrScript(c, SeqStep).cur = c.cur + 1
           /\ IncrScript(c, SeqStep).max =
                IF Updated(c, SeqStep)
                THEN KnownMax(c, SeqStep) + SeqStep ELSE KnownMax(c, SeqStep)
  BY SMTT(30), SeqAllocAssumption
  DEF IncrScript, Counter, CounterOK, Updated, KnownMax

\* A new user has no counter yet, and its row admits the first step.
LEMMA CreateStep ==
    ASSUME IInv, NEW w \in Users, CreateUser(w)
    PROVE  IInv'
  <1> USE DEF CreateUser, redisVars, loadVars, taskVars
  <1>1. TypeOK'
    BY SeqAllocAssumption DEF IInv, TypeOK, Row
  <1>2. /\ registered' = registered \cup {w}
        /\ pg'[w].rec = SeqStep
        /\ \A u \in Users \ {w} : pg'[u] = pg[u]
    BY SMTT(30), SeqAllocAssumption DEF IInv, TypeOK, registered
  <1>3. Shape'
    <2>1. \A q \in Procs, u \in Users : snap[q][u].rec <= pg'[u].rec
      <3> SUFFICES ASSUME NEW q \in Procs, NEW u \in Users
                   PROVE  snap[q][u].rec <= pg'[u].rec
        OBVIOUS
      <3>1. snap[q][u].rec <= pg[u].rec /\ snap[q][u].rec \in Nat
        BY SMTT(30) DEF IInv, Shape, TypeOK, Row
      <3>2. u = w => pg[u].rec = 0
        BY SMTT(30) DEF registered, IInv, TypeOK, Row
      <3> QED BY SMTT(30), <1>2, <3>1, <3>2, SeqAllocAssumption
    <2>2. \A u \in registered' : pg'[u].rec >= SeqStep
      BY SMTT(30), <1>2, SeqAllocAssumption DEF IInv, Shape, registered
    <2> QED BY <1>2, <2>1, <2>2 DEF IInv, Shape, CounterOK
  <1>4. (Clean => Restored)'
    BY DEF IInv, Clean, Restored, SomeUp, Loading
  <1>5. BoundCoversIssued'
    <2> SUFFICES ASSUME Clean, NEW u \in registered'
                 PROVE  rec[u].max <= Bound(u)' /\ last[u] <= Bound(u)'
      BY DEF BoundCoversIssued, Clean
    <2>1. CASE u = w
      <3>1. rec[w].max = 0 /\ last[w] = 0 /\ w \notin pend
        BY SMTT(30) DEF IInv, Shape, NoKey
      <3> QED BY SMTT(30), <2>1, <3>1, <1>2, SeqAllocAssumption DEF Bound
    <2>2. CASE u # w
      BY <2>2, <1>2 DEF IInv, BoundCoversIssued, Bound, registered
    <2> QED BY <2>1, <2>2
  <1> QED BY <1>1, <1>3, <1>4, <1>5 DEF IInv

\* Numbering what a user sends touches only the send counter.
LEMMA SendStep ==
    ASSUME IInv, NEW w \in Users, IncrSendSeq(w)
    PROVE  IInv'
  <1> USE DEF IncrSendSeq, loadVars, taskVars
  <1>1. send[w] \in Counter /\ CounterOK(send[w])
    BY DEF IInv, TypeOK, Shape
  <1>2. /\ IncrScript(send[w], SeqStep) \in Counter
        /\ CounterOK(IncrScript(send[w], SeqStep))
    BY <1>1, IncrCounter
  <1>3. TypeOK'
    BY <1>2 DEF IInv, TypeOK
  <1>4. \A u \in Users : CounterOK(send'[u])
    BY <1>2 DEF IInv, TypeOK, Shape
  <1>5. Shape'
    BY <1>4 DEF IInv, Shape, registered, CounterOK
  <1>6. (Clean => Restored)'
    BY DEF IInv, Clean, Restored, SomeUp, Loading
  <1>7. BoundCoversIssued'
    BY DEF IInv, BoundCoversIssued, Clean, Bound, registered
  <1> QED BY <1>3, <1>5, <1>6, <1>7 DEF IInv

\* rec_max_seq + seq_step, for the given users only.
LEMMA AddStepFacts ==
    ASSUME TypeOK, NEW us \in SUBSET Users
    PROVE  /\ AddStep(us) \in [Users -> Row]
           /\ \A u \in us : AddStep(us)[u].rec = pg[u].rec + SeqStep
           /\ \A u \in Users \ us : AddStep(us)[u] = pg[u]
  <1> DEFINE Plus(r) == [r EXCEPT !.rec = @ + SeqStep]
  <1>1. \A r \in Row : Plus(r) \in Row /\ Plus(r).rec = r.rec + SeqStep
    BY SMTT(30), SeqAllocAssumption DEF Row
  <1>2. \A u \in Users : pg[u] \in Row
    BY DEF TypeOK
  <1>3. AddStep(us) = [u \in Users |-> IF u \in us THEN Plus(pg[u]) ELSE pg[u]]
    BY DEF AddStep
  <1> HIDE DEF Plus
  <1> QED BY <1>1, <1>2, <1>3

\* handle_send_seq finds no counter due, so it leaves the bounds alone.
LEMMA NotDue ==
    ASSUME IInv, NEW u \in Users
    PROVE  ~SendSeqDue(u)
  <1>1. send[u].cur \in Nat /\ send[u].max \in Nat /\ CounterOK(send[u])
    BY DEF IInv, TypeOK, Shape, Counter
  <1> QED BY SMTT(30), <1>1, SeqAllocAssumption DEF CounterOK, SendSeqDue

\* The consumer issues one number to every user of `to`; those that passed
\* their bound are left for it to persist.
LEMMA IncreaseStep ==
    ASSUME IInv, NEW p \in Procs, NEW s \in registered,
           NEW to \in SUBSET registered, IncreaseSeq(p, s, to)
    PROVE  IInv'
  <1>1. /\ pc[p] = "up" /\ handler = None /\ pend = {} /\ pg' = pg
        /\ UNCHANGED <<send, loaded, pc, snap, todo, faults>>
    BY NotDue DEF IncreaseSeq, IInv, Shape, loadVars, registered
  <1>2. to \subseteq Users
    BY DEF registered
  <1>3. \A u \in Users : rec[u] \in Counter /\ CounterOK(rec[u])
    BY DEF IInv, TypeOK, Shape
  <1>4. \A u \in Users :
          /\ IncrScript(rec[u], SeqStep) \in Counter
          /\ CounterOK(IncrScript(rec[u], SeqStep))
          /\ IncrScript(rec[u], SeqStep).cur = rec[u].cur + 1
          /\ IncrScript(rec[u], SeqStep).max =
               IF Updated(rec[u], SeqStep)
               THEN KnownMax(rec[u], SeqStep) + SeqStep
               ELSE KnownMax(rec[u], SeqStep)
    BY <1>3, IncrCounter
  <1>5. \A u \in to : /\ rec'[u] = IncrScript(rec[u], SeqStep)
                      /\ last'[u] = rec[u].cur + 1
    BY <1>2 DEF IncreaseSeq
  <1>6. \A u \in Users \ to : rec'[u] = rec[u] /\ last'[u] = last[u]
    BY DEF IncreaseSeq
  <1>7. /\ pend' = {u \in to : Updated(rec[u], SeqStep)}
        /\ handler' = IF pend' = {} THEN None ELSE p
    BY DEF IncreaseSeq
  <1>8. rec' \in [Users -> Counter] /\ last' \in [Users -> Nat]
    <2>1. rec' \in [Users -> Counter]
      BY <1>3, <1>4 DEF IncreaseSeq
    <2>2. \A u \in Users : rec[u].cur + 1 \in Nat /\ last[u] \in Nat
      BY SMTT(30), <1>3 DEF Counter, IInv, TypeOK
    <2> QED BY <2>1, <2>2 DEF IncreaseSeq
  <1>9. TypeOK'
    BY <1>1, <1>2, <1>7, <1>8 DEF IInv, TypeOK
  <1>10. Shape'
    <2>1. \A u \in Users : CounterOK(rec'[u])
      BY <1>3, <1>4, <1>5, <1>6
    <2>2. \A u \in Users \ registered : rec'[u] = NoKey /\ last'[u] = 0
      BY <1>6 DEF IInv, Shape
    <2>3. \A q \in Procs : handler' = q => pc[q] = "up"
      BY <1>1, <1>7, SeqAllocAssumption
    <2>4. pend' \subseteq registered /\ (handler' = None => pend' = {})
      BY <1>7, SeqAllocAssumption
    <2> QED BY <1>1, <2>1, <2>2, <2>3, <2>4
            DEF IInv, Shape, registered, CounterOK
  <1>11. (Clean => Restored)'
    <2> SUFFICES ASSUME Clean PROVE Restored'
      BY <1>1 DEF Clean
    <2>1. Restored /\ loaded /\ \A q \in Procs : ~Loading(q)
      BY <1>1 DEF IInv, Restored, SomeUp
    <2>2. \A u \in Users : last'[u] <= rec'[u].cur
      <3> SUFFICES ASSUME NEW u \in Users PROVE last'[u] <= rec'[u].cur
        OBVIOUS
      <3>1. CASE u \in to
        BY SMTT(30), <3>1, <1>3, <1>4, <1>5 DEF Counter
      <3>2. CASE u \notin to
        BY <3>2, <1>6, <2>1 DEF Restored
      <3> QED BY <3>1, <3>2
    <2> QED BY <1>1, <2>1, <2>2 DEF Restored, SomeUp, Loading
  <1>12. BoundCoversIssued'
    <2> SUFFICES ASSUME Clean, NEW u \in registered
                 PROVE  rec'[u].max <= Bound(u)' /\ last'[u] <= Bound(u)'
      BY <1>1 DEF BoundCoversIssued, Clean, registered
    <2>1. /\ rec[u].max <= pg[u].rec /\ last[u] <= pg[u].rec
          /\ SeqStep <= pg[u].rec /\ pg[u].rec \in Nat /\ u \in Users
      BY SMTT(30), <1>1 DEF IInv, BoundCoversIssued, Bound, Shape, registered, TypeOK, Row
    <2>2. CASE u \in to
      <3>1. KnownMax(rec[u], SeqStep) <= pg[u].rec
        BY <2>1 DEF KnownMax
      <3>2. KnownMax(rec[u], SeqStep) \in Nat
        BY <1>3, <2>1, SeqAllocAssumption DEF KnownMax, Counter
      <3>3. rec'[u].max <= Bound(u)'
        BY SMTT(30), <1>1, <1>4, <1>5, <1>7, <2>1, <2>2, <3>1, <3>2, SeqAllocAssumption
        DEF Bound
      <3>4. last'[u] <= rec'[u].max
        BY <1>4, <1>5, <2>1, <2>2 DEF CounterOK, Counter
      <3> QED BY SMTT(30), <3>3, <3>4, <1>8, <2>1, <1>1, SeqAllocAssumption
              DEF Bound, Counter
    <2>3. CASE u \notin to
      BY SMTT(30), <2>1, <2>3, <1>1, <1>6, <1>7 DEF Bound
    <2> QED BY <2>2, <2>3
  <1> QED BY <1>9, <1>10, <1>11, <1>12 DEF IInv

\* Persisting turns the step that was pending into a step of the bound.
LEMMA SaveStep ==
    ASSUME IInv, NEW p \in Procs, SaveMaxSeq(p)
    PROVE  IInv'
  <1> USE DEF SaveMaxSeq, redisVars, loadVars
  <1>1. /\ pg' \in [Users -> Row]
        /\ \A u \in pend : pg'[u].rec = pg[u].rec + SeqStep
        /\ \A u \in Users \ pend : pg'[u] = pg[u]
    BY AddStepFacts DEF IInv, TypeOK
  <1>2. TypeOK'
    BY <1>1 DEF IInv, TypeOK
  <1>3. \A u \in Users : /\ pg[u].rec \in Nat /\ pg'[u].rec \in Nat
                         /\ pg[u].rec <= pg'[u].rec
                         /\ u \in pend => pg[u].rec > 0
    BY SMTT(30), <1>1, SeqAllocAssumption DEF IInv, TypeOK, Row, Shape, registered
  <1>4. registered' = registered
    BY SMTT(30), <1>1, <1>3 DEF registered
  <1>5. Shape'
    <2>1. \A u \in registered : pg'[u].rec >= SeqStep
      BY SMTT(30), <1>3, SeqAllocAssumption DEF IInv, Shape, registered
    <2>2. \A q \in Procs, u \in Users : snap[q][u].rec <= pg'[u].rec
      BY SMTT(30), <1>3 DEF IInv, Shape, TypeOK, Row
    <2>3. \A q \in Procs : handler' # q
      BY SeqAllocAssumption
    <2> QED BY <1>4, <2>1, <2>2, <2>3 DEF IInv, Shape, CounterOK
  <1>6. (Clean => Restored)'
    BY DEF IInv, Clean, Restored, SomeUp, Loading
  <1>7. \A u \in Users : Bound(u)' = Bound(u)
    BY SMTT(30), <1>1, <1>3, SeqAllocAssumption DEF Bound
  <1>8. BoundCoversIssued'
    BY <1>4, <1>7 DEF IInv, BoundCoversIssued, Clean, registered
  <1> QED BY <1>2, <1>5, <1>6, <1>8 DEF IInv

\* A failed UPDATE is a fault.
LEMMA SaveErrorStep ==
    ASSUME IInv, NEW p \in Procs, SaveMaxSeqError(p)
    PROVE  IInv'
  <1> USE DEF SaveMaxSeqError, redisVars, loadVars
  <1>1. TypeOK'
    BY DEF IInv, TypeOK, Fault
  <1>2. Shape'
    BY SeqAllocAssumption DEF IInv, Shape, registered, CounterOK
  <1>3. ~Clean'
    BY DEF Clean
  <1> QED BY <1>1, <1>2, <1>3 DEF IInv, BoundCoversIssued
-----------------------------------------------------------------------------
(* All steps together, and what follows.                                   *)

\* Every step of the allocation preserves IInv.
LEMMA NextIInv == IInv /\ [Next]_vars => IInv'
  <1> SUFFICES ASSUME IInv, [Next]_vars PROVE IInv'
    OBVIOUS
  <1>1. CASE UNCHANGED vars
    <2> USE <1>1 DEF vars, redisVars, loadVars, taskVars
    <2>1. TypeOK' /\ Shape'
      BY DEF IInv, TypeOK, Shape, registered, CounterOK
    <2>2. (Clean => Restored)'
      BY DEF IInv, Restored, Clean, SomeUp, Loading
    <2>3. BoundCoversIssued'
      BY DEF IInv, BoundCoversIssued, Clean, Bound, registered
    <2> QED BY <2>1, <2>2, <2>3 DEF IInv
  <1>2. ASSUME NEW p \in Procs,
               \/ Start(p) \/ Load(p) \/ CheckSeqLoadedError(p)
               \/ SetSeqBatchError(p) \/ SaveMaxSeq(p) \/ SaveMaxSeqError(p)
               \/ Crash(p)
        PROVE  IInv'
    BY <1>2, StartStep, CheckStep, FetchStep, BatchStep, LoadedStep, SaveStep,
       SaveErrorStep, CrashStep DEF Load
  <1>3. ASSUME NEW p \in Procs, NEW s \in registered,
               NEW to \in SUBSET registered \ {{}}, IncreaseSeq(p, s, to)
        PROVE  IInv'
    BY <1>3, IncreaseStep
  <1>4. ASSUME NEW u \in Users, CreateUser(u) \/ IncrSendSeq(u)
        PROVE  IInv'
    BY <1>4, CreateStep, SendStep
  <1>5. CASE RedisLoss
    BY <1>5, LossStep
  <1> QED BY <1>1, <1>2, <1>3, <1>4, <1>5, Zenon DEF Next

\* IInv holds in every reachable state of the allocation of sequence numbers.
THEOREM Invariance == Spec => []IInv
  BY InitIInv, NextIInv, PTL DEF Spec

\* Every store and process keeps its type.
THEOREM TypeCorrect == Spec => []TypeOK
  <1>1. IInv => TypeOK
    BY DEF IInv
  <1> QED BY Invariance, <1>1, PTL

\* Until a fault, the bound persisted by save_max_seq covers every number that
\* increase_seq and incr_group_seq have issued.
THEOREM BoundSafety == Spec => []BoundCoversIssued
  <1>1. IInv => BoundCoversIssued
    BY DEF IInv
  <1> QED BY Invariance, <1>1, PTL

\* The branch of handle_send_seq that persists is dead.
THEOREM SendCheckDead == Spec => []SendCheckNeverFires
  <1>1. IInv => SendCheckNeverFires
    BY NotDue DEF SendCheckNeverFires
  <1> QED BY Invariance, <1>1, PTL

\* Until a fault, the receive numbers of a user strictly increase, across
\* restarts of the processes and losses of Redis.
THEOREM NumbersIncrease == Spec => RecSeqsIncrease
  <1> DEFINE Inc == \A p \in Procs, s \in Users, to \in SUBSET Users :
                      Clean /\ IncreaseSeq(p, s, to)
                        => \A u \in to : last'[u] > last[u]
  <1>1. IInv => Inc
    <2> SUFFICES ASSUME IInv, NEW p \in Procs, NEW s \in Users,
                        NEW to \in SUBSET Users, Clean, IncreaseSeq(p, s, to),
                        NEW u \in to
                 PROVE  last'[u] > last[u]
      OBVIOUS
    <2>1. last[u] <= rec[u].cur
      BY DEF IInv, Restored, SomeUp, IncreaseSeq
    <2>2. last'[u] = rec[u].cur + 1
      BY DEF IncreaseSeq
    <2>3. rec[u].cur \in Nat /\ last[u] \in Nat
      BY DEF IInv, TypeOK, Counter
    <2> QED BY SMTT(30), <2>1, <2>2, <2>3
  <1>2. IInv /\ [Next]_vars => [Inc]_vars
    BY <1>1
  <1> QED BY Invariance, <1>2, PTL DEF Spec, RecSeqsIncrease
-----------------------------------------------------------------------------
(* load_seq comes to its end.                                              *)

\* A finite set has a part of every smaller size.
LEMMA SomePart ==
    ASSUME NEW S, IsFiniteSet(S), NEW k \in Nat, k <= Cardinality(S)
    PROVE  \E b \in SUBSET S : Cardinality(b) = k
  <1> DEFINE n == Cardinality(S)
  <1>1. n \in Nat /\ ExistsBijection(1..n, S)
    BY FS_CardinalityType
  <1>2. PICK f : f \in Bijection(1..n, S)
    BY <1>1 DEF ExistsBijection
  <1>3. 1..k \subseteq 1..n
    BY SMTT(30), <1>1
  <1> HIDE DEF n
  <1> DEFINE b == {f[i] : i \in 1..k}
             g == [i \in 1..k |-> f[i]]
  <1>4. f \in [1..n -> S] /\ \A i, j \in 1..n : f[i] = f[j] => i = j
    BY <1>2 DEF Bijection, Injection, Surjection, IsInjective
  <1>5. b \in SUBSET S
    BY <1>3, <1>4
  <1>6. g \in Bijection(1..k, b)
    BY <1>3, <1>4 DEF Bijection, Injection, Surjection, IsInjective
  <1>7. IsFiniteSet(1..k) /\ Cardinality(1..k) = k
    BY FS_Interval, SMTT(30)
  <1>8. Cardinality(b) = Cardinality(1..k)
    BY <1>6, <1>7, FS_Bijection DEF ExistsBijection
  <1> QED BY <1>5, <1>7, <1>8

\* The rows of Postgres and what a loader has of them are finitely many.
LEMMA FewUsers ==
    ASSUME IsFiniteSet(Users), IInv, NEW p \in Procs
    PROVE  /\ IsFiniteSet(todo[p]) /\ Cardinality(todo[p]) \in Nat
           /\ Cardinality(Users) \in Nat /\ Cardinality(registered) \in Nat
           /\ Cardinality(registered) <= Cardinality(Users)
  <1>1. todo[p] \in SUBSET Users /\ registered \in SUBSET Users
    BY DEF IInv, TypeOK, registered
  <1> QED BY <1>1, FS_Subset, FS_CardinalityType

\* However the number of rows relates to the size of a batch, load_seq has a
\* batch for set_seq until none is left: it comes to no standstill.
THEOREM LoadersGoOn == ASSUME IsFiniteSet(Users) PROVE Spec => []LoaderGoesOn
  <1>1. IInv => LoaderGoesOn
    <2> SUFFICES ASSUME IInv, NEW p \in Procs, todo[p] # {} PROVE Batches(p) # {}
      BY DEF LoaderGoesOn
    <2>1. CASE BatchSize <= Cardinality(todo[p])
      <3>1. BatchSize \in Nat
        BY SeqAllocAssumption
      <3>2. PICK b \in SUBSET todo[p] : Cardinality(b) = BatchSize
        BY <2>1, <3>1, FewUsers, SomePart
      <3> QED BY <3>2 DEF Batches
    <2>2. CASE Cardinality(todo[p]) < BatchSize
      BY <2>2 DEF Batches
    <2>3. BatchSize <= Cardinality(todo[p]) \/ Cardinality(todo[p]) < BatchSize
      BY SMTT(30), FewUsers, SeqAllocAssumption
    <2> QED BY <2>1, <2>2, <2>3
  <1> QED BY <1>1, Invariance, PTL

\* With no more users than the channel of get_max_seq holds, no loader waits
\* for room in it.
THEOREM ChannelSuffices ==
    ASSUME IsFiniteSet(Users), Cardinality(Users) <= ChanCap
    PROVE  Spec => []NoneStuck
  <1>1. Init => NoneStuck
    BY DEF Init, NoneStuck
  <1>2. ASSUME IInv, NoneStuck, [Next]_vars PROVE NoneStuck'
    <2> SUFFICES ASSUME NEW p \in Procs, pc'[p] = "stuck", pc[p] # "stuck" PROVE FALSE
      BY <1>2 DEF NoneStuck
    <2>1. pc \in [Procs -> PC]
      BY <1>2 DEF IInv, TypeOK
    <2>2. ~ChannelTooSmall
      BY SMTT(30), <1>2, FewUsers, SeqAllocAssumption DEF ChannelTooSmall
    <2>3. ASSUME NEW q \in Procs, NEW v, v # "stuck", pc' = [pc EXCEPT ![q] = v] PROVE FALSE
      BY <2>1, <2>3
    <2>4. ASSUME NEW q \in Procs,
                 \/ Start(q) \/ Load(q) \/ CheckSeqLoadedError(q) \/ Crash(q)
          PROVE  FALSE
      BY <2>2, <2>3, <2>4
         DEF Start, Load, CheckSeqLoaded, CheckSeqLoadedError, GetMaxSeq, SetSeqBatch,
             SetSeqLoaded, Crash
    <2> QED
      BY <1>2, <2>4 DEF Next, SetSeqBatchError, SaveMaxSeq, SaveMaxSeqError,
         IncreaseSeq, CreateUser, IncrSendSeq, RedisLoss, loadVars, vars
  <1> QED BY <1>1, <1>2, Invariance, PTL DEF Spec

\* A batch leaves less to do.
LEMMA BatchTakes ==
    ASSUME IsFiniteSet(Users), IInv, NEW p \in Procs, NEW b \in Batches(p)
    PROVE  /\ Cardinality(todo[p] \ b) \in Nat
           /\ Cardinality(todo[p] \ b) < Cardinality(todo[p])
  <1>1. b \subseteq todo[p] /\ b # {}
    <2>1. BatchSize # 0 /\ Cardinality({}) = 0
      BY SeqAllocAssumption, FS_EmptySet
    <2> QED BY <2>1 DEF Batches
  <1>2. PICK u \in b : TRUE
    BY <1>1
  <1>3. IsFiniteSet(todo[p] \ {u}) /\ Cardinality(todo[p] \ {u}) = Cardinality(todo[p]) - 1
    BY <1>1, <1>2, FewUsers, FS_RemoveElement
  <1>4. todo[p] \ b \in SUBSET (todo[p] \ {u})
    BY <1>1, <1>2
  <1>5. IsFiniteSet(todo[p] \ b) /\ Cardinality(todo[p] \ b) <= Cardinality(todo[p] \ {u})
    BY <1>3, <1>4, FS_Subset
  <1>6. Cardinality(todo[p] \ b) \in Nat /\ Cardinality(todo[p]) \in Nat
    BY <1>5, FewUsers, FS_CardinalityType
  <1> QED BY SMTT(30), <1>3, <1>5, <1>6

\* A loader is sent back by nothing but the crash of its own process, and each
\* of its steps brings it nearer to the end of load_seq, an error of check or of
\* set_seq included.  With LoadersGoOn and ChannelSuffices, LoadTerminates
\* needs only that the loader takes its steps.
THEOREM LoadsGoForward == ASSUME IsFiniteSet(Users) PROVE Spec => LoadGoesForward
  <1> DEFINE Forward(p) ==
               \/ UNCHANGED <<pc[p], todo[p]>>
               \/ LoadLeft(p)' < LoadLeft(p)
               \/ pc'[p] = "down"
  <1>1. ASSUME IInv, Next, NEW p \in Procs, pc[p] \in {"check", "fetch", "set"}
        PROVE  Forward(p)
    <2>1. /\ pc \in [Procs -> PC] /\ todo \in [Procs -> SUBSET Users]
          /\ Cardinality(Users) \in Nat /\ Cardinality(todo[p]) \in Nat
      BY <1>1, FewUsers DEF IInv, TypeOK
    <2>2. ASSUME NEW q \in Procs, q # p, NEW v, NEW w,
                 pc' = [pc EXCEPT ![q] = v] \/ pc' = pc,
                 todo' = [todo EXCEPT ![q] = w] \/ todo' = todo
          PROVE  Forward(p)
      BY <2>1, <2>2
    <2>3. CASE UNCHANGED <<pc, todo>>
      BY <2>3
    <2>4. CASE CheckSeqLoaded(p) \/ CheckSeqLoadedError(p)
      <3>1. pc[p] = "check" /\ pc'[p] \in {"up", "fetch"}
        BY <2>1, <2>4 DEF CheckSeqLoaded, CheckSeqLoadedError
      <3> QED BY SMTT(30), <2>1, <3>1 DEF LoadLeft
    <2>5. CASE GetMaxSeq(p)
      <3>1. pc[p] = "fetch" /\ pc'[p] \in {"stuck", "set"} /\ todo'[p] = registered
        BY <2>1, <2>5 DEF GetMaxSeq
      <3>2. Cardinality(todo'[p]) \in Nat /\ Cardinality(todo'[p]) <= Cardinality(Users)
        BY <1>1, <3>1, FewUsers
      <3> QED BY SMTT(30), <2>1, <3>1, <3>2 DEF LoadLeft
    <2>6. CASE SetSeqBatch(p) \/ SetSeqBatchError(p)
      <3>1. PICK b \in Batches(p) : todo' = [todo EXCEPT ![p] = @ \ b]
        BY <2>6 DEF SetSeqBatch, SetSeqBatchError
      <3>2. pc[p] = "set" /\ pc'[p] = "set" /\ todo'[p] = todo[p] \ b
        BY <2>1, <2>6, <3>1 DEF SetSeqBatch, SetSeqBatchError
      <3>3. /\ Cardinality(todo'[p]) \in Nat
            /\ Cardinality(todo'[p]) < Cardinality(todo[p])
        BY <1>1, <3>2, BatchTakes
      <3> QED BY SMTT(30), <2>1, <3>2, <3>3 DEF LoadLeft
    <2>7. CASE SetSeqLoaded(p)
      <3>1. pc[p] = "set" /\ pc'[p] = "up"
        BY <2>1, <2>7 DEF SetSeqLoaded
      <3> QED BY SMTT(30), <2>1, <3>1 DEF LoadLeft
    <2>8. CASE Crash(p)
      BY <2>1, <2>8 DEF Crash
    <2>9. ~Start(p)
      BY <1>1 DEF Start
    <2>10. ASSUME NEW q \in Procs, q # p,
                  \/ Start(q) \/ Load(q) \/ CheckSeqLoadedError(q)
                  \/ SetSeqBatchError(q) \/ Crash(q)
           PROVE  Forward(p)
      <3> HIDE DEF Forward
      <3> QED BY <2>2, <2>10
           DEF Start, Load, CheckSeqLoaded, CheckSeqLoadedError, GetMaxSeq, SetSeqBatch,
               SetSeqBatchError, SetSeqLoaded, Crash
    <2>11. \/ UNCHANGED <<pc, todo>>
           \/ \E q \in Procs : \/ Start(q) \/ Load(q) \/ CheckSeqLoadedError(q)
                               \/ SetSeqBatchError(q) \/ Crash(q)
      BY <1>1 DEF Next, SaveMaxSeq, SaveMaxSeqError, IncreaseSeq, CreateUser, IncrSendSeq,
         RedisLoss, loadVars
    <2> HIDE DEF Forward
    <2> QED
      BY <2>3, <2>4, <2>5, <2>6, <2>7, <2>8, <2>9, <2>10, <2>11 DEF Load
  <1> DEFINE All == \A p \in Procs : pc[p] \in {"check", "fetch", "set"} => Forward(p)
  <1>2. IInv /\ [Next]_vars => [All]_vars
    BY <1>1
  <1> QED BY <1>2, Invariance, PTL DEF Spec, LoadGoesForward
=============================================================================
