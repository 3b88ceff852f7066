------------------------------ MODULE SeqAlloc ------------------------------
(***************************************************************************)
(* Allocation of message sequence numbers.                                 *)
(*                                                                         *)
(* The current numbers live in Redis; Postgres (table `sequence`) keeps    *)
(* only an upper bound that is advanced by SeqStep whenever a counter      *)
(* passes it.  When Redis has lost its data, the next process to start     *)
(* copies the bounds back (cmd/src/load_seq.rs), so that numbers continue  *)
(* above everything issued before.  The actors are the processes, each of  *)
(* which runs load_seq before it serves, the API and gateway that issue    *)
(* send numbers, and the consumer that issues receive numbers and persists *)
(* the bound.  The topic has one partition (productor.rs), so at most one  *)
(* process handles a message at a time.                                    *)
(***************************************************************************)
EXTENDS Integers, FiniteSets, RedisSeq

CONSTANTS Users,      \* user ids
          Procs,      \* server processes: api, ws, message server, or all
          None,       \* no process
          SeqStep,    \* config.redis.seq_step
          ChanCap,    \* capacity of the get_max_seq channel (1024)
          BatchSize,  \* users per set_seq call in load_seq (50)
          MaxSeq      \* bound of the model: no number is issued above it

ASSUME SeqAllocAssumption ==
    /\ SeqStep \in Nat \ {0}
    /\ ChanCap \in Nat
    /\ BatchSize \in Nat \ {0}
    /\ MaxSeq \in Nat
    /\ None \notin Procs

VARIABLES
    pg,       \* the table `sequence`: [send |-> send_max_seq, rec |-> rec_max_seq]
    send,     \* Redis "send_seq:<user>"
    rec,      \* Redis "seq:<user>"
    loaded,   \* Redis flag IS_LOADED
    pc,       \* where each process is in main
    snap,     \* the rows a loader has read from Postgres
    todo,     \* the users of snap a loader has not handed to set_seq yet
    handler,  \* the process whose consumer is between increase and persist
    pend,     \* the users whose bound it has yet to persist
    last,     \* history: the last receive number issued to each user
    faults    \* history: the kinds of fault that have happened

redisVars == <<send, rec, loaded>>
loadVars  == <<pc, snap, todo>>
taskVars  == <<handler, pend>>
vars == <<pg, redisVars, loadVars, taskVars, last, faults>>

Row == [send : Nat, rec : Nat]
NoRow == [send |-> 0, rec |-> 0]
Fault == {"persist", "set", "race", "recheck", "flush"}
PC == {"down", "check", "fetch", "stuck", "set", "up"}

registered == {u \in Users : pg[u].rec > 0}

\* A loader that may still overwrite counters.
Loading(p) == pc[p] = "fetch" \/ (pc[p] = "set" /\ todo[p] # {})

TypeOK ==
    /\ pg \in [Users -> Row]
    /\ send \in [Users -> Counter]
    /\ rec \in [Users -> Counter]
    /\ loaded \in BOOLEAN
    /\ pc \in [Procs -> PC]
    /\ snap \in [Procs -> [Users -> Row]]
    /\ todo \in [Procs -> SUBSET Users]
    /\ handler \in Procs \cup {None}
    /\ pend \in SUBSET Users
    /\ last \in [Users -> Nat]
    /\ faults \in SUBSET Fault

Init ==
    /\ pg = [u \in Users |-> NoRow]
    /\ send = [u \in Users |-> NoKey]
    /\ rec = [u \in Users |-> NoKey]
    /\ loaded = FALSE
    /\ pc = [p \in Procs |-> "down"]
    /\ snap = [p \in Procs |-> [u \in Users |-> NoRow]]
    /\ todo = [p \in Procs |-> {}]
    /\ handler = None
    /\ pend = {}
    /\ last = [u \in Users |-> 0]
    /\ faults = {}
-----------------------------------------------------------------------------
(* Starting a process: main calls load_seq before any server.              *)

Start(p) ==
    /\ pc[p] = "down"
    /\ pc' = [pc EXCEPT ![p] = "check"]
    /\ UNCHANGED <<pg, redisVars, snap, todo, taskVars, last, faults>>

CheckSeqLoaded(p) ==
    /\ pc[p] = "check"
    /\ pc' = [pc EXCEPT ![p] = IF loaded THEN "up" ELSE "fetch"]
    /\ UNCHANGED <<pg, redisVars, snap, todo, taskVars, last, faults>>

\* A failed GET of the flag is answered like an absent flag: load again.
CheckSeqLoadedError(p) ==
    /\ pc[p] = "check"
    /\ pc' = [pc EXCEPT ![p] = "fetch"]
    /\ faults' = IF loaded THEN faults \cup {"recheck"} ELSE faults
    /\ UNCHANGED <<pg, redisVars, snap, todo, taskVars, last>>

\* Mutant: a channel that takes one row fewer.
ChannelTooSmallByOne == Cardinality(registered) >= ChanCap

\* More rows than the channel of get_max_seq holds.
ChannelTooSmall == Cardinality(registered) > ChanCap

\* get_max_seq sends every row into a bounded channel before it returns the
\* receiver: with more rows than the channel holds it waits for ever.
GetMaxSeq(p) ==
    /\ pc[p] = "fetch"
    /\ pc' = [pc EXCEPT ![p] =
                IF ChannelTooSmall THEN "stuck" ELSE "set"]
    /\ snap' = [snap EXCEPT ![p] = pg]
    /\ todo' = [todo EXCEPT ![p] = registered]
    /\ UNCHANGED <<pg, redisVars, taskVars, last, faults>>

\* The batches load_seq may pass to set_seq next: full ones, then the rest.
Batches(p) ==
    {b \in SUBSET todo[p] :
        \/ Cardinality(b) = BatchSize
        \/ b = todo[p] /\ b # {} /\ Cardinality(b) < BatchSize}

\* Both counters of the given users become what the loader has read.
Restore(p, us) ==
    /\ send' = [u \in Users |->
                  IF u \in us THEN SetSeq(snap[p][u].send) ELSE send[u]]
    /\ rec' = [u \in Users |->
                 IF u \in us THEN SetSeq(snap[p][u].rec) ELSE rec[u]]

SetSeqBatch(p) ==
    /\ pc[p] = "set"
    /\ \E b \in Batches(p) :
        /\ Restore(p, b)
        /\ todo' = [todo EXCEPT ![p] = @ \ b]
    /\ UNCHANGED <<pg, loaded, pc, snap, taskVars, last, faults>>

\* An error of set_seq is logged and the batch dropped; loading goes on.  The
\* pipeline is not a transaction: some users of the batch may have been set.
SetSeqBatchError(p) ==
    /\ pc[p] = "set"
    /\ \E b \in Batches(p) : \E done \in SUBSET b :
        /\ Restore(p, done)
        /\ todo' = [todo EXCEPT ![p] = @ \ b]
    /\ faults' = faults \cup {"set"}
    /\ UNCHANGED <<pg, loaded, pc, snap, taskVars, last>>

SetSeqLoaded(p) ==
    /\ pc[p] = "set"
    /\ todo[p] = {}
    /\ loaded' = TRUE
    /\ pc' = [pc EXCEPT ![p] = "up"]
    /\ faults' = IF \E q \in Procs \ {p} : Loading(q)
                 THEN faults \cup {"race"} ELSE faults
    /\ UNCHANGED <<pg, send, rec, snap, todo, taskVars, last>>
-----------------------------------------------------------------------------
(* Serving.                                                                *)

SomeUp == \E p \in Procs : pc[p] = "up"

\* PostgresUser::create_user inserts the row with init_max_seq = seq_step.
CreateUser(u) ==
    /\ SomeUp
    /\ u \notin registered
    /\ pg' = [pg EXCEPT ![u] = [send |-> SeqStep, rec |-> SeqStep]]
    /\ UNCHANGED <<redisVars, loadVars, taskVars, last, faults>>

\* The gateway (process_message) and the API handlers number what a user sends.
IncrSendSeq(u) ==
    /\ SomeUp
    /\ u \in registered
    /\ send[u].cur < MaxSeq
    /\ send' = [send EXCEPT ![u] = IncrScript(@, SeqStep)]
    /\ UNCHANGED <<pg, rec, loaded, loadVars, taskVars, last, faults>>

\* Mutant: due at the bound itself, one message before it is passed.
SendSeqDueAtMax(u) == send[u].max > 0 /\ send[u].cur = send[u].max

\* The condition under which handle_send_seq persists.
SendSeqDue(u) == send[u].cur = send[u].max - SeqStep

\* Mutant: the UPDATE matches no row.
AddStepNowhere(us) == pg

\* rec_max_seq = rec_max_seq + seq_step for the given users.
AddStep(us) == [u \in Users |->
                  IF u \in us THEN [pg[u] EXCEPT !.rec = @ + SeqStep] ELSE pg[u]]

\* The consumer handles a message from `sender` that needs a number for every
\* user of `to` (the receiver, or the members of a group): handle_send_seq,
\* then increase_seq or incr_group_seq.
IncreaseSeq(p, sender, to) ==
    /\ pc[p] = "up"
    /\ handler = None
    /\ \A u \in to : rec[u].cur < MaxSeq /\ pg[u].rec <= MaxSeq
    /\ pg' = IF SendSeqDue(sender) THEN AddStep({sender}) ELSE pg
    /\ rec' = [u \in Users |->
                 IF u \in to THEN IncrScript(rec[u], SeqStep) ELSE rec[u]]
    /\ last' = [u \in Users |-> IF u \in to THEN rec[u].cur + 1 ELSE last[u]]
    /\ pend' = {u \in to : Updated(rec[u], SeqStep)}
    /\ handler' = IF pend' = {} THEN None ELSE p
    /\ UNCHANGED <<send, loaded, loadVars, faults>>

\* save_max_seq after increase_seq, save_max_seq_batch after incr_group_seq.
SaveMaxSeq(p) ==
    /\ handler = p
    /\ pg' = AddStep(pend)
    /\ handler' = None
    /\ pend' = {}
    /\ UNCHANGED <<redisVars, loadVars, last, faults>>

\* The UPDATE fails: handle_msg returns or logs the error and never retries.
SaveMaxSeqError(p) ==
    /\ handler = p
    /\ handler' = None
    /\ pend' = {}
    /\ faults' = faults \cup {"persist"}
    /\ UNCHANGED <<pg, redisVars, loadVars, last>>
-----------------------------------------------------------------------------
(* Failures.                                                               *)

Crash(p) ==
    /\ pc[p] # "down"
    /\ pc' = [pc EXCEPT ![p] = "down"]
    /\ todo' = [todo EXCEPT ![p] = {}]
    /\ snap' = [snap EXCEPT ![p] = [u \in Users |-> NoRow]]
    /\ IF handler = p
       THEN /\ handler' = None
            /\ pend' = {}
            /\ faults' = faults \cup {"persist"}
       ELSE UNCHANGED <<taskVars, faults>>
    /\ UNCHANGED <<pg, redisVars, last>>

\* Redis comes back empty.  Only load_seq restores the counters, and only
\* when a process starts: losing them under a running process is a fault.
RedisLoss ==
    /\ loaded \/ \E u \in Users : rec[u] # NoKey \/ send[u] # NoKey
    /\ send' = [u \in Users |-> NoKey]
    /\ rec' = [u \in Users |-> NoKey]
    /\ loaded' = FALSE
    /\ faults' = IF \E p \in Procs : pc[p] \in {"set", "up"}
                 THEN faults \cup {"flush"} ELSE faults
    /\ UNCHANGED <<pg, loadVars, taskVars, last>>
-----------------------------------------------------------------------------
Load(p) ==
    \/ CheckSeqLoaded(p)
    \/ GetMaxSeq(p)
    \/ SetSeqBatch(p)
    \/ SetSeqLoaded(p)

Next ==
    \/ \E p \in Procs :
        \/ Start(p)
        \/ Load(p)
        \/ CheckSeqLoadedError(p)
        \/ SetSeqBatchError(p)
        \/ SaveMaxSeq(p)
        \/ SaveMaxSeqError(p)
        \/ Crash(p)
        \/ \E sender \in registered, to \in SUBSET registered \ {{}} :
              IncreaseSeq(p, sender, to)
    \/ \E u \in Users : CreateUser(u) \/ IncrSendSeq(u)
    \/ RedisLoss

Spec == Init /\ [][Next]_vars

\* load_seq runs to its end in a process that does not crash: tokio keeps
\* polling main, and the Redis and Postgres calls are answered.
FairSpec == Spec /\ \A p \in Procs : WF_vars(Load(p))
-----------------------------------------------------------------------------
(* Properties.                                                             *)

\* Nothing that the design does not recover from has happened: no bound was
\* left unpersisted, no batch of load_seq was dropped, no two processes were
\* loading and serving at once, and Redis was not emptied under a process.
Clean == faults = {}

\* The persisted bound, with the step the consumer is about to add to it.
Bound(u) == pg[u].rec + (IF u \in pend THEN SeqStep ELSE 0)

\* The bound in Postgres is never behind the counter in Redis, except for the
\* one step the consumer is about to persist (consumer.rs, save_max_seq after
\* increase_seq): everything issued is at most the value load_seq would restore.
BoundCoversIssued ==
    Clean => \A u \in registered : rec[u].max <= Bound(u) /\ last[u] <= Bound(u)

\* handle_send_seq never persists anything: whatever the interleaving of
\* loading and sending, and whatever has failed, the counter is never exactly
\* one step below its bound.
\* Were it to fire, it would advance the receive column of the sender.
SendCheckNeverFires == \A u \in Users : ~SendSeqDue(u)

\* The consumer never gives a user a number it has given that user before or
\* one below it, across restarts of the processes and losses of Redis, as long
\* as nothing that Clean rules out has happened.
RecSeqsIncrease ==
    [][\A p \in Procs, s \in Users, to \in SUBSET Users :
         Clean /\ IncreaseSeq(p, s, to) => \A u \in to : last'[u] > last[u]]_vars

\* A process that begins load_seq finishes it (or crashes): it waits neither
\* for another loader nor for the channel of get_max_seq, as long as the
\* channel has room for every user.
LoadTerminates ==
    \A p \in Procs : pc[p] = "check" ~> pc[p] \in {"up", "down"}
-----------------------------------------------------------------------------
(* The inductive invariant behind BoundCoversIssued and RecSeqsIncrease.   *)

\* A present counter is within one step below its bound.
CounterOK(c) == c.cur <= c.max /\ (c.max = 0 \/ c.max - SeqStep < c.cur)

\* What holds whatever faults have happened.
Shape ==
    /\ \A u \in Users : CounterOK(send[u]) /\ CounterOK(rec[u])
    /\ \A u \in registered : pg[u].rec >= SeqStep
    /\ \A u \in Users \ registered : rec[u] = NoKey /\ last[u] = 0
    /\ pend \subseteq registered
    /\ handler = None => pend = {}
    /\ \A p \in Procs : handler = p => pc[p] = "up"
    /\ \A p \in Procs : todo[p] \subseteq registered
    /\ \A p \in Procs, u \in Users : snap[p][u].rec <= pg[u].rec

\* Numbers are issued only when everything is loaded, and a loader has read a
\* bound above every number issued to a user it has yet to restore.
Restored ==
    /\ SomeUp => loaded
    /\ loaded => \A p \in Procs : ~Loading(p)
    /\ loaded => \A u \in Users : last[u] <= rec[u].cur
    /\ \A p \in Procs : pc[p] = "set" =>
         /\ \A u \in Users \ todo[p] : last[u] <= rec[u].cur
         /\ \A u \in todo[p] : last[u] <= snap[p][u].rec

IInv == TypeOK /\ Shape /\ (Clean => Restored) /\ BoundCoversIssued
-----------------------------------------------------------------------------
(* What LoadTerminates rests on.                                           *)

\* A loader that is not at its end has a step of load_seq to take: the batches
\* come out even, whatever the number of rows and of users per batch.
LoaderGoesOn ==
    \A p \in Procs : pc[p] = "set" => todo[p] = {} \/ Batches(p) # {}

\* The channel of get_max_seq is never full.
NoneStuck == \A p \in Procs : pc[p] # "stuck"

\* How far a process is from the end of load_seq.
LoadLeft(p) ==
    CASE pc[p] = "check" -> Cardinality(Users) + 3
      [] pc[p] = "fetch" -> Cardinality(Users) + 2
      [] pc[p] = "set"   -> Cardinality(todo[p]) + 1
      [] OTHER           -> 0

\* Nothing sends a loader back, neither another process nor the loss of Redis:
\* it stays, it comes nearer to its end, or its process crashes.
LoadGoesForward ==
    [][\A p \in Procs : pc[p] \in {"check", "fetch", "set"} =>
         \/ UNCHANGED <<pc[p], todo[p]>>
         \/ LoadLeft(p)' < LoadLeft(p)
         \/ pc'[p] = "down"]_vars
=============================================================================
