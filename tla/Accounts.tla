------------------------------- MODULE Accounts -------------------------------
(***************************************************************************)
(* Accounts (api/src/handlers/users): mailed codes, registration with a    *)
(* code, the import of a GitHub user, login and logout.                    *)
(*                                                                         *)
(* The codes are the fields, by address, of one Redis hash, and it is the  *)
(* hash that expires: every save sets the time of all of them anew.  The   *)
(* save is a task of its own, two commands without a transaction.  A       *)
(* handler goes from store to store while others do the same.  Passwords   *)
(* and profiles are left out; a code is the number of its mail.            *)
(***************************************************************************)
EXTENDS Integers, Sequences, FiniteSets

CONSTANTS Emails, Handlers,  \* requests served at the same time
          Ttl,               \* REGISTER_CODE_EXPIRE
          MaxMail,           \* bound of the model: codes mailed
          MaxReq             \* bound of the model: requests that get past a check

ASSUME AccountsAssumption ==
    Ttl \in Nat \ {0} /\ MaxMail \in Nat /\ MaxReq \in Nat /\ IsFiniteSet(Handlers)

VARIABLES
    mail,      \* the addresses of the mailed codes, in their order
    saves,     \* the tasks that save a code, with their next command
    code,      \* Redis: the hash, 0 for no field
    left,      \* Redis: its time to live, 0 for none
    req,       \* the handlers
    served,
    accounts,  \* Postgres: table users, in the order of the rows
    online,    \* Redis: the set of users online
    kept,      \* history: for how long a code is promised to be there yet
    spent      \* history: codes whose registration has ended

redis == <<code, left, kept>>
vars == <<mail, saves, redis, req, served, accounts, online, spent>>

Codes == 1..MaxMail
Idle == [pc |-> "idle"]
Request ==
    [pc : {"create", "delete"}, k : Codes] \cup [pc : {"import"}, e : Emails]
      \cup [pc : {"token"}, id : 1..MaxReq]

TypeOK ==
    /\ mail \in Seq(Emails) /\ Len(mail) <= MaxMail
    /\ saves \subseteq [k : Codes, pc : {"hset", "expire"}]
    /\ code \in [Emails -> 0..MaxMail] /\ left \in 0..Ttl
    /\ req \in [Handlers -> Request \cup {Idle}]
    /\ served \in 0..MaxReq
    /\ accounts \in Seq([e : Emails, by : 0..MaxMail]) /\ Len(accounts) <= served
    /\ online \subseteq DOMAIN accounts
    /\ kept \in [Codes -> 0..Ttl] /\ spent \subseteq Codes

Empty == [e \in Emails |-> 0]

Init ==
    /\ mail = <<>> /\ saves = {} /\ code = Empty /\ left = 0
    /\ req = [h \in Handlers |-> Idle] /\ served = 0
    /\ accounts = <<>> /\ online = {}
    /\ kept = [k \in Codes |-> 0] /\ spent = {}

\* The field of an address changes: nothing is promised of its codes.
Changed(e) == [k \in Codes |-> IF k <= Len(mail) /\ mail[k] = e THEN 0 ELSE kept[k]]
-----------------------------------------------------------------------------
(* send_email and save_register_code.                                      *)

\* The mail is out; the save is spawned.
SendEmail(e) ==
    /\ Len(mail) < MaxMail
    /\ mail' = Append(mail, e)
    /\ saves' = saves \cup {[k |-> Len(mail) + 1, pc |-> "hset"]}
    /\ UNCHANGED <<redis, req, served, accounts, online, spent>>

\* Mutant: the command clears the time to live, as SET does.
LeftCleared == 0

\* HSET keeps the time to live of the hash.
LeftAfterHset == left

SaveHset(k) ==
    /\ [k |-> k, pc |-> "hset"] \in saves
    /\ saves' = (saves \ {[k |-> k, pc |-> "hset"]}) \cup {[k |-> k, pc |-> "expire"]}
    /\ code' = [code EXCEPT ![mail[k]] = k]
    /\ left' = LeftAfterHset /\ kept' = Changed(mail[k])
    /\ UNCHANGED <<mail, req, served, accounts, online, spent>>

\* Mutant: only a hash without a time to live gets one (EXPIRE NX).
ExpireNew == IF left = 0 THEN Ttl ELSE left

\* EXPIRE, of a hash that is there.
Expire == Ttl

SaveExpire(k) ==
    /\ [k |-> k, pc |-> "expire"] \in saves
    /\ saves' = saves \ {[k |-> k, pc |-> "expire"]}
    /\ left' = IF code = Empty THEN 0 ELSE Expire
    /\ kept' = IF code[mail[k]] = k THEN [kept EXCEPT ![k] = Ttl] ELSE kept
    /\ UNCHANGED <<mail, code, req, served, accounts, online, spent>>

\* The connection fails, before a command or between the two.
SaveFails ==
    /\ \E s \in saves : saves' = saves \ {s}
    /\ UNCHANGED <<mail, redis, req, served, accounts, online, spent>>

\* Redis counts down and drops the hash.
Tick ==
    /\ left > 0 /\ left' = left - 1
    /\ code' = IF left = 1 THEN Empty ELSE code
    /\ kept' = [k \in Codes |-> IF kept[k] > 0 THEN kept[k] - 1 ELSE 0]
    /\ UNCHANGED <<mail, saves, req, served, accounts, online, spent>>
-----------------------------------------------------------------------------
(* create_user: a registration with the code k, from its mail.             *)

Goes(h, r) == req' = [req EXCEPT ![h] = r]

Starts(h, r) ==
    /\ req[h] = Idle /\ served < MaxReq
    /\ Goes(h, r) /\ served' = served + 1

\* get_register_code; another code, or none, ends the request.
Register(h, k) ==
    /\ k <= Len(mail) /\ code[mail[k]] = k
    /\ Starts(h, [pc |-> "create", k |-> k])
    /\ UNCHANGED <<mail, saves, redis, accounts, online, spent>>

Inserted(e, by) == Append(accounts, [e |-> e, by |-> by])

\* The INSERT: the address may occur in other rows.
CreateUser(h) ==
    /\ req[h].pc = "create"
    /\ accounts' = Inserted(mail[req[h].k], req[h].k)
    /\ Goes(h, [req[h] EXCEPT !.pc = "delete"])
    /\ UNCHANGED <<mail, saves, redis, served, online, spent>>

\* Mutant: the code is left in the hash.
HdelNothing(e) == code

\* HDEL of the address, whichever code it has by now.
Hdel(e) == [code EXCEPT ![e] = 0]

\* del_register_code.  A hash without fields is gone, with its time to live.
DelRegisterCode(h) ==
    /\ req[h].pc = "delete" /\ Goes(h, Idle)
    /\ code' = Hdel(mail[req[h].k])
    /\ left' = IF code' = Empty THEN 0 ELSE left
    /\ kept' = Changed(mail[req[h].k])
    /\ spent' = spent \cup {req[h].k}
    /\ UNCHANGED <<mail, saves, served, accounts, online>>
-----------------------------------------------------------------------------
(* github_callback, login, gen_token and logout.                           *)

\* Mutant: only accounts that registered with a code are found.
RegisteredByEmail(e) == {i \in DOMAIN accounts : accounts[i].e = e /\ accounts[i].by > 0}

\* get_user_by_email returns one of these.
UsersByEmail(e) == {i \in DOMAIN accounts : accounts[i].e = e}

GithubCallback(h, e) ==
    /\ \/ \E i \in UsersByEmail(e) : Starts(h, [pc |-> "token", id |-> i])
       \/ UsersByEmail(e) = {} /\ Starts(h, [pc |-> "import", e |-> e])
    /\ UNCHANGED <<mail, saves, redis, accounts, online, spent>>

\* register_user, after GitHub has answered and the avatar is stored.
RegisterUser(h) ==
    /\ req[h].pc = "import"
    /\ accounts' = Inserted(req[h].e, 0)
    /\ Goes(h, [pc |-> "token", id |-> Len(accounts')])
    /\ UNCHANGED <<mail, saves, redis, served, online, spent>>

\* verify_pwd: the empty password of an imported account does not parse.
VerifyPwd(i) == i \in DOMAIN accounts /\ accounts[i].by > 0

Login(h, i) ==
    /\ VerifyPwd(i)
    /\ Starts(h, [pc |-> "token", id |-> i])
    /\ UNCHANGED <<mail, saves, redis, accounts, online, spent>>

\* gen_token: online, also if no gateway is found for the answer.
GenToken(h) ==
    /\ req[h].pc = "token" /\ Goes(h, Idle)
    /\ online' = online \cup {req[h].id}
    /\ UNCHANGED <<mail, saves, redis, served, accounts, spent>>

Logout(i) ==
    /\ i \in DOMAIN accounts /\ online' = online \ {i}
    /\ UNCHANGED <<mail, saves, redis, req, served, accounts, spent>>

\* A store fails: the handler returns the error.
RequestFails(h) ==
    /\ req[h] # Idle /\ Goes(h, Idle)
    /\ UNCHANGED <<mail, saves, redis, served, accounts, online, spent>>
-----------------------------------------------------------------------------
Saves == \/ \E k \in Codes : SaveHset(k) \/ SaveExpire(k)
         \/ SaveFails

\* No save and no request is in progress.
Waits == saves = {} /\ (\A h \in Handlers : req[h] = Idle) /\ UNCHANGED vars

Next ==
    \/ \E e \in Emails : SendEmail(e)
    \/ Saves \/ Tick \/ Waits
    \/ \E h \in Handlers :
          \/ \E k \in Codes : Register(h, k)
          \/ CreateUser(h) \/ DelRegisterCode(h)
          \/ \E e \in Emails : GithubCallback(h, e)
          \/ RegisterUser(h) \/ GenToken(h) \/ RequestFails(h)
          \/ \E i \in 1..MaxReq : Login(h, i)
    \/ \E i \in 1..MaxReq : Logout(i)

Spec == Init /\ [][Next]_vars

\* Time passes in Redis.
FairSpec == Spec /\ WF_vars(Tick)
-----------------------------------------------------------------------------
(* Properties.                                                             *)

\* A mailed code can be used for the full time from the end of its save,
\* whenever the codes of other addresses, in the same hash, were saved or
\* used: unless its own address got a newer code or ended a registration.
CodeUsable == \A k \in Codes : kept[k] > 0 => code[mail[k]] = k

\* A code whose registration has ended is not accepted again: no save that is
\* late brings it back.
SpentStaysSpent == \A e \in Emails : code[e] \notin spent

\* The rows of an address that came from GitHub.
Imported(e) == {i \in DOMAIN accounts : accounts[i] = [e |-> e, by |-> 0]}

\* GitHub logins do not multiply accounts: an address is imported at most as
\* often as callbacks looked it up at the same time, before any of them
\* inserted it.
ImportsBounded == \A e \in Emails : Cardinality(Imported(e)) <= Cardinality(Handlers)

\* Codes that have a time to live go in the end: the HSET of a save that fails
\* before its EXPIRE does not make those it joins permanent.
CodesExpire == left > 0 ~> code = Empty
-----------------------------------------------------------------------------
(* The inductive invariant.                                                *)

\* The HSET of a code is behind it: done once, or failed for good.
Saved(k) == [k |-> k, pc |-> "hset"] \notin saves

\* A promised code is in the hash, which lives at least as long; a code in the
\* hash, one in use and one spent were mailed and will not be saved again.
CodesFollowMail ==
    /\ \A k \in Codes : kept[k] > 0 => k <= Len(mail) /\ code[mail[k]] = k /\ kept[k] <= left
    /\ \A e \in Emails : code[e] > 0 =>
          code[e] <= Len(mail) /\ mail[code[e]] = e /\ Saved(code[e])
    /\ \A s \in saves : s.k <= Len(mail)
    /\ \A h \in Handlers : req[h].pc \in {"create", "delete"} =>
          req[h].k <= Len(mail) /\ Saved(req[h].k)
    /\ \A k \in spent : k <= Len(mail) /\ Saved(k) /\ code[mail[k]] # k

\* The handlers with an INSERT ahead of them, and those that import an address.
Inserting == {h \in Handlers : req[h].pc \in {"create", "import"}}
Importing(e) == {h \in Handlers : req[h] = [pc |-> "import", e |-> e]}

\* A row, and an import, is paid for by a request.
RowsFollowRequests ==
    /\ \A h \in Handlers : req[h].pc = "token" => req[h].id \in DOMAIN accounts
    /\ Len(accounts) + Cardinality(Inserting) <= served
    /\ \A e \in Emails :
          Cardinality(Imported(e)) + Cardinality(Importing(e)) <= Cardinality(Handlers)

IInv == TypeOK /\ CodesFollowMail /\ RowsFollowRequests
-----------------------------------------------------------------------------
(* What CodesExpire rests on.                                              *)

\* A hash of codes with a time to live keeps one until it is gone.
StaysMortal == [][left > 0 => left' > 0 \/ code' = Empty]_vars
===============================================================================
