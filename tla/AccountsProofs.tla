---------------------------- MODULE AccountsProofs ----------------------------
(***************************************************************************)
(* Proofs about Accounts, for every set of addresses, every finite set of  *)
(* handlers and every bound: what the hash of the codes holds, that it     *)
(* expires, and how many rows a GitHub import can leave.                   *)
(***************************************************************************)
EXTENDS Accounts, FiniteSetTheorems, TLAPS

\* Zenon is tried unless a leaf names Z3, which takes the arithmetic.
USE Zenon
-----------------------------------------------------------------------------
(* The handlers.                                                           *)

\* The state of a handler tells which record it is.
LEMMA HandlerRecords ==
    ASSUME NEW r \in Request \cup {Idle}
    PROVE  /\ r.pc \in {"create", "delete"} =>
                 r.k \in Codes /\ r = [pc |-> r.pc, k |-> r.k]
           /\ r.pc = "import" => r.e \in Emails /\ r = [pc |-> "import", e |-> r.e]
           /\ r.pc = "token" => r.id \in 1..MaxReq
           /\ r.pc \in {"idle", "create", "delete", "import", "token"}
           /\ r.pc = "idle" => r = Idle
  BY SMTT(30) DEF Request, Idle

\* What a handler goes to is a request.
LEMMA RequestRecords ==
    /\ \A k \in Codes : [pc |-> "create", k |-> k] \in Request
    /\ \A k \in Codes : [pc |-> "delete", k |-> k] \in Request
    /\ \A e \in Emails : [pc |-> "import", e |-> e] \in Request
    /\ \A i \in 1..MaxReq : [pc |-> "token", id |-> i] \in Request
  BY SMTT(30) DEF Request

\* One handler moves.
LEMMA HandlerMoves ==
    ASSUME TypeOK, NEW h \in Handlers, NEW r \in Request \cup {Idle}, Goes(h, r)
    PROVE  /\ req' \in [Handlers -> Request \cup {Idle}]
           /\ req'[h] = r
           /\ \A g \in Handlers : g # h => req'[g] = req[g]
  BY DEF TypeOK, Goes

\* CreateUser leaves the code of its request alone.
LEMMA CreatedGoes ==
    ASSUME TypeOK, NEW h \in Handlers, req[h].pc = "create"
    PROVE  /\ req[h].k \in Codes
           /\ [req[h] EXCEPT !.pc = "delete"] = [pc |-> "delete", k |-> req[h].k]
           /\ [pc |-> "delete", k |-> req[h].k] \in Request
  <1>1. req[h] \in Request \cup {Idle}
    BY DEF TypeOK
  <1>2. req[h].k \in Codes /\ req[h] = [pc |-> req[h].pc, k |-> req[h].k]
    BY <1>1, HandlerRecords
  <1>3. \A r, p, k : r = [pc |-> p, k |-> k] =>
            [r EXCEPT !.pc = "delete"] = [pc |-> "delete", k |-> k]
    BY SMTT(30)
  <1>4. [req[h] EXCEPT !.pc = "delete"] = [pc |-> "delete", k |-> req[h].k]
    BY SMTT(30), <1>2, <1>3
  <1> QED BY <1>2, <1>4, RequestRecords
-----------------------------------------------------------------------------
(* Rows and requests.                                                      *)

\* The sets that are counted are finite.
LEMMA CountedFinite ==
    ASSUME TypeOK
    PROVE  /\ IsFiniteSet(Inserting) /\ Cardinality(Inserting) \in Nat
           /\ \A e : /\ IsFiniteSet(Importing(e)) /\ Cardinality(Importing(e)) \in Nat
                     /\ Cardinality(Importing(e)) <= Cardinality(Handlers)
           /\ \A e : IsFiniteSet(Imported(e)) /\ Cardinality(Imported(e)) \in Nat
           /\ Cardinality(Handlers) \in Nat
  <1>1. IsFiniteSet(Handlers) /\ Cardinality(Handlers) \in Nat
    BY AccountsAssumption, FS_CardinalityType
  <1>2. Inserting \subseteq Handlers /\ \A e : Importing(e) \subseteq Handlers
    BY DEF Inserting, Importing
  <1>3. IsFiniteSet(Inserting) /\ Cardinality(Inserting) \in Nat
    BY <1>1, <1>2, FS_Subset, FS_CardinalityType
  <1>4. ASSUME NEW e
        PROVE  /\ IsFiniteSet(Importing(e)) /\ Cardinality(Importing(e)) \in Nat
               /\ Cardinality(Importing(e)) <= Cardinality(Handlers)
    BY <1>1, <1>2, FS_Subset, FS_CardinalityType
  <1>5. Len(accounts) \in Nat /\ DOMAIN accounts = 1..Len(accounts)
    BY SMTT(30) DEF TypeOK
  <1>6. IsFiniteSet(DOMAIN accounts)
    <2>1. 1 \in Int /\ Len(accounts) \in Int
      BY SMTT(30), <1>5
    <2> QED BY <1>5, <2>1, FS_Interval
  <1>7. ASSUME NEW e PROVE IsFiniteSet(Imported(e)) /\ Cardinality(Imported(e)) \in Nat
    <2>1. Imported(e) \subseteq DOMAIN accounts
      BY DEF Imported
    <2> QED BY <1>6, <2>1, FS_Subset, FS_CardinalityType
  <1> QED BY <1>1, <1>3, <1>4, <1>7

\* A set that loses an element is smaller by one, one that may gain an element
\* is larger by at most one.
LEMMA CountChanges ==
    ASSUME NEW S, NEW T, NEW x, IsFiniteSet(S)
    PROVE  /\ T \subseteq S => Cardinality(T) <= Cardinality(S)
           /\ T \subseteq S \cup {x} => Cardinality(T) <= Cardinality(S) + 1
           /\ x \in S /\ T \subseteq S \ {x} => Cardinality(T) <= Cardinality(S) - 1
  <1>1. /\ IsFiniteSet(S \cup {x}) /\ IsFiniteSet(S \ {x})
        /\ Cardinality(S \cup {x}) = IF x \in S THEN Cardinality(S) ELSE Cardinality(S) + 1
        /\ Cardinality(S \ {x}) = IF x \in S THEN Cardinality(S) - 1 ELSE Cardinality(S)
    BY FS_AddElement, FS_RemoveElement
  <1>2. /\ T \subseteq S => Cardinality(T) <= Cardinality(S)
        /\ T \subseteq S \cup {x} =>
              IsFiniteSet(T) /\ Cardinality(T) <= Cardinality(S \cup {x})
        /\ T \subseteq S \ {x} =>
              IsFiniteSet(T) /\ Cardinality(T) <= Cardinality(S \ {x})
    BY <1>1, FS_Subset
  <1>3. Cardinality(S) \in Nat /\ (IsFiniteSet(T) => Cardinality(T) \in Nat)
    BY FS_CardinalityType
  <1> QED BY SMTT(30), <1>1, <1>2, <1>3

\* Nobody has the address, so no row of it came from GitHub.
LEMMA NoneImported ==
    ASSUME NEW e, UsersByEmail(e) = {}
    PROVE  Cardinality(Imported(e)) = 0
  <1>1. [e |-> e, by |-> 0].e = e
    BY SMTT(30)
  <1>2. Imported(e) = {}
    BY <1>1 DEF UsersByEmail, Imported
  <1> QED BY <1>2, FS_EmptySet

\* A handler moves and no row is inserted.
LEMMA RowsKept ==
    ASSUME IInv, NEW h \in Handlers, NEW r \in Request \cup {Idle}, Goes(h, r),
           UNCHANGED accounts, served' \in Nat,
           served' >= served + (IF r.pc \in {"create", "import"} THEN 1 ELSE 0),
           r.pc = "token" => r.id \in DOMAIN accounts,
           r.pc = "import" => UsersByEmail(r.e) = {}
    PROVE  RowsFollowRequests'
  <1>1. TypeOK /\ RowsFollowRequests /\ served \in Nat /\ Len(accounts) \in Nat
    BY SMTT(30) DEF IInv, TypeOK
  <1>2. req'[h] = r /\ \A g \in Handlers : g # h => req'[g] = req[g]
    BY <1>1, HandlerMoves
  <1>3. \A g \in Handlers : req'[g].pc = "token" => req'[g].id \in DOMAIN accounts'
    BY <1>1, <1>2 DEF RowsFollowRequests
  <1>4. Len(accounts') + Cardinality(Inserting') <= served'
    <2>1. /\ r.pc \in {"create", "import"} => Inserting' \subseteq Inserting \cup {h}
          /\ r.pc \notin {"create", "import"} => Inserting' \subseteq Inserting
      BY <1>2 DEF Inserting
    <2>2. IsFiniteSet(Inserting) /\ Cardinality(Inserting) \in Nat
      BY <1>1, CountedFinite
    <2>3. IsFiniteSet(Inserting')
      BY <2>1, <2>2, FS_Subset, FS_AddElement
    <2>4. /\ r.pc \in {"create", "import"} =>
                Cardinality(Inserting') <= Cardinality(Inserting) + 1
          /\ r.pc \notin {"create", "import"} =>
                Cardinality(Inserting') <= Cardinality(Inserting)
          /\ Cardinality(Inserting') \in Nat
      BY <2>1, <2>2, <2>3, CountChanges, FS_CardinalityType
    <2>5. Len(accounts) + Cardinality(Inserting) <= served
      BY <1>1 DEF RowsFollowRequests
    <2> QED BY SMTT(30), <1>1, <2>2, <2>4, <2>5
  <1>5. ASSUME NEW e \in Emails
        PROVE  Cardinality(Imported(e)') + Cardinality(Importing(e)') <= Cardinality(Handlers)
    <2>1. Imported(e)' = Imported(e)
      BY DEF Imported
    <2>2. /\ Importing(e)' \subseteq Handlers
          /\ r # [pc |-> "import", e |-> e] => Importing(e)' \subseteq Importing(e)
      BY <1>2 DEF Importing
    <2>3. /\ IsFiniteSet(Importing(e)) /\ Cardinality(Importing(e)) \in Nat
          /\ Cardinality(Imported(e)) \in Nat /\ Cardinality(Handlers) \in Nat
      BY <1>1, CountedFinite
    <2>4. /\ Cardinality(Importing(e)') \in Nat
          /\ Cardinality(Importing(e)') <= Cardinality(Handlers)
      BY <2>2, AccountsAssumption, FS_Subset, FS_CardinalityType
    <2>5. r = [pc |-> "import", e |-> e] => Cardinality(Imported(e)) = 0
      <3>1. [pc |-> "import", e |-> e].pc = "import" /\ [pc |-> "import", e |-> e].e = e
        BY SMTT(30)
      <3> QED BY <3>1, NoneImported
    <2>6. r # [pc |-> "import", e |-> e] =>
              Cardinality(Importing(e)') <= Cardinality(Importing(e))
      BY <2>2, <2>3, CountChanges
    <2>7. Cardinality(Imported(e)) + Cardinality(Importing(e)) <= Cardinality(Handlers)
      BY <1>1 DEF RowsFollowRequests
    <2> QED BY SMTT(30), <2>1, <2>3, <2>4, <2>5, <2>6, <2>7
  <1> QED BY <1>3, <1>4, <1>5 DEF RowsFollowRequests

\* A handler inserts a row: one from GitHub, if it is importing the address.
LEMMA RowsGrow ==
    ASSUME IInv, NEW h \in Handlers, req[h].pc \in {"create", "import"},
           NEW r \in Request \cup {Idle}, Goes(h, r), r.pc \in {"delete", "token"},
           NEW x \in [e : Emails, by : 0..MaxMail], accounts' = Append(accounts, x),
           r.pc = "token" => r.id = Len(accounts) + 1,
           x.by = 0 => req[h] = [pc |-> "import", e |-> x.e],
           UNCHANGED served
    PROVE  RowsFollowRequests'
  <1>1. TypeOK /\ RowsFollowRequests /\ served \in Nat /\ Len(accounts) \in Nat
    BY SMTT(30) DEF IInv, TypeOK
  <1>2. req'[h] = r /\ \A g \in Handlers : g # h => req'[g] = req[g]
    BY <1>1, HandlerMoves
  <1>3. /\ Len(accounts') = Len(accounts) + 1
        /\ DOMAIN accounts' = DOMAIN accounts \cup {Len(accounts) + 1}
        /\ Len(accounts) + 1 \notin DOMAIN accounts
        /\ \A i \in DOMAIN accounts : accounts'[i] = accounts[i]
        /\ accounts'[Len(accounts) + 1] = x
    BY SMTT(30), <1>1 DEF TypeOK
  <1>4. \A g \in Handlers : req'[g].pc = "token" => req'[g].id \in DOMAIN accounts'
    BY <1>1, <1>2, <1>3 DEF RowsFollowRequests
  <1>5. Len(accounts') + Cardinality(Inserting') <= served'
    <2>1. h \in Inserting /\ Inserting' \subseteq Inserting \ {h}
      BY <1>2 DEF Inserting
    <2>2. IsFiniteSet(Inserting) /\ Cardinality(Inserting) \in Nat
      BY <1>1, CountedFinite
    <2>3. IsFiniteSet(Inserting')
      BY <2>1, <2>2, FS_Subset
    <2>4. /\ Cardinality(Inserting') <= Cardinality(Inserting) - 1
          /\ Cardinality(Inserting') \in Nat
      BY <2>1, <2>2, <2>3, CountChanges, FS_CardinalityType
    <2>5. Len(accounts) + Cardinality(Inserting) <= served
      BY <1>1 DEF RowsFollowRequests
    <2> QED BY SMTT(30), <1>1, <1>3, <2>2, <2>4, <2>5
  <1>6. ASSUME NEW e \in Emails
        PROVE  Cardinality(Imported(e)') + Cardinality(Importing(e)') <= Cardinality(Handlers)
    <2> DEFINE Row == [e |-> e, by |-> 0]
    <2>1. /\ IsFiniteSet(Importing(e)) /\ Cardinality(Importing(e)) \in Nat
          /\ IsFiniteSet(Imported(e)) /\ Cardinality(Imported(e)) \in Nat
          /\ Cardinality(Handlers) \in Nat
          /\ Cardinality(Imported(e)) + Cardinality(Importing(e)) <= Cardinality(Handlers)
      BY <1>1, CountedFinite DEF RowsFollowRequests
    <2>2. Row.e = e /\ Row.by = 0
      BY SMTT(30)
    <2>3. [pc |-> "import", e |-> e].pc = "import"
      BY SMTT(30)
    <2> HIDE DEF Row
    <2>4. /\ Imported(e)' \subseteq Imported(e) \cup {Len(accounts) + 1}
          /\ x # Row => Imported(e)' \subseteq Imported(e)
      BY <1>3 DEF Imported, Row
    <2>5. Importing(e)' \subseteq Importing(e) \ {h}
      <3>1. r # [pc |-> "import", e |-> e]
        BY <2>3
      <3> QED BY <1>2, <3>1 DEF Importing
    <2>6. x = Row => h \in Importing(e)
      BY <2>2 DEF Importing
    <2>7. IsFiniteSet(Importing(e)') /\ IsFiniteSet(Imported(e)')
      BY <2>1, <2>4, <2>5, FS_Subset, FS_AddElement
    <2>8. Cardinality(Importing(e)') \in Nat /\ Cardinality(Imported(e)') \in Nat
      BY <2>7, FS_CardinalityType
    <2>9. /\ Cardinality(Imported(e)') <= Cardinality(Imported(e)) + 1
          /\ x # Row => Cardinality(Imported(e)') <= Cardinality(Imported(e))
      BY <2>1, <2>4, CountChanges
    <2>10. /\ x = Row => Cardinality(Importing(e)') <= Cardinality(Importing(e)) - 1
           /\ Cardinality(Importing(e)') <= Cardinality(Importing(e))
      BY <2>1, <2>5, <2>6, CountChanges
    <2> QED BY SMTT(30), <2>1, <2>8, <2>9, <2>10
  <1> QED BY <1>4, <1>5, <1>6 DEF RowsFollowRequests
-----------------------------------------------------------------------------
(* Mails, saves and the hash.                                              *)

\* A mailed code has an address.
LEMMA Mailed ==
    ASSUME TypeOK
    PROVE  /\ Len(mail) \in 0..MaxMail /\ Codes \subseteq Nat \ {0} /\ left \in Nat
           /\ \A k \in Codes : k <= Len(mail) => mail[k] \in Emails
           /\ \A k \in Codes : kept[k] \in Nat
           /\ \A e \in Emails : code[e] \in Nat /\ (code[e] > 0 => code[e] \in Codes)
  <1>1. /\ Len(mail) \in 0..MaxMail /\ Codes \subseteq Nat \ {0} /\ left \in Nat
        /\ \A k \in Codes : k <= Len(mail) => mail[k] \in Emails
    BY SMTT(30), AccountsAssumption DEF TypeOK, Codes
  <1>2. \A k \in Codes : kept[k] \in Nat
    BY SMTT(30), AccountsAssumption DEF TypeOK
  <1>3. \A e \in Emails : code[e] \in Nat /\ (code[e] > 0 => code[e] \in Codes)
    BY SMTT(30), AccountsAssumption DEF TypeOK, Codes
  <1> QED BY <1>1, <1>2, <1>3

\* Two save tasks differ in their code or in their next command.
LEMMA SaveRecords ==
    ASSUME NEW k, NEW j
    PROVE  /\ [k |-> k, pc |-> "hset"] # [k |-> j, pc |-> "expire"]
           /\ [k |-> k, pc |-> "hset"] = [k |-> j, pc |-> "hset"] => k = j
           /\ [k |-> k, pc |-> "hset"].k = k /\ [k |-> k, pc |-> "expire"].k = k
           /\ k \in Codes =>
                 /\ [k |-> k, pc |-> "hset"] \in [k : Codes, pc : {"hset", "expire"}]
                 /\ [k |-> k, pc |-> "expire"] \in [k : Codes, pc : {"hset", "expire"}]
  BY SMTT(30)

\* What a promise is once the field of an address has changed.
LEMMA ChangedPromise ==
    ASSUME TypeOK, NEW e
    PROVE  /\ Changed(e) \in [Codes -> 0..Ttl]
           /\ \A k \in Codes : Changed(e)[k] > 0 =>
                 Changed(e)[k] = kept[k] /\ ~(k <= Len(mail) /\ mail[k] = e)
  <1>1. 0 \in 0..Ttl /\ ~(0 > 0)
    BY SMTT(30), AccountsAssumption
  <1>2. \A k \in Codes : kept[k] \in 0..Ttl
    BY DEF TypeOK
  <1> QED BY <1>1, <1>2 DEF Changed

LEMMA SendEmailKeeps ==
    ASSUME IInv, NEW e \in Emails, SendEmail(e)
    PROVE  TypeOK' /\ CodesFollowMail'
  <1> DEFINE n == Len(mail) + 1
             StaysSaved(j) == [k |-> j, pc |-> "hset"] \notin saves'
  <1>1. TypeOK /\ CodesFollowMail
    BY DEF IInv
  <1>2. /\ Len(mail') = n /\ mail' \in Seq(Emails) /\ n <= MaxMail /\ n \in Codes
        /\ \A k \in Codes : k <= Len(mail) => k <= n /\ k # n /\ mail'[k] = mail[k]
        /\ ~(n <= Len(mail))
    BY SMTT(30), <1>1, AccountsAssumption DEF SendEmail, TypeOK, Codes
  <1>3. /\ saves' = saves \cup {[k |-> n, pc |-> "hset"]}
        /\ UNCHANGED <<code, left, kept, req, served, accounts, online, spent>>
    BY DEF SendEmail, redis
  <1> HIDE DEF n, StaysSaved
  <1>4. TypeOK'
    BY <1>1, <1>2, <1>3, SaveRecords DEF TypeOK
  <1>5. \A k \in Codes : k <= Len(mail) /\ Saved(k) => StaysSaved(k)
    BY <1>2, <1>3, SaveRecords DEF Saved, StaysSaved
  <1>6. \A k \in Codes : kept'[k] > 0 =>
            k <= Len(mail') /\ code'[mail'[k]] = k /\ kept'[k] <= left'
    BY <1>1, <1>2, <1>3 DEF CodesFollowMail
  <1>7. \A a \in Emails : code'[a] > 0 =>
            code'[a] <= Len(mail') /\ mail'[code'[a]] = a /\ StaysSaved(code'[a])
    BY <1>1, <1>2, <1>3, <1>5, Mailed DEF CodesFollowMail, Saved
  <1>8. \A s \in saves' : s.k <= Len(mail')
    <2>1. \A s \in saves : s.k \in Codes
      BY SMTT(30), <1>1 DEF TypeOK
    <2>2. \A s \in saves : s.k <= Len(mail')
      BY <1>1, <1>2, <2>1 DEF CodesFollowMail
    <2>3. [k |-> n, pc |-> "hset"].k <= Len(mail')
      BY SMTT(30), <1>2 DEF Codes
    <2> QED BY <1>3, <2>2, <2>3
  <1>9. \A h \in Handlers : req'[h].pc \in {"create", "delete"} =>
            req'[h].k <= Len(mail') /\ StaysSaved(req'[h].k)
    <2> SUFFICES ASSUME NEW h \in Handlers, req[h].pc \in {"create", "delete"}
                 PROVE  req[h].k <= Len(mail') /\ StaysSaved(req[h].k)
      BY <1>3 DEF Saved
    <2>1. req[h].k \in Codes
      BY <1>1, HandlerRecords DEF TypeOK
    <2> QED BY <1>1, <1>2, <1>5, <2>1 DEF CodesFollowMail
  <1>10. \A k \in spent' : k <= Len(mail') /\ StaysSaved(k) /\ code'[mail'[k]] # k
    BY <1>1, <1>2, <1>3, <1>5 DEF CodesFollowMail, TypeOK
  <1> QED BY <1>4, <1>6, <1>7, <1>8, <1>9, <1>10 DEF CodesFollowMail, Saved, StaysSaved

LEMMA SaveHsetKeeps ==
    ASSUME IInv, NEW k \in Codes, SaveHset(k)
    PROVE  TypeOK' /\ CodesFollowMail'
  <1> DEFINE StaysSaved(j) == [k |-> j, pc |-> "hset"] \notin saves'
  <1>1. TypeOK /\ CodesFollowMail
    BY DEF IInv
  <1>2. /\ [k |-> k, pc |-> "hset"] \in saves
        /\ saves' = (saves \ {[k |-> k, pc |-> "hset"]}) \cup {[k |-> k, pc |-> "expire"]}
        /\ code' = [code EXCEPT ![mail[k]] = k]
        /\ kept' = Changed(mail[k])
        /\ UNCHANGED <<mail, left, req, served, accounts, online, spent>>
    BY DEF SaveHset, LeftAfterHset
  <1>3. k <= Len(mail) /\ mail[k] \in Emails /\ k \in 0..MaxMail
    <2>1. k <= Len(mail)
      BY <1>1, <1>2, SaveRecords DEF CodesFollowMail
    <2>2. k \in 0..MaxMail
      BY SMTT(30) DEF Codes
    <2> QED BY <1>1, <2>1, <2>2, Mailed
  <1>4. /\ code' \in [Emails -> 0..MaxMail]
        /\ code'[mail[k]] = k /\ \A a \in Emails : a # mail[k] => code'[a] = code[a]
    BY <1>1, <1>2, <1>3 DEF TypeOK
  <1>5. /\ kept' \in [Codes -> 0..Ttl]
        /\ \A j \in Codes : kept'[j] > 0 =>
              kept'[j] = kept[j] /\ ~(j <= Len(mail) /\ mail[j] = mail[k])
    BY <1>1, <1>2, ChangedPromise
  <1>6. TypeOK'
    BY <1>1, <1>2, <1>4, <1>5, SaveRecords DEF TypeOK
  <1>7. StaysSaved(k) /\ \A j \in Codes : Saved(j) => StaysSaved(j) /\ j # k
    BY <1>2, SaveRecords DEF Saved
  <1>8. \A j \in Codes : kept'[j] > 0 =>
            j <= Len(mail') /\ code'[mail'[j]] = j /\ kept'[j] <= left'
    BY <1>1, <1>2, <1>4, <1>5, Mailed DEF CodesFollowMail
  <1>9. \A a \in Emails : code'[a] > 0 =>
            code'[a] <= Len(mail') /\ mail'[code'[a]] = a /\ StaysSaved(code'[a])
    <2> SUFFICES ASSUME NEW a \in Emails, code'[a] > 0
                 PROVE  code'[a] <= Len(mail) /\ mail[code'[a]] = a /\ StaysSaved(code'[a])
      BY <1>2 DEF Saved
    <2>1. CASE a = mail[k]
      BY <1>3, <1>4, <1>7, <2>1 DEF Saved
    <2>2. CASE a # mail[k]
      <3>1. code'[a] = code[a] /\ code[a] \in Codes
        BY <1>1, <1>4, <2>2, Mailed
      <3>2. StaysSaved(code[a])
        BY <1>1, <1>7, <3>1 DEF CodesFollowMail
      <3> QED BY <1>1, <3>1, <3>2 DEF CodesFollowMail, Saved
    <2> QED BY <2>1, <2>2
  <1>10. \A s \in saves' : s.k <= Len(mail')
    <2>1. [k |-> k, pc |-> "expire"].k <= Len(mail)
      BY <1>3, SaveRecords
    <2>2. \A s \in saves : s.k <= Len(mail)
      BY <1>1 DEF CodesFollowMail
    <2> QED BY <1>2, <2>1, <2>2
  <1>11. \A h \in Handlers : req'[h].pc \in {"create", "delete"} =>
            req'[h].k <= Len(mail') /\ StaysSaved(req'[h].k)
    <2> SUFFICES ASSUME NEW h \in Handlers, req[h].pc \in {"create", "delete"}
                 PROVE  req[h].k <= Len(mail) /\ StaysSaved(req[h].k)
      BY <1>2 DEF Saved
    <2>1. req[h].k \in Codes
      BY <1>1, HandlerRecords DEF TypeOK
    <2> QED BY <1>1, <1>7, <2>1 DEF CodesFollowMail
  <1>12. \A j \in spent' : j <= Len(mail') /\ StaysSaved(j) /\ code'[mail'[j]] # j
    <2> SUFFICES ASSUME NEW j \in spent
                 PROVE  j <= Len(mail) /\ StaysSaved(j) /\ code'[mail[j]] # j
      BY <1>2 DEF Saved
    <2>1. j \in Codes /\ j <= Len(mail) /\ Saved(j) /\ code[mail[j]] # j
      BY <1>1 DEF TypeOK, CodesFollowMail
    <2>2. mail[j] \in Emails /\ StaysSaved(j) /\ j # k
      BY <1>1, <1>7, <2>1, Mailed
    <2> QED BY <1>4, <2>1, <2>2
  <1> QED BY <1>6, <1>8, <1>9, <1>10, <1>11, <1>12 DEF CodesFollowMail, Saved

\* No mail is sent and no code gets into the hash: what has to be seen to are
\* the promises, the codes of the handlers and the codes that are spent.
LEMMA HashShrinks ==
    ASSUME IInv, UNCHANGED mail, saves' \subseteq saves,
           \A e \in Emails : code'[e] = code[e] \/ code'[e] = 0,
           \A k \in Codes : kept'[k] > 0 =>
              k <= Len(mail) /\ code'[mail[k]] = k /\ kept'[k] <= left',
           \A h \in Handlers : \/ req'[h] = req[h]
                               \/ req'[h].pc \notin {"create", "delete"}
                               \/ req'[h].k <= Len(mail) /\ Saved(req'[h].k),
           \A k \in spent' : \/ k \in spent
                             \/ k <= Len(mail) /\ Saved(k) /\ code'[mail[k]] # k
    PROVE  CodesFollowMail'
  <1> DEFINE StaysSaved(j) == [k |-> j, pc |-> "hset"] \notin saves'
  <1>1. TypeOK /\ CodesFollowMail
    BY DEF IInv
  <1>2. \A j : Saved(j) => StaysSaved(j)
    BY DEF Saved
  <1> HIDE DEF StaysSaved
  <1>3. \A e \in Emails : code'[e] > 0 =>
            code'[e] <= Len(mail) /\ mail[code'[e]] = e /\ StaysSaved(code'[e])
    <2> SUFFICES ASSUME NEW e \in Emails, code'[e] > 0
                 PROVE  code'[e] <= Len(mail) /\ mail[code'[e]] = e /\ StaysSaved(code'[e])
      OBVIOUS
    <2>1. code'[e] = code[e]
      <3>1. ~(0 > 0)
        BY SMTT(30)
      <3> QED BY <3>1
    <2>2. code[e] <= Len(mail) /\ mail[code[e]] = e /\ Saved(code[e])
      BY <1>1, <2>1 DEF CodesFollowMail
    <2> QED BY <1>2, <2>1, <2>2
  <1>4. \A s \in saves' : s.k <= Len(mail)
    BY <1>1 DEF CodesFollowMail
  <1>5. \A h \in Handlers : req'[h].pc \in {"create", "delete"} =>
            req'[h].k <= Len(mail) /\ StaysSaved(req'[h].k)
    BY <1>1, <1>2 DEF CodesFollowMail
  <1>6. \A k \in spent' : k <= Len(mail) /\ StaysSaved(k) /\ code'[mail[k]] # k
    <2> SUFFICES ASSUME NEW k \in spent
                 PROVE  k <= Len(mail) /\ StaysSaved(k) /\ code'[mail[k]] # k
      BY <1>2
    <2>1. k \in Codes /\ k <= Len(mail) /\ Saved(k) /\ code[mail[k]] # k
      BY <1>1 DEF TypeOK, CodesFollowMail
    <2>2. mail[k] \in Emails /\ k # 0
      BY <1>1, <2>1, Mailed
    <2> QED BY <1>2, <2>1, <2>2
  <1> QED BY <1>3, <1>4, <1>5, <1>6 DEF CodesFollowMail, Saved, StaysSaved

LEMMA SaveExpireKeeps ==
    ASSUME IInv, NEW k \in Codes, SaveExpire(k)
    PROVE  TypeOK' /\ CodesFollowMail'
  <1>1. TypeOK /\ CodesFollowMail
    BY DEF IInv
  <1>2. /\ saves' \subseteq saves /\ k <= Len(mail)
        /\ left' = IF code = Empty THEN 0 ELSE Ttl
        /\ kept' = IF code[mail[k]] = k THEN [kept EXCEPT ![k] = Ttl] ELSE kept
        /\ UNCHANGED <<mail, code, req, served, accounts, online, spent>>
    <2>1. k <= Len(mail)
      BY <1>1, SaveRecords DEF SaveExpire, CodesFollowMail
    <2> QED BY <2>1 DEF SaveExpire, Expire
  <1>3. Ttl \in 0..Ttl /\ 0 \in 0..Ttl /\ Ttl <= Ttl /\ \A t \in 0..Ttl : t <= Ttl
    BY SMTT(30), AccountsAssumption
  <1>4. left' \in 0..Ttl /\ kept' \in [Codes -> 0..Ttl]
    BY <1>1, <1>2, <1>3 DEF TypeOK
  <1>5. TypeOK'
    BY <1>1, <1>2, <1>4 DEF TypeOK
  <1>6. ASSUME NEW j \in Codes, kept'[j] > 0
        PROVE  j <= Len(mail) /\ code'[mail[j]] = j /\ kept'[j] <= left'
    <2>1. j <= Len(mail) /\ code[mail[j]] = j
      <3>1. CASE j = k /\ code[mail[k]] = k
        BY <1>2, <3>1
      <3>2. CASE ~(j = k /\ code[mail[k]] = k)
        <4>1. kept'[j] = kept[j]
          BY <1>1, <1>2, <3>2 DEF TypeOK
        <4> QED BY <1>1, <1>6, <4>1 DEF CodesFollowMail
      <3> QED BY <3>1, <3>2
    <2>2. code # Empty
      <3>1. mail[j] \in Emails /\ j # 0
        BY <1>1, <2>1, Mailed
      <3> QED BY <2>1, <3>1 DEF Empty
    <2>3. left' = Ttl /\ kept'[j] \in 0..Ttl
      BY <1>2, <1>4, <2>2
    <2> QED BY <1>2, <1>3, <2>1, <2>3
  <1> QED BY <1>2, <1>5, <1>6, HashShrinks

LEMMA SaveFailsKeeps ==
    ASSUME IInv, SaveFails
    PROVE  TypeOK' /\ CodesFollowMail'
  <1>1. TypeOK /\ CodesFollowMail
    BY DEF IInv
  <1>2. /\ saves' \subseteq saves
        /\ UNCHANGED <<mail, code, left, kept, req, served, accounts, online, spent>>
    BY DEF SaveFails, redis
  <1>3. TypeOK'
    BY <1>1, <1>2 DEF TypeOK
  <1>4. \A k \in Codes : kept'[k] > 0 =>
            k <= Len(mail) /\ code'[mail[k]] = k /\ kept'[k] <= left'
    BY <1>1, <1>2 DEF CodesFollowMail
  <1> QED BY <1>2, <1>3, <1>4, HashShrinks

LEMMA TickKeeps ==
    ASSUME IInv, Tick
    PROVE  TypeOK' /\ CodesFollowMail'
  <1>1. TypeOK /\ CodesFollowMail
    BY DEF IInv
  <1>2. /\ left > 0 /\ left' = left - 1
        /\ code' = IF left = 1 THEN Empty ELSE code
        /\ kept' = [k \in Codes |-> IF kept[k] > 0 THEN kept[k] - 1 ELSE 0]
        /\ UNCHANGED <<mail, saves, req, served, accounts, online, spent>>
    BY DEF Tick
  <1>3. left' \in 0..Ttl
    BY SMTT(30), <1>1, <1>2, AccountsAssumption DEF TypeOK
  <1>4. kept' \in [Codes -> 0..Ttl]
    <2>1. \A t \in 0..Ttl : (t > 0 => t - 1 \in 0..Ttl) /\ 0 \in 0..Ttl
      BY SMTT(30), AccountsAssumption
    <2> QED BY <1>1, <1>2, <2>1 DEF TypeOK
  <1>5. code' \in [Emails -> 0..MaxMail] /\ \A e \in Emails : code'[e] = code[e] \/ code'[e] = 0
    <2>1. 0 \in 0..MaxMail
      BY SMTT(30), AccountsAssumption
    <2> QED BY <1>1, <1>2, <2>1 DEF TypeOK, Empty
  <1>6. TypeOK'
    BY <1>1, <1>2, <1>3, <1>4, <1>5 DEF TypeOK
  <1>7. ASSUME NEW k \in Codes, kept'[k] > 0
        PROVE  k <= Len(mail) /\ code'[mail[k]] = k /\ kept'[k] <= left'
    <2>1. kept[k] \in Nat /\ left \in Nat
      BY <1>1, Mailed
    <2>2. kept'[k] = IF kept[k] > 0 THEN kept[k] - 1 ELSE 0
      BY <1>2
    <2>3. kept[k] > 0 /\ kept[k] > 1 /\ kept'[k] = kept[k] - 1
      BY SMTT(30), <1>7, <2>1, <2>2
    <2>4. k <= Len(mail) /\ code[mail[k]] = k /\ kept[k] <= left
      BY <1>1, <2>3 DEF CodesFollowMail
    <2>5. left # 1 /\ kept'[k] <= left'
      BY SMTT(30), <1>2, <2>1, <2>3, <2>4
    <2> QED BY <1>2, <2>4, <2>5
  <1> QED BY <1>2, <1>5, <1>6, <1>7, HashShrinks
-----------------------------------------------------------------------------
(* The requests.                                                           *)

\* A handler goes on with a code that was mailed and saved, or without one.
LEMMA RequestKeeps ==
    ASSUME IInv, NEW h \in Handlers, NEW r \in Request \cup {Idle}, Goes(h, r),
           UNCHANGED <<mail, saves, code, left, kept, spent>>,
           r.pc \in {"create", "delete"} => r.k <= Len(mail) /\ Saved(r.k),
           served' \in 0..MaxReq, accounts' \in Seq([e : Emails, by : 0..MaxMail]),
           online' \subseteq DOMAIN accounts', RowsFollowRequests'
    PROVE  IInv'
  <1>1. TypeOK /\ CodesFollowMail
    BY DEF IInv
  <1>2. /\ req' \in [Handlers -> Request \cup {Idle}]
        /\ req'[h] = r /\ \A g \in Handlers : g # h => req'[g] = req[g]
    BY <1>1, HandlerMoves
  <1>3. Len(accounts') <= served'
    <2>1. Inserting' \subseteq Handlers
      BY DEF Inserting
    <2>2. Cardinality(Inserting') \in Nat
      BY <2>1, AccountsAssumption, FS_Subset, FS_CardinalityType
    <2>3. Len(accounts') + Cardinality(Inserting') <= served'
      BY DEF RowsFollowRequests
    <2> QED BY SMTT(30), <2>2, <2>3
  <1>4. TypeOK'
    BY <1>1, <1>2, <1>3 DEF TypeOK
  <1>5. \A k \in Codes : kept'[k] > 0 =>
            k <= Len(mail) /\ code'[mail[k]] = k /\ kept'[k] <= left'
    BY <1>1 DEF CodesFollowMail
  <1>6. CodesFollowMail'
    <2>1. \A g \in Handlers : \/ req'[g] = req[g]
                              \/ req'[g].pc \notin {"create", "delete"}
                              \/ req'[g].k <= Len(mail) /\ Saved(req'[g].k)
      BY <1>2
    <2> QED BY <1>5, <2>1, HashShrinks
  <1> QED BY <1>4, <1>6 DEF IInv

\* A request that is let in finds the handler idle, and is counted.
LEMMA RequestStarts ==
    ASSUME IInv, NEW h \in Handlers, NEW r \in Request, Starts(h, r),
           UNCHANGED <<mail, saves, redis, accounts, online, spent>>,
           r.pc \in {"create", "delete"} => r.k <= Len(mail) /\ Saved(r.k),
           r.pc = "token" => r.id \in DOMAIN accounts,
           r.pc = "import" => UsersByEmail(r.e) = {}
    PROVE  IInv'
  <1>1. TypeOK
    BY DEF IInv
  <1>2. Goes(h, r) /\ UNCHANGED <<mail, saves, code, left, kept, accounts, online, spent>>
    BY DEF Starts, redis
  <1>3. /\ served' \in 0..MaxReq /\ served' \in Nat
        /\ served' >= served + (IF r.pc \in {"create", "import"} THEN 1 ELSE 0)
    BY SMTT(30), <1>1, AccountsAssumption DEF Starts, TypeOK
  <1>4. RowsFollowRequests'
    BY <1>2, <1>3, RowsKept
  <1>5. accounts' \in Seq([e : Emails, by : 0..MaxMail]) /\ online' \subseteq DOMAIN accounts'
    BY <1>1, <1>2 DEF TypeOK
  <1> QED BY <1>2, <1>3, <1>4, <1>5, RequestKeeps

LEMMA RegisterKeeps ==
    ASSUME IInv, NEW h \in Handlers, NEW k \in Codes, Register(h, k)
    PROVE  IInv'
  <1> DEFINE r == [pc |-> "create", k |-> k]
  <1>1. k <= Len(mail) /\ Saved(k)
    <2>1. mail[k] \in Emails /\ k > 0
      <3>1. k > 0
        BY SMTT(30) DEF Codes
      <3> QED BY <3>1, Mailed DEF IInv, Register
    <2> QED BY <2>1 DEF IInv, CodesFollowMail, Register
  <1>2. r.pc = "create" /\ r.k = k /\ r \in Request
    BY SMTT(30) DEF Request
  <1>3. Starts(h, r) /\ UNCHANGED <<mail, saves, redis, accounts, online, spent>>
    BY DEF Register
  <1> HIDE DEF r
  <1> QED BY <1>1, <1>2, <1>3, RequestStarts

LEMMA LoginKeeps ==
    ASSUME IInv, NEW h \in Handlers, NEW i \in DOMAIN accounts,
           Starts(h, [pc |-> "token", id |-> i]),
           UNCHANGED <<mail, saves, redis, accounts, online, spent>>
    PROVE  IInv'
  <1> DEFINE r == [pc |-> "token", id |-> i]
  <1>1. r.pc = "token" /\ r.id = i
    BY SMTT(30)
  <1>2. i \in 1..MaxReq
    BY SMTT(30), AccountsAssumption DEF IInv, TypeOK
  <1>3. r \in Request /\ Starts(h, r)
    BY <1>2, RequestRecords
  <1> HIDE DEF r
  <1> QED BY <1>1, <1>3, RequestStarts

LEMMA GithubCallbackKeeps ==
    ASSUME IInv, NEW h \in Handlers, NEW e \in Emails, GithubCallback(h, e)
    PROVE  IInv'
  <1>1. UNCHANGED <<mail, saves, redis, accounts, online, spent>>
    BY DEF GithubCallback
  <1>2. ASSUME NEW i \in UsersByEmail(e), Starts(h, [pc |-> "token", id |-> i])
        PROVE  IInv'
    <2>1. i \in DOMAIN accounts
      BY DEF UsersByEmail
    <2> QED BY <1>1, <1>2, <2>1, LoginKeeps
  <1>3. ASSUME UsersByEmail(e) = {}, Starts(h, [pc |-> "import", e |-> e])
        PROVE  IInv'
    <2> DEFINE r == [pc |-> "import", e |-> e]
    <2>1. r.pc = "import" /\ r.e = e
      BY SMTT(30)
    <2>2. r \in Request /\ Starts(h, r)
      BY <1>3, RequestRecords
    <2> HIDE DEF r
    <2> QED BY <1>1, <1>3, <2>1, <2>2, RequestStarts
  <1> QED BY <1>2, <1>3 DEF GithubCallback

LEMMA CreateUserKeeps ==
    ASSUME IInv, NEW h \in Handlers, CreateUser(h)
    PROVE  IInv'
  <1> DEFINE r == [pc |-> "delete", k |-> req[h].k]
             x == [e |-> mail[req[h].k], by |-> req[h].k]
  <1>1. TypeOK /\ CodesFollowMail /\ req[h].pc = "create"
    BY DEF IInv, CreateUser
  <1>2. /\ req[h].k \in Codes /\ r \in Request /\ Goes(h, r)
        /\ UNCHANGED <<mail, saves, code, left, kept, served, online, spent>>
    BY <1>1, CreatedGoes DEF CreateUser, Goes, redis
  <1>3. req[h].k <= Len(mail) /\ Saved(req[h].k) /\ mail[req[h].k] \in Emails
    <2>1. req[h].k <= Len(mail) /\ Saved(req[h].k)
      BY <1>1 DEF CodesFollowMail
    <2> QED BY <1>1, <1>2, <2>1, Mailed
  <1>4. r.pc = "delete" /\ r.k = req[h].k
    BY SMTT(30)
  <1>5. accounts' = Append(accounts, x)
    BY DEF CreateUser, Inserted
  <1>6. x \in [e : Emails, by : 0..MaxMail] /\ x.by # 0
    BY SMTT(30), <1>2, <1>3, AccountsAssumption DEF Codes
  <1> HIDE DEF r, x
  <1>7. RowsFollowRequests'
    BY <1>1, <1>2, <1>4, <1>5, <1>6, RowsGrow
  <1>8. /\ accounts' \in Seq([e : Emails, by : 0..MaxMail])
        /\ DOMAIN accounts \subseteq DOMAIN accounts'
    BY SMTT(30), <1>1, <1>5, <1>6 DEF TypeOK
  <1>9. online' \subseteq DOMAIN accounts' /\ served' \in 0..MaxReq
    BY <1>1, <1>2, <1>8 DEF TypeOK
  <1> QED BY <1>2, <1>3, <1>4, <1>7, <1>8, <1>9, RequestKeeps

LEMMA RegisterUserKeeps ==
    ASSUME IInv, NEW h \in Handlers, RegisterUser(h)
    PROVE  IInv'
  <1> DEFINE r == [pc |-> "token", id |-> Len(accounts) + 1]
             x == [e |-> req[h].e, by |-> 0]
  <1>1. TypeOK /\ RowsFollowRequests /\ req[h].pc = "import"
    BY DEF IInv, RegisterUser
  <1>2. req[h].e \in Emails /\ req[h] = [pc |-> "import", e |-> req[h].e]
    BY <1>1, HandlerRecords DEF TypeOK
  <1>3. accounts' = Append(accounts, x)
    BY DEF RegisterUser, Inserted
  <1>4. x \in [e : Emails, by : 0..MaxMail] /\ x.e = req[h].e
    BY SMTT(30), <1>2, AccountsAssumption
  <1>5. r.pc = "token" /\ r.id = Len(accounts) + 1
    BY SMTT(30)
  <1> HIDE DEF x
  <1>6. /\ accounts' \in Seq([e : Emails, by : 0..MaxMail])
        /\ DOMAIN accounts \subseteq DOMAIN accounts' /\ Len(accounts') = Len(accounts) + 1
    BY SMTT(30), <1>1, <1>3, <1>4 DEF TypeOK
  <1>7. Goes(h, r) /\ UNCHANGED <<mail, saves, code, left, kept, served, online, spent>>
    BY <1>6 DEF RegisterUser, redis
  <1>8. r \in Request
    <2>1. h \in Inserting /\ IsFiniteSet(Inserting) /\ Cardinality(Inserting) \in Nat
      BY <1>1, CountedFinite DEF Inserting
    <2>2. Cardinality(Inserting) # 0
      BY <2>1, FS_EmptySet
    <2>3. Len(accounts) + Cardinality(Inserting) <= served
      BY <1>1 DEF RowsFollowRequests
    <2>4. Len(accounts) \in Nat /\ served \in 0..MaxReq
      BY SMTT(30), <1>1 DEF TypeOK
    <2>5. Len(accounts) + 1 \in 1..MaxReq
      BY SMTT(30), <2>1, <2>2, <2>3, <2>4, AccountsAssumption
    <2> QED BY <2>5, RequestRecords
  <1> HIDE DEF r
  <1>9. RowsFollowRequests'
    BY <1>1, <1>2, <1>3, <1>4, <1>5, <1>7, <1>8, RowsGrow
  <1>10. online' \subseteq DOMAIN accounts' /\ served' \in 0..MaxReq
    BY <1>1, <1>6, <1>7 DEF TypeOK
  <1> QED BY <1>5, <1>6, <1>7, <1>8, <1>9, <1>10, RequestKeeps

\* A request ends without a row: with its answer or with an error.
LEMMA RequestEnds ==
    ASSUME IInv, NEW h \in Handlers, Goes(h, Idle),
           UNCHANGED <<mail, saves, code, left, kept, served, accounts, spent>>,
           online' \subseteq DOMAIN accounts
    PROVE  IInv'
  <1>1. TypeOK /\ Idle \in Request \cup {Idle} /\ Idle.pc = "idle"
    <2>1. Idle.pc = "idle"
      BY SMTT(30) DEF Idle
    <2> QED BY <2>1 DEF IInv
  <1>2. /\ served' \in 0..MaxReq /\ served' \in Nat
        /\ served' >= served + (IF Idle.pc \in {"create", "import"} THEN 1 ELSE 0)
    BY SMTT(30), <1>1, AccountsAssumption DEF TypeOK
  <1>3. RowsFollowRequests'
    BY <1>1, <1>2, RowsKept
  <1>4. accounts' \in Seq([e : Emails, by : 0..MaxMail])
    BY <1>1 DEF TypeOK
  <1> QED BY <1>1, <1>2, <1>3, <1>4, RequestKeeps

LEMMA GenTokenKeeps ==
    ASSUME IInv, NEW h \in Handlers, GenToken(h)
    PROVE  IInv'
  <1>1. Goes(h, Idle) /\ UNCHANGED <<mail, saves, code, left, kept, served, accounts, spent>>
    BY DEF GenToken, redis
  <1>2. online' \subseteq DOMAIN accounts
    BY DEF GenToken, IInv, TypeOK, RowsFollowRequests
  <1> QED BY <1>1, <1>2, RequestEnds

LEMMA RequestFailsKeeps ==
    ASSUME IInv, NEW h \in Handlers, RequestFails(h)
    PROVE  IInv'
  <1>1. /\ Goes(h, Idle)
        /\ UNCHANGED <<mail, saves, code, left, kept, served, accounts, online, spent>>
    BY DEF RequestFails, redis
  <1>2. online' \subseteq DOMAIN accounts
    BY <1>1 DEF IInv, TypeOK
  <1> QED BY <1>1, <1>2, RequestEnds

LEMMA DelRegisterCodeKeeps ==
    ASSUME IInv, NEW h \in Handlers, DelRegisterCode(h)
    PROVE  IInv'
  <1> DEFINE k == req[h].k
  <1>1. TypeOK /\ CodesFollowMail /\ req[h].pc = "delete"
    BY DEF IInv, DelRegisterCode
  <1>2. /\ Goes(h, Idle) /\ code' = [code EXCEPT ![mail[k]] = 0]
        /\ left' = IF code' = Empty THEN 0 ELSE left
        /\ kept' = Changed(mail[k]) /\ spent' = spent \cup {k}
        /\ UNCHANGED <<mail, saves, served, accounts, online>>
    BY DEF DelRegisterCode, Hdel
  <1>3. k \in Codes
    BY <1>1, HandlerRecords DEF TypeOK
  <1>4. k <= Len(mail) /\ Saved(k)
    BY <1>1 DEF CodesFollowMail
  <1> HIDE DEF k
  <1>5. mail[k] \in Emails /\ k # 0
    BY <1>1, <1>3, <1>4, Mailed
  <1>6. 0 \in 0..MaxMail /\ 0 \in 0..Ttl
    BY SMTT(30), AccountsAssumption
  <1>7. /\ code' \in [Emails -> 0..MaxMail] /\ code'[mail[k]] = 0
        /\ \A e \in Emails : e # mail[k] => code'[e] = code[e]
    BY <1>1, <1>2, <1>5, <1>6 DEF TypeOK
  <1>8. /\ kept' \in [Codes -> 0..Ttl]
        /\ \A j \in Codes : kept'[j] > 0 =>
              kept'[j] = kept[j] /\ ~(j <= Len(mail) /\ mail[j] = mail[k])
    BY <1>1, <1>2, ChangedPromise
  <1>9. ASSUME NEW j \in Codes, kept'[j] > 0
        PROVE  j <= Len(mail) /\ code'[mail[j]] = j /\ kept'[j] <= left'
    <2>1. /\ kept'[j] = kept[j] /\ j <= Len(mail) /\ mail[j] # mail[k]
          /\ code[mail[j]] = j /\ kept[j] <= left
      BY <1>1, <1>8, <1>9 DEF CodesFollowMail
    <2>2. mail[j] \in Emails /\ j # 0
      BY <1>1, <2>1, Mailed
    <2>3. code'[mail[j]] = j
      BY <1>7, <2>1, <2>2
    <2>4. left' = left
      BY <1>2, <2>2, <2>3 DEF Empty
    <2> QED BY <2>1, <2>3, <2>4
  <1>10. Idle.pc = "idle"
    BY SMTT(30) DEF Idle
  <1>11. /\ req' \in [Handlers -> Request \cup {Idle}]
         /\ req'[h] = Idle /\ \A g \in Handlers : g # h => req'[g] = req[g]
    BY <1>1, <1>2, HandlerMoves
  <1>12. CodesFollowMail'
    <2>1. \A e \in Emails : code'[e] = code[e] \/ code'[e] = 0
      BY <1>7
    <2>2. \A g \in Handlers : \/ req'[g] = req[g]
                              \/ req'[g].pc \notin {"create", "delete"}
                              \/ req'[g].k <= Len(mail) /\ Saved(req'[g].k)
      BY <1>10, <1>11
    <2>3. \A j \in spent' : \/ j \in spent
                            \/ j <= Len(mail) /\ Saved(j) /\ code'[mail[j]] # j
      BY <1>2, <1>4, <1>5, <1>7
    <2> QED BY <1>2, <1>9, <2>1, <2>2, <2>3, HashShrinks
  <1>13. TypeOK'
    BY <1>1, <1>2, <1>3, <1>6, <1>7, <1>8, <1>11 DEF TypeOK
  <1>14. RowsFollowRequests'
    <2>1. /\ served' \in Nat
          /\ served' >= served + (IF Idle.pc \in {"create", "import"} THEN 1 ELSE 0)
      BY SMTT(30), <1>1, <1>2, <1>10, AccountsAssumption DEF TypeOK
    <2> QED BY <1>2, <1>10, <2>1, RowsKept
  <1> QED BY <1>12, <1>13, <1>14 DEF IInv

\* The rows, the handlers and the count of requests stay as they are.
LEMMA RowsStay ==
    ASSUME IInv, UNCHANGED <<req, served, accounts>>, TypeOK', CodesFollowMail'
    PROVE  IInv'
  <1>1. Inserting' = Inserting /\ \A e : Importing(e)' = Importing(e) /\ Imported(e)' = Imported(e)
    BY DEF Inserting, Importing, Imported
  <1> QED BY <1>1 DEF IInv, RowsFollowRequests
-----------------------------------------------------------------------------
(* The invariant, and what follows from it.                                *)

LEMMA InitKeeps ==
    ASSUME Init
    PROVE  IInv
  <1>1. /\ mail = <<>> /\ saves = {} /\ code = Empty /\ left = 0
        /\ req = [h \in Handlers |-> Idle] /\ served = 0
        /\ accounts = <<>> /\ online = {}
        /\ kept = [k \in Codes |-> 0] /\ spent = {}
    BY DEF Init
  <1>2. 0 \in 0..MaxMail /\ 0 \in 0..Ttl /\ 0 \in 0..MaxReq /\ ~(0 > 0)
    BY SMTT(30), AccountsAssumption
  <1>3. /\ mail \in Seq(Emails) /\ Len(mail) <= MaxMail
        /\ accounts \in Seq([e : Emails, by : 0..MaxMail]) /\ Len(accounts) <= served
        /\ DOMAIN accounts = {} /\ Len(accounts) = 0
    BY SMTT(30), <1>1, AccountsAssumption
  <1>4. TypeOK
    BY <1>1, <1>2, <1>3 DEF TypeOK, Empty
  <1>5. Idle.pc = "idle" /\ \A e : Idle # [pc |-> "import", e |-> e]
    BY SMTT(30) DEF Idle
  <1>6. CodesFollowMail
    BY <1>1, <1>2, <1>5 DEF CodesFollowMail, Empty
  <1>7. Inserting = {} /\ \A e : Importing(e) = {} /\ Imported(e) = {}
    BY <1>1, <1>3, <1>5 DEF Inserting, Importing, Imported
  <1>8. Cardinality({}) = 0 /\ Cardinality(Handlers) \in Nat
    BY FS_EmptySet, FS_CardinalityType, AccountsAssumption
  <1>9. Len(accounts) + Cardinality({}) <= served
    BY SMTT(30), <1>1, <1>3, <1>8
  <1>10. Cardinality({}) + Cardinality({}) <= Cardinality(Handlers)
    BY SMTT(30), <1>8
  <1>11. RowsFollowRequests
    BY <1>1, <1>5, <1>7, <1>9, <1>10 DEF RowsFollowRequests
  <1> QED BY <1>4, <1>6, <1>11 DEF IInv

\* Whatever requests, saves and expirations interleave, the state has its type,
\* the hash holds saved codes of their own addresses for as long as promised,
\* and every row and every import under way is paid for by a request.
THEOREM InductiveInvariant == Spec => []IInv
  <1>1. ASSUME IInv, [Next]_vars PROVE IInv'
    <2>1. CASE UNCHANGED vars
      <3>1. UNCHANGED <<mail, saves, code, left, kept, req, served, accounts, online, spent>>
        BY <2>1 DEF vars, redis
      <3>2. TypeOK' /\ CodesFollowMail'
        BY <1>1, <3>1 DEF IInv, TypeOK, CodesFollowMail, Saved
      <3> QED BY <1>1, <3>1, <3>2, RowsStay
    <2>2. ASSUME NEW e \in Emails, SendEmail(e) PROVE IInv'
      BY <1>1, <2>2, SendEmailKeeps, RowsStay DEF SendEmail
    <2>3. CASE Saves
      <3>1. ASSUME NEW k \in Codes, SaveHset(k) PROVE IInv'
        BY <1>1, <3>1, SaveHsetKeeps, RowsStay DEF SaveHset
      <3>2. ASSUME NEW k \in Codes, SaveExpire(k) PROVE IInv'
        BY <1>1, <3>2, SaveExpireKeeps, RowsStay DEF SaveExpire
      <3>3. CASE SaveFails
        BY <1>1, <3>3, SaveFailsKeeps, RowsStay DEF SaveFails
      <3> QED BY <2>3, <3>1, <3>2, <3>3 DEF Saves
    <2>4. CASE Tick
      BY <1>1, <2>4, TickKeeps, RowsStay DEF Tick
    <2>5. CASE Waits
      BY <2>1, <2>5 DEF Waits
    <2>6. ASSUME NEW h \in Handlers, NEW i \in 1..MaxReq, Login(h, i) PROVE IInv'
      BY <1>1, <2>6, LoginKeeps DEF Login, VerifyPwd
    <2>7. ASSUME NEW i \in 1..MaxReq, Logout(i) PROVE IInv'
      <3>1. /\ online' \subseteq online
            /\ UNCHANGED <<mail, saves, code, left, kept, req, served, accounts, spent>>
        BY <2>7 DEF Logout, redis
      <3>2. TypeOK' /\ CodesFollowMail'
        BY <1>1, <3>1 DEF IInv, TypeOK, CodesFollowMail, Saved
      <3> QED BY <1>1, <3>1, <3>2, RowsStay
    <2> QED
      BY <1>1, <2>1, <2>2, <2>3, <2>4, <2>5, <2>6, <2>7, RegisterKeeps, CreateUserKeeps,
         DelRegisterCodeKeeps, GithubCallbackKeeps, RegisterUserKeeps, GenTokenKeeps,
         RequestFailsKeeps DEF Next
  <1> QED BY <1>1, InitKeeps, PTL DEF Spec

\* A mailed code can be used for the full time from the end of its save: the
\* saves of other addresses only prolong the time of the hash they share.
THEOREM CodeStaysUsable == Spec => []CodeUsable
  <1>1. IInv => CodeUsable
    BY DEF IInv, CodesFollowMail, CodeUsable
  <1> QED BY <1>1, InductiveInvariant, PTL

\* A code whose registration has ended is in no field, and no save that is late
\* brings it back: its own HSET came before it could be used.
THEOREM SpentIsGone == Spec => []SpentStaysSpent
  <1>1. ASSUME IInv PROVE SpentStaysSpent
    <2> SUFFICES ASSUME NEW e \in Emails, code[e] \in spent PROVE FALSE
      BY DEF SpentStaysSpent
    <2>1. code[e] \in Codes /\ code[e] > 0
      BY SMTT(30), <1>1 DEF IInv, TypeOK, Codes
    <2> QED BY <1>1, <2>1 DEF IInv, CodesFollowMail
  <1> QED BY <1>1, InductiveInvariant, PTL

\* However many GitHub callbacks run, an address gets no more imported rows
\* than there are handlers: an import starts only while nobody has the address.
THEOREM ImportsStayBounded == Spec => []ImportsBounded
  <1>1. ASSUME IInv, NEW e \in Emails
        PROVE  Cardinality(Imported(e)) <= Cardinality(Handlers)
    <2>1. /\ Cardinality(Imported(e)) \in Nat /\ Cardinality(Importing(e)) \in Nat
          /\ Cardinality(Handlers) \in Nat
      BY <1>1, CountedFinite DEF IInv
    <2>2. Cardinality(Imported(e)) + Cardinality(Importing(e)) <= Cardinality(Handlers)
      BY <1>1 DEF IInv, RowsFollowRequests
    <2> QED BY SMTT(30), <2>1, <2>2
  <1>2. IInv => ImportsBounded
    BY <1>1 DEF ImportsBounded
  <1> QED BY <1>2, InductiveInvariant, PTL

\* The time to live of the codes is lost only with the codes: HSET keeps it, and
\* EXPIRE and HDEL find the hash or its end.  This is what CodesExpire rests on.
THEOREM CodesStayMortal == Spec => StaysMortal
  <1> DEFINE Mortal == left > 0 => left' > 0 \/ code' = Empty
  <1>1. ASSUME IInv, Next PROVE [Mortal]_vars
    <2>1. left \in Nat /\ Ttl > 0
      BY SMTT(30), <1>1, AccountsAssumption DEF IInv, TypeOK
    <2>2. CASE left' = left
      BY <2>2
    <2>3. ASSUME NEW k \in Codes, SaveExpire(k) PROVE Mortal
      BY <2>1, <2>3 DEF SaveExpire, Expire
    <2>4. CASE Tick
      <3>1. left = 1 \/ left - 1 > 0 \/ ~(left > 0)
        BY SMTT(30), <2>1
      <3> QED BY <2>4, <3>1 DEF Tick
    <2>5. ASSUME NEW h \in Handlers, DelRegisterCode(h) PROVE Mortal
      BY <2>5 DEF DelRegisterCode
    <2>6. (\E k \in Codes : SaveExpire(k)) \/ Tick
          \/ (\E h \in Handlers : DelRegisterCode(h)) \/ left' = left
      BY <1>1 DEF Next, Saves, SendEmail, SaveHset, LeftAfterHset, SaveFails, Waits,
         Register, CreateUser, GithubCallback, RegisterUser, GenToken, RequestFails,
         Login, Logout, redis, vars
    <2> QED BY <2>2, <2>3, <2>4, <2>5, <2>6
  <1>2. IInv /\ [Next]_vars => [Mortal]_vars
    BY <1>1
  <1> QED BY <1>2, InductiveInvariant, PTL DEF Spec, StaysMortal
=============================================================================
