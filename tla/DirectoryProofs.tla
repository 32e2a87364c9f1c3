--------------------------- MODULE DirectoryProofs --------------------------
(***************************************************************************)
(* UserAccounts implements Directory: every request is served as if it     *)
(* were the only one.  On the way: a deleted account stays deleted, a      *)
(* failed creation leaves no row, a conflict is reported only if there was *)
(* one, and only registrations at work hold connections.                   *)
(***************************************************************************)
EXTENDS UserAccountsProofs, FiniteSetTheorems

Busy(r) == r.at \notin {"idle", "replied"}

Writes(r) == r.op \in {"register", "create"}

\* Accounts that are there or have been deleted.
Met(u) == u \in DOMAIN users \cup removed

\* Answered with an error that tells the truth.
Failed(r) == r.at = "replied" /\ r.err # "nil" /\ "lost" \notin Faults

\* The account of a request has had another address while it is served.
Elsewhere(p) == \E row \in seen[p] : row[1] # req[p].email /\ row[2] = req[p].uuid

\* Some row has justified "user already exists" while the request is served:
\* one of another account, or one that an update of the own account has left.
Conflict(p) ==
  \/ \E row \in seen[p] : row[1] = req[p].email /\ row[2] # req[p].uuid
  \/ /\ req[p].op = "update" /\ <<req[p].email, req[p].uuid>> \in seen[p]
     /\ Elsewhere(p)

\* Where a request can be, and with which error.
Placed(r) ==
  /\ r.at = "idle" => r = Idle
  /\ r.at # "idle" => r.op # "none" /\ r.id # 0
  /\ r.at \in {"begin", "rollback", "commit"} => r.op = "register"
  /\ r.at \in {"hash", "insert"} => Writes(r)
  /\ r.at = "count" => r.op # "delete"
  /\ r.at = "find" => r.op \in {"update", "delete"}
  /\ r.at \in {"update", "delete"} => r.op = r.at
  /\ Busy(r) => (r.at = "rollback" <=> r.err # "nil")
  /\ Writes(r) => r.uuid \in {0, r.id} /\ (Busy(r) => r.uuid = r.id)

\* What a request has learnt of the table: who creates an account is the only
\* one to know it before it is there, who changes one has found it.
Informed(p) ==
  LET r == req[p]
  IN  /\ r.at = "idle" => seen[p] = {}
      /\ Writes(r) /\ (Busy(r) \/ Failed(r)) =>
           ~Met(r.uuid) /\ \A row \in seen[p] : row[2] # r.uuid
      /\ r.op = "update" /\ r.at \in {"count", "update"} => Met(r.uuid)
      /\ r.at = "delete" => Met(r.uuid)
      /\ r.op = "update" /\ r.at = "count" => Elsewhere(p)
      /\ r.err = "ErrUserAlreadyExists" => Conflict(p)

Known == Seeded \cup Registered \cup 1..serial

\* The transactions that are open are those of registrations at work.
OpenInv ==
  /\ open \subseteq 1..serial
  /\ \A p \in Procs : req[p].at = "begin" => req[p].id \notin open
  /\ "panic" \notin Faults => OpenMeansAtWork

AccountsInv ==
  /\ IInv
  /\ \A p \in Procs : Placed(req[p]) /\ Informed(p)
  /\ DOMAIN users \subseteq Known /\ removed \subseteq Known
  /\ DeletedStaysDeleted
  /\ OpenInv

-----------------------------------------------------------------------------
(* What a step of a handler comes to *)

Same(r, n) == n.op = r.op /\ n.uuid = r.uuid /\ n.email = r.email /\ n.id = r.id

\* Another account has the address.
Taken(r) == \E u \in DOMAIN users : users[u] = r.email /\ u # r.uuid

\* The own account of an update has got the address since it was read.
Overtaken(p) ==
  /\ req[p].op = "update" /\ Elsewhere(p)
  /\ req[p].uuid \in DOMAIN users /\ users[req[p].uuid] = req[p].email

\* What justifies "user already exists" when it is told.
Grounds(p) == Taken(req[p]) \/ Overtaken(p) \/ Conflict(p)

\* The request goes on and has changed nothing yet.
Advances(p, r, n) ==
  /\ Busy(r) /\ Busy(n) /\ Same(r, n) /\ Placed(n) /\ n.at # "begin"
  /\ UNCHANGED <<users, removed>>
  /\ n.err = "ErrUserAlreadyExists" => Taken(r)
  /\ n.at \in {"update", "delete"} \/ (n.op = "update" /\ n.at = "count") => Met(n.uuid)
  /\ n.op = "update" /\ n.at = "count" =>
       r.uuid \in DOMAIN users /\ users[r.uuid] # r.email

\* The request is answered and has changed nothing.
IsRefused(p, r, n) ==
  /\ Busy(r) /\ n.at = "replied" /\ Same(r, n)
  /\ UNCHANGED <<users, removed>>
  /\ n.err # "nil" \/ "panic" \in Faults
  /\ n.err = "ErrUserAlreadyExists" => Grounds(p)

\* What changes the table.
Adds(r) ==
  /\ Writes(r) /\ r.email \in Emails
  /\ ~Violates(r.uuid, r.email)
  /\ users' = WithRow(r.uuid, r.email) /\ removed' = removed

Moves(r) ==
  /\ r.op = "update" /\ Met(r.uuid) /\ r.email \in Emails
  /\ IF r.uuid \in DOMAIN users
     THEN ~Violates(r.uuid, r.email) /\ users' = WithRow(r.uuid, r.email)
     ELSE users' = users
  /\ removed' = removed

Drops(r) ==
  /\ r.op = "delete" /\ Met(r.uuid)
  /\ users' = WithoutRow(r.uuid) /\ removed' = removed \cup {r.uuid}

\* The request is answered and has had its effect.
IsDone(p, r, n) ==
  /\ Busy(r) /\ n.at = "replied" /\ Same(r, n)
  /\ n.err # "ErrUserAlreadyExists"
  /\ n.err = "nil" \/ "lost" \in Faults
  /\ Adds(r) \/ Moves(r) \/ Drops(r)

Leaves(p, r, n) == r.at = "replied" /\ n = Idle /\ UNCHANGED <<users, removed>>

\* What becomes of the transaction.
OpenStep(r, n) ==
  \/ open' = open \cup {r.id} /\ r.op = "register" /\ Busy(n)
  \/ open' = open \ {r.id}
  \/ /\ open' = open
     /\ \/ r.op # "register" \/ r.at \in {"begin", "replied"} \/ Busy(n)
        \/ "panic" \in Faults

Outcome(p) ==
  LET r == req[p]
      n == req'[p]
  IN  /\ req' = [req EXCEPT ![p] = n] /\ n \in Requests /\ serial' = serial
      /\ OpenStep(r, n)
      /\ Advances(p, r, n) \/ IsRefused(p, r, n) \/ IsDone(p, r, n) \/ Leaves(p, r, n)

\* The records a step makes of a request.
LEMMA MoveOf ==
  ASSUME NEW r \in Requests, NEW x
  PROVE  LET n == [r EXCEPT !.at = x] IN Same(r, n) /\ n.at = x /\ n.err = r.err
BY DEF Requests, Same

LEMMA AnswerOf ==
  ASSUME NEW r \in Requests, NEW e
  PROVE  Same(r, Answer(r, e)) /\ Answer(r, e).at = "replied" /\ Answer(r, e).err = e
BY DEF Requests, Same, Answer

LEMMA FailOf ==
  ASSUME NEW r \in Requests, NEW e
  PROVE  /\ Same(r, Fail(r, e)) /\ Fail(r, e).err = e
         /\ Fail(r, e).at = IF r.op = "register" THEN "rollback" ELSE "replied"
BY DEF Requests, Same, Fail, Answer, Abort

LEMMA BecomeOf ==
  ASSUME req \in [Procs -> Requests], NEW p \in Procs, NEW n, Become(p, n)
  PROVE  req'[p] = n /\ req' = [req EXCEPT ![p] = n]
BY DEF Become

\* A step that only moves its request to another place.
LEMMA MoveAdvances ==
  ASSUME AccountsInv, NEW p \in Procs, NEW x \in Places,
         Become(p, [req[p] EXCEPT !.at = x]), req'[p] \in Requests, Busy(req[p]),
         x \notin {"idle", "replied", "begin", "rollback"},
         req[p].at # "rollback",
         x = "commit" => req[p].op = "register",
         x \in {"hash", "insert"} => Writes(req[p]),
         x = "count" => req[p].op # "delete",
         x # "find",
         x \in {"update", "delete"} => req[p].op = x /\ Met(req[p].uuid),
         req[p].op = "update" /\ x = "count" =>
           req[p].uuid \in DOMAIN users /\ users[req[p].uuid] # req[p].email,
         UNCHANGED <<users, removed>>
  PROVE  Advances(p, req[p], req'[p]) /\ Busy(req'[p])
<1> DEFINE r == req[p]
           n == [r EXCEPT !.at = x]
<1>1. r \in Requests /\ Placed(r)
  BY DEF AccountsInv, IInv, TypeOK
<1>2. Same(r, n) /\ n.at = x /\ n.err = r.err /\ req'[p] = n
  <2>1. Same(r, n) /\ n.at = x /\ n.err = r.err
    BY <1>1, MoveOf
  <2>2. req \in [Procs -> Requests]
    BY DEF AccountsInv, IInv, TypeOK
  <2> HIDE DEF n
  <2>3. req'[p] = n
    BY <2>2, BecomeOf DEF n
  <2>4. QED
    BY <2>1, <2>3
<1>3. r.err = "nil" /\ r.op # "none" /\ r.id # 0 /\ (Writes(r) => r.uuid = r.id)
  BY <1>1 DEF Placed, Busy
<1> HIDE DEF n
<1>4. Busy(n) /\ Placed(n)
  BY <1>2, <1>3 DEF Placed, Busy, Same, Writes
<1>5. n.op = "update" /\ n.at = "count" => Met(n.uuid)
  BY <1>2 DEF Same, Met
<1>6. n.at \in {"update", "delete"} => Met(n.uuid)
  BY <1>2 DEF Same
<1>7. n.err # "ErrUserAlreadyExists"
  BY <1>2, <1>3
<1>8. QED
  BY <1>2, <1>4, <1>5, <1>6, <1>7 DEF Advances, Same

\* A step that is answered with an error and has changed nothing.
LEMMA AnswerRefuses ==
  ASSUME AccountsInv, NEW p \in Procs, NEW e, Become(p, Answer(req[p], e)),
         Busy(req[p]), UNCHANGED <<users, removed>>,
         e # "nil" \/ "panic" \in Faults,
         e = "ErrUserAlreadyExists" => Grounds(p)
  PROVE  IsRefused(p, req[p], req'[p])
<1>1. req[p] \in Requests
  BY DEF AccountsInv, IInv, TypeOK
<1>2. req'[p] = Answer(req[p], e)
  BY BecomeOf DEF AccountsInv, IInv, TypeOK
<1>3. QED
  BY <1>1, <1>2, AnswerOf DEF IsRefused

\* A step that fails: a registration goes on to roll back, others are answered.
LEMMA FailOutcome ==
  ASSUME AccountsInv, NEW p \in Procs, NEW e, Become(p, Fail(req[p], e)),
         req[p].at \in {"count", "hash", "insert"}, UNCHANGED <<users, removed, open>>,
         e # "nil", e = "ErrUserAlreadyExists" => Grounds(p),
         e = "ErrUserAlreadyExists" /\ req[p].op = "register" => Taken(req[p])
  PROVE  /\ Advances(p, req[p], req'[p]) \/ IsRefused(p, req[p], req'[p])
         /\ OpenStep(req[p], req'[p])
<1> DEFINE r == req[p]
           n == req'[p]
<1>1. r \in Requests /\ Placed(r) /\ Busy(r)
  BY DEF AccountsInv, IInv, TypeOK, Busy
<1>2. /\ Same(r, n) /\ n.err = e
      /\ n.at = IF r.op = "register" THEN "rollback" ELSE "replied"
  BY <1>1, FailOf, BecomeOf DEF AccountsInv, IInv, TypeOK
<1> HIDE DEF n
<1>3. CASE r.op = "register"
  <2>1. Busy(n) /\ n.at = "rollback"
    BY <1>2, <1>3 DEF Busy
  <2>2. Placed(n)
    BY <1>1, <1>2, <1>3, <2>1 DEF Placed, Same, Writes, Busy
  <2>3. Advances(p, r, n)
    BY <1>1, <1>2, <1>3, <2>1, <2>2 DEF Advances, Same
  <2>4. QED
    BY <2>1, <2>3 DEF OpenStep, n
<1>4. CASE r.op # "register"
  <2>1. IsRefused(p, r, n)
    BY <1>1, <1>2, <1>4 DEF IsRefused
  <2>2. QED
    BY <1>4, <2>1 DEF OpenStep, n
<1>5. QED
  BY <1>3, <1>4

\* Every step of a handler has one of these outcomes.
LEMMA ServeOutcome ==
  ASSUME AccountsInv, NEW p \in Procs, Serve(p)
  PROVE  Outcome(p)
<1> DEFINE r == req[p]
           n == req'[p]
           Kind == Advances(p, r, n) \/ IsRefused(p, r, n) \/ IsDone(p, r, n) \/ Leaves(p, r, n)
<1>0. /\ req \in [Procs -> Requests] /\ r \in Requests /\ Placed(r) /\ Informed(p)
      /\ Shape(r) /\ IInv
  BY DEF AccountsInv, IInv, TypeOK
<1>a. RequestStep(p) /\ serial' = serial
  BY <1>0, ServeStep
<1>b. req' = [req EXCEPT ![p] = n] /\ n \in Requests
  BY <1>a DEF RequestStep, NextRequest
<1>c. SUFFICES Kind /\ OpenStep(r, n)
  BY <1>a, <1>b DEF Outcome
<1>e. r.at \in {"insert", "commit", "update"} => r.email \in Emails
  BY <1>0 DEF Shape, Placed, Writes
<1>m. ASSUME NEW x, x \in Places, Become(p, [r EXCEPT !.at = x]), Busy(r),
             x \notin {"idle", "replied", "begin", "rollback", "find"},
             r.at # "rollback",
             x = "commit" => r.op = "register",
             x \in {"hash", "insert"} => Writes(r),
             x = "count" => r.op # "delete",
             x \in {"update", "delete"} => r.op = x /\ Met(r.uuid),
             r.op = "update" /\ x = "count" =>
               r.uuid \in DOMAIN users /\ users[r.uuid] # r.email,
             UNCHANGED <<users, removed, open>>
      PROVE  Kind /\ OpenStep(r, n)
  <2>1. Advances(p, r, n) /\ Busy(n)
    BY <1>b, <1>m, MoveAdvances
  <2>2. QED
    BY <1>m, <2>1 DEF OpenStep
<1>w. ASSUME NEW e, Become(p, Answer(r, e)), Busy(r), r.at = "begin" \/ r.op # "register",
             UNCHANGED <<users, removed, open>>, e # "nil", e # "ErrUserAlreadyExists"
      PROVE  Kind /\ OpenStep(r, n)
  <2>1. IsRefused(p, r, n)
    BY <1>w, AnswerRefuses
  <2>2. QED
    BY <1>w, <2>1 DEF OpenStep
<1>f. ASSUME NEW e, Become(p, Fail(r, e)), r.at \in {"count", "hash", "insert"},
             UNCHANGED <<users, removed, open>>, e # "nil",
             e = "ErrUserAlreadyExists" => Grounds(p),
             e = "ErrUserAlreadyExists" /\ r.op = "register" => Taken(r)
      PROVE  Kind /\ OpenStep(r, n)
  BY <1>f, FailOutcome
<1>d. ASSUME NEW e, Become(p, Answer(r, e)), Busy(r), e # "ErrUserAlreadyExists",
             e = "nil" \/ "lost" \in Faults, Adds(r) \/ Moves(r) \/ Drops(r)
      PROVE  IsDone(p, r, n)
  BY <1>0, <1>d, AnswerOf, BecomeOf DEF IsDone
<1>1. CASE BeginTx(p)
  <2>1. r.at = "begin" /\ r.op = "register" /\ Busy(r)
    BY <1>0, <1>1 DEF BeginTx, Placed, Busy
  <2>2. CASE open' = open \cup {r.id} /\ Become(p, [r EXCEPT !.at = "count"])
    <3>1. Advances(p, r, n) /\ Busy(n)
      BY <1>1, <1>b, <2>1, <2>2, MoveAdvances DEF BeginTx, Places
    <3>2. QED
      BY <2>1, <2>2, <3>1 DEF OpenStep
  <2>3. CASE Become(p, Answer(r, "driver")) /\ open' = open
    BY <1>1, <1>w, <2>1, <2>3 DEF BeginTx
  <2>4. QED
    BY <1>1, <2>2, <2>3 DEF BeginTx
<1>2. CASE FindByUUID(p)
  <2>1. r.at = "find" /\ r.op \in {"update", "delete"} /\ Busy(r)
        /\ UNCHANGED <<users, removed, open>>
    BY <1>0, <1>2 DEF FindByUUID, Placed, Busy
  <2>2. CASE r.uuid \in DOMAIN users /\ ~Become(p, Answer(r, "ErrUserNotFound"))
    <3>1. Met(r.uuid)
      BY <2>2 DEF Met
    <3>2. CASE r.op = "delete"
      <4>1. Become(p, [r EXCEPT !.at = "delete"])
        BY <1>2, <2>2, <3>2 DEF FindByUUID
      <4>2. QED
        BY <1>m, <2>1, <3>1, <3>2, <4>1 DEF Places
    <3>3. CASE r.op = "update" /\ users[r.uuid] # r.email
      <4>1. Become(p, [r EXCEPT !.at = "count"])
        BY <1>2, <2>2, <3>3 DEF FindByUUID
      <4>2. QED
        BY <1>m, <2>1, <2>2, <3>1, <3>3, <4>1 DEF Places
    <3>4. CASE r.op = "update" /\ users[r.uuid] = r.email
      <4>1. Become(p, [r EXCEPT !.at = "update"])
        BY <1>2, <2>2, <3>4 DEF FindByUUID
      <4>2. QED
        BY <1>m, <2>1, <3>1, <3>4, <4>1 DEF Places
    <3>5. QED
      BY <2>1, <3>2, <3>3, <3>4
  <2>3. CASE Become(p, Answer(r, "ErrUserNotFound"))
    BY <1>w, <2>1, <2>3
  <2>4. QED
    BY <1>2, <2>2, <2>3 DEF FindByUUID
<1>3. CASE CountByEmail(p)
  <2>1. r.at = "count" /\ r.op \in {"register", "create", "update"} /\ Busy(r)
        /\ UNCHANGED <<users, removed, open>>
    BY <1>0, <1>3 DEF CountByEmail, Placed, Busy, Requests, Ops
  <2>2. CASE /\ \E u \in DOMAIN users : users[u] = r.email
             /\ Become(p, Fail(r, "ErrUserAlreadyExists"))
    <3>1. Writes(r) => Taken(r)
      BY <1>0, <2>1, <2>2 DEF Informed, Met, Taken
    <3>2. r.op = "update" => Taken(r) \/ Overtaken(p)
      BY <1>0, <2>1, <2>2 DEF Informed, Taken, Overtaken
    <3>3. Grounds(p)
      BY <2>1, <3>1, <3>2 DEF Writes, Grounds
    <3>4. r.op = "register" => Taken(r)
      BY <3>1 DEF Writes
    <3>5. QED
      BY <1>f, <2>1, <2>2, <3>3, <3>4
  <2>3. CASE Become(p, [r EXCEPT !.at = IF r.op = "update" THEN "update" ELSE "hash"])
    <3>1. CASE r.op = "update"
      <4>1. Met(r.uuid)
        BY <1>0, <2>1, <3>1 DEF Informed
      <4>2. QED
        BY <1>m, <2>1, <2>3, <3>1, <4>1 DEF Places
    <3>2. CASE r.op # "update"
      BY <1>m, <2>1, <2>3, <3>2 DEF Places, Writes
    <3>3. QED
      BY <3>1, <3>2
  <2>4. ASSUME NEW e \in {"ErrDatabaseError", "ErrInternalServerError"},
               Become(p, Fail(r, e))
        PROVE  Kind /\ OpenStep(r, n)
    BY <1>f, <2>1, <2>4
  <2>5. QED
    BY <1>3, <2>2, <2>3, <2>4 DEF CountByEmail
<1>4. CASE HashPassword(p)
  <2>1. r.at = "hash" /\ Writes(r) /\ Busy(r) /\ UNCHANGED <<users, removed, open>>
    BY <1>0, <1>4 DEF HashPassword, Placed, Busy
  <2>2. CASE Become(p, [r EXCEPT !.at = "insert"])
    BY <1>m, <2>1, <2>2 DEF Places
  <2>3. CASE Become(p, Fail(r, "ErrPasswordEncryption"))
    BY <1>f, <2>1, <2>3
  <2>4. ASSUME NEW e \in {"nil", "panic"}, "panic" \in Faults, Become(p, Answer(r, e))
        PROVE  Kind /\ OpenStep(r, n)
    <3>1. IsRefused(p, r, n)
      BY <2>1, <2>4, AnswerRefuses
    <3>2. QED
      BY <2>1, <2>4, <3>1 DEF OpenStep
  <2>5. QED
    BY <1>4, <2>2, <2>3, <2>4 DEF HashPassword
<1>5. CASE InsertUser(p)
  <2>1. r.at = "insert" /\ Writes(r) /\ Busy(r) /\ UNCHANGED <<removed, open>>
        /\ r.email \in Emails
    BY <1>0, <1>5, <1>e DEF InsertUser, Placed, Busy
  <2>2. CASE r.op = "register"
    <3>1. users' = users
      BY <1>5, <2>2 DEF InsertUser, GetExecutor
    <3>2. \/ Become(p, [r EXCEPT !.at = "commit"])
          \/ Become(p, Fail(r, "ErrUserCreationFailed"))
      BY <1>5, <2>2 DEF InsertUser
    <3>3. CASE Become(p, [r EXCEPT !.at = "commit"])
      BY <1>m, <2>1, <2>2, <3>1, <3>3 DEF Places
    <3>4. CASE Become(p, Fail(r, "ErrUserCreationFailed"))
      BY <1>f, <2>1, <3>1, <3>4
    <3>5. QED
      BY <3>2, <3>3, <3>4
  <2>3. CASE r.op # "register"
    <3>1. GetExecutor(r) # "tx" /\ \A e : Fail(r, e) = Answer(r, e)
      BY <2>3 DEF GetExecutor, Fail
    <3>2. OpenStep(r, n)
      BY <2>1, <2>3 DEF OpenStep
    <3>3. CASE /\ ~Violates(r.uuid, r.email) /\ users' = WithRow(r.uuid, r.email)
               /\ \/ Become(p, Answer(r, "nil"))
                  \/ "lost" \in Faults /\ Become(p, Answer(r, "ErrInternalServerError"))
      <4>1. Adds(r)
        BY <2>1, <3>3 DEF Adds
      <4>2. QED
        BY <1>d, <2>1, <3>2, <3>3, <4>1
    <3>4. CASE users' = users /\ Become(p, Answer(r, "ErrInternalServerError"))
      BY <1>w, <2>1, <2>3, <3>4
    <3>5. QED
      BY <1>5, <2>3, <3>1, <3>3, <3>4 DEF InsertUser
  <2>4. QED
    BY <2>2, <2>3
<1>6. CASE Commit(p)
  <2>1. r.at = "commit" /\ r.op = "register" /\ Busy(r) /\ removed' = removed
        /\ open' = open \ {r.id} /\ r.email \in Emails /\ ~Violates(r.uuid, r.email)
    BY <1>0, <1>6, <1>e DEF Commit, Placed, Busy, IInv, EmailsUnique
  <2>2. OpenStep(r, n)
    BY <2>1 DEF OpenStep
  <2>3. CASE /\ users' = WithRow(r.uuid, r.email)
             /\ \/ Become(p, Answer(r, "nil"))
                \/ "lost" \in Faults /\ Become(p, Answer(r, "driver"))
    <3>1. Adds(r)
      BY <2>1, <2>3 DEF Adds, Writes
    <3>2. QED
      BY <1>d, <2>1, <2>2, <2>3, <3>1
  <2>4. CASE users' = users /\ Become(p, Answer(r, "driver"))
    <3>1. IsRefused(p, r, n)
      BY <2>1, <2>4, AnswerRefuses
    <3>2. QED
      BY <2>2, <3>1
  <2>5. QED
    BY <1>6, <2>3, <2>4 DEF Commit
<1>7. CASE Rollback(p)
  <2>1. r.at = "rollback" /\ Busy(r) /\ UNCHANGED <<users, removed>>
        /\ open' = open \ {r.id} /\ Become(p, Answer(r, r.err)) /\ r.err # "nil"
    BY <1>0, <1>7 DEF Rollback, Placed, Busy
  <2>2. r.err = "ErrUserAlreadyExists" => Conflict(p)
    BY <1>0 DEF Informed
  <2>3. IsRefused(p, r, n)
    BY <2>1, <2>2, AnswerRefuses DEF Grounds
  <2>4. QED
    BY <2>1, <2>3 DEF OpenStep
<1>8. CASE UpdateUser(p)
  <2>1. r.at = "update" /\ r.op = "update" /\ Busy(r) /\ Met(r.uuid)
        /\ UNCHANGED <<removed, open>> /\ r.email \in Emails
    BY <1>0, <1>8, <1>e DEF UpdateUser, Placed, Busy, Informed
  <2>2. OpenStep(r, n)
    BY <2>1 DEF OpenStep
  <2>3. CASE /\ users' = (IF r.uuid \in DOMAIN users THEN WithRow(r.uuid, r.email) ELSE users)
             /\ ~(r.uuid \in DOMAIN users /\ Violates(r.uuid, r.email))
             /\ \/ Become(p, Answer(r, "nil"))
                \/ "lost" \in Faults /\ Become(p, Answer(r, "ErrInternalServerError"))
    <3>1. Moves(r)
      BY <2>1, <2>3 DEF Moves
    <3>2. QED
      BY <1>d, <2>1, <2>2, <2>3, <3>1
  <2>4. CASE users' = users /\ Become(p, Answer(r, "ErrInternalServerError"))
    BY <1>w, <2>1, <2>4
  <2>5. QED
    BY <1>8, <2>3, <2>4 DEF UpdateUser
<1>9. CASE DeleteUser(p)
  <2>1. r.at = "delete" /\ r.op = "delete" /\ Busy(r) /\ Met(r.uuid) /\ open' = open
    BY <1>0, <1>9 DEF DeleteUser, Placed, Busy, Informed
  <2>2. OpenStep(r, n)
    BY <2>1 DEF OpenStep
  <2>3. CASE /\ users' = WithoutRow(r.uuid) /\ removed' = removed \cup {r.uuid}
             /\ \/ Become(p, Answer(r, "nil"))
                \/ "lost" \in Faults /\ Become(p, Answer(r, "ErrInternalServerError"))
    <3>1. Drops(r)
      BY <2>1, <2>3 DEF Drops
    <3>2. QED
      BY <1>d, <2>1, <2>2, <2>3, <3>1
  <2>4. CASE UNCHANGED <<users, removed>> /\ Become(p, Answer(r, "ErrInternalServerError"))
    BY <1>w, <2>1, <2>4
  <2>5. QED
    BY <1>9, <2>3, <2>4 DEF DeleteUser
<1>10. CASE Deliver(p)
  <2>1. r.at = "replied" /\ n = Idle /\ UNCHANGED <<users, removed, open>>
    BY <1>0, <1>10, BecomeOf DEF Deliver
  <2>2. QED
    BY <2>1 DEF Leaves, OpenStep
<1> QED
  BY <1>1, <1>2, <1>3, <1>4, <1>5, <1>6, <1>7, <1>8, <1>9, <1>10 DEF Serve

-----------------------------------------------------------------------------
(* The invariant is preserved *)

LEMMA InitAccounts == Init => AccountsInv
<1>1. SUFFICES ASSUME Init  PROVE AccountsInv
  OBVIOUS
<1>2. IInv
  BY <1>1, InitInv
<1>3. \A p \in Procs : req[p] = Idle
  BY <1>1 DEF Init
<1>4. Placed(Idle)
  BY DEF Placed, Idle, Busy, Writes
<1>5. \A p \in Procs : Informed(p)
  BY <1>1, <1>3 DEF Init, Informed, Idle, Writes
<1>6. DOMAIN users \subseteq Known /\ removed \subseteq Known /\ DeletedStaysDeleted
  BY <1>1 DEF Init, Known, DeletedStaysDeleted
<1>7. OpenInv
  BY <1>1 DEF Init, OpenInv, OpenMeansAtWork
<1>8. QED
  BY <1>2, <1>3, <1>4, <1>5, <1>6, <1>7 DEF AccountsInv

\* Accounts that were met stay met, and only a creation adds one, its own.
LEMMA MetStep ==
  ASSUME AccountsInv, NEW p \in Procs, Outcome(p), NEW u
  PROVE  /\ Met(u) => u \in DOMAIN users' \cup removed'
         /\ u \in DOMAIN users' \cup removed' =>
              Met(u) \/ (Adds(req[p]) /\ Busy(req[p]) /\ u = req[p].uuid)
<1> DEFINE r == req[p]
<1>1. CASE UNCHANGED <<users, removed>>
  BY <1>1 DEF Met
<1>2. CASE IsDone(p, r, req'[p])
  <2>1. CASE Adds(r)
    BY <1>2, <2>1 DEF Adds, Met, WithRow, IsDone
  <2>2. CASE Moves(r)
    BY <2>2 DEF Moves, Met, WithRow
  <2>3. CASE Drops(r)
    BY <2>3 DEF Drops, Met, WithoutRow
  <2>4. QED
    BY <1>2, <2>1, <2>2, <2>3 DEF IsDone
<1>3. QED
  BY <1>1, <1>2 DEF Outcome, Advances, IsRefused, Leaves

\* The number of a request in service is its own.
LEMMA NumberOf ==
  ASSUME AccountsInv, NEW p \in Procs, req[p].at # "idle"
  PROVE  /\ req[p].id \in 1..serial
         /\ \A q \in Procs : q # p /\ req[q].at # "idle" => req[q].id # req[p].id
<1>1. req[p] \in Requests /\ serial \in Nat /\ req[p].id <= serial /\ Placed(req[p])
  BY DEF AccountsInv, IInv, TypeOK, NumbersApart
<1>2. req[p].id \in Nat /\ req[p].id # 0
  BY <1>1 DEF Requests, Placed
<1>3. \A q \in Procs : q # p /\ req[q].at # "idle" => req[q].id # req[p].id
  BY DEF AccountsInv, IInv, NumbersApart
<1>4. QED
  BY <1>1, <1>2, <1>3

LEMMA NotIdle ==
  ASSUME NEW p \in Procs, Outcome(p)
  PROVE  req[p].at # "idle"
BY DEF Outcome, Advances, IsRefused, IsDone, Leaves, Busy

\* The accounts stay apart from the deleted ones, and all are known.
LEMMA TablesKeep ==
  ASSUME AccountsInv, NEW p \in Procs, Outcome(p)
  PROVE  /\ DOMAIN users' \cup removed' \subseteq Known'
         /\ DeletedStaysDeleted'
<1> DEFINE r == req[p]
<1>1. Placed(r) /\ Informed(p) /\ Known' = Known
  BY DEF AccountsInv, Outcome, Known
<1>2. ASSUME Busy(r), Writes(r)
      PROVE  r.uuid \in Known /\ ~Met(r.uuid)
  <2>1. r.uuid \in 1..serial
    BY <1>1, <1>2, NumberOf DEF Placed, Busy
  <2>2. QED
    BY <1>1, <1>2, <2>1 DEF Informed, Known
<1>3. DOMAIN users' \cup removed' \subseteq Known
  BY <1>2, MetStep DEF AccountsInv, Adds, Met
<1>4. removed' \cap DOMAIN users' = {}
  <2>1. CASE UNCHANGED <<users, removed>>
    BY <2>1 DEF AccountsInv, DeletedStaysDeleted
  <2>2. CASE IsDone(p, r, req'[p])
    <3>1. CASE Adds(r)
      BY <1>2, <2>2, <3>1
         DEF Adds, Met, WithRow, IsDone, AccountsInv, DeletedStaysDeleted
    <3>2. CASE Moves(r)
      BY <3>2 DEF Moves, WithRow, AccountsInv, DeletedStaysDeleted
    <3>3. CASE Drops(r)
      BY <3>3 DEF Drops, WithoutRow, AccountsInv, DeletedStaysDeleted
    <3>4. QED
      BY <2>2, <3>1, <3>2, <3>3 DEF IsDone
  <2>3. QED
    BY <2>1, <2>2 DEF Outcome, Advances, IsRefused, Leaves
<1>5. QED
  BY <1>1, <1>3, <1>4 DEF DeletedStaysDeleted

\* What a request in service sees.
LEMMA SeenOf ==
  ASSUME AccountsInv, Observe, NEW p \in Procs, req'[p].at # "idle"
  PROVE  seen'[p] = seen[p] \cup Rows(users) \cup Rows(users')
BY DEF Observe

\* Other requests know what they knew.
LEMMA OthersInformed ==
  ASSUME AccountsInv, NEW p \in Procs, Outcome(p), Observe, NEW q \in Procs, q # p
  PROVE  Placed(req[q])' /\ Informed(q)'
<1> DEFINE r == req[p]
           o == req[q]
<1>1. req'[q] = o /\ Placed(o) /\ Informed(q) /\ Placed(r)
  BY DEF AccountsInv, Outcome, IInv, TypeOK
<1>2. Placed(req[q])'
  BY <1>1 DEF Placed, Busy, Writes
<1>3. o.at # "idle" => seen'[q] = seen[q] \cup Rows(users) \cup Rows(users')
  BY <1>1, SeenOf
<1>4. o.at # "idle" => (Conflict(q) => Conflict(q)') /\ (Elsewhere(q) => Elsewhere(q)')
  BY <1>1, <1>3 DEF Conflict, Elsewhere
<1>5. ASSUME Writes(o), Busy(o) \/ Failed(o)
      PROVE  o.uuid \notin DOMAIN users' \cup removed'
             /\ \A row \in seen'[q] : row[2] # o.uuid
  <2>1. o.at # "idle" /\ ~Met(o.uuid) /\ \A row \in seen[q] : row[2] # o.uuid
    BY <1>1, <1>5 DEF Informed, Busy, Failed
  <2>2. ASSUME Busy(r), Writes(r)  PROVE o.uuid # r.uuid
    <3>1. r.uuid = r.id /\ r.id \in 1..serial /\ o.id # r.id
      BY <1>1, <2>1, <2>2, NumberOf DEF Placed, Busy
    <3>2. o.uuid \in {0, o.id}
      BY <1>1, <1>5 DEF Placed
    <3>3. QED
      BY <3>1, <3>2 DEF AccountsInv, IInv, TypeOK
  <2>3. o.uuid \notin DOMAIN users' \cup removed'
    BY <2>1, <2>2, MetStep DEF Adds
  <2>4. QED
    BY <1>3, <2>1, <2>3 DEF Rows, Met
<1>6. \A u : Met(u) => Met(u)'
  BY MetStep DEF Met
<1>7. o.err = "ErrUserAlreadyExists" => o.at # "idle"
  BY <1>1 DEF Placed, Idle
<1>8. o.at = "idle" => seen'[q] = {}
  BY <1>1 DEF Observe
<1>9. Informed(q)'
  BY <1>1, <1>4, <1>5, <1>6, <1>7, <1>8 DEF Informed, Met, Writes, Busy, Failed
<1>10. QED
  BY <1>2, <1>9

\* And so does the request that has made the step.
LEMMA SelfInformed ==
  ASSUME AccountsInv, NEW p \in Procs, Outcome(p), Observe
  PROVE  Placed(req[p])' /\ Informed(p)'
<1> DEFINE r == req[p]
           n == req'[p]
<1>1. Placed(r) /\ Informed(p)
  BY DEF AccountsInv
<1>2. ASSUME n.at # "idle", Same(r, n)
      PROVE  Grounds(p) => Conflict(p)'
  <2>1. seen'[p] = seen[p] \cup Rows(users) \cup Rows(users')
    BY <1>2, SeenOf
  <2>2. n.op = r.op /\ n.uuid = r.uuid /\ n.email = r.email
    BY <1>2 DEF Same
  <2>3. \A u \in DOMAIN users : <<users[u], u>> \in seen'[p]
    BY <2>1 DEF Rows
  <2>4. Elsewhere(p) => Elsewhere(p)'
    BY <2>1, <2>2 DEF Elsewhere
  <2>5. Taken(r) => Conflict(p)'
    BY <2>2, <2>3 DEF Taken, Conflict
  <2>6. Overtaken(p) => Conflict(p)'
    BY <2>2, <2>3, <2>4 DEF Overtaken, Conflict
  <2>7. Conflict(p) => Conflict(p)'
    BY <2>1, <2>2, <2>4 DEF Conflict
  <2>8. QED
    BY <2>5, <2>6, <2>7 DEF Grounds
<1>4. r.op # "none" /\ r.id # 0
  BY <1>1, NotIdle DEF Placed
<1>5. CASE Advances(p, r, n)
  <2>1. Placed(n) /\ Same(r, n) /\ Busy(r) /\ Busy(n) /\ UNCHANGED <<users, removed>>
    BY <1>5 DEF Advances
  <2>2. seen'[p] = seen[p] \cup Rows(users)
    BY <2>1, SeenOf DEF Busy, Rows
  <2>3. Writes(n) => n.uuid \notin DOMAIN users' \cup removed'
                     /\ \A row \in seen'[p] : row[2] # n.uuid
    BY <1>1, <2>1, <2>2 DEF Informed, Same, Writes, Met, Rows
  <2>4. ASSUME n.op = "update", n.at = "count"  PROVE Elsewhere(p)'
    <3>1. r.uuid \in DOMAIN users /\ users[r.uuid] # r.email
      BY <1>5, <2>4 DEF Advances
    <3>2. <<users[r.uuid], r.uuid>> \in seen'[p]
      BY <2>2, <3>1 DEF Rows
    <3>3. users[r.uuid] # n.email /\ r.uuid = n.uuid
      BY <2>1, <3>1 DEF Same
    <3>4. QED
      BY <3>2, <3>3 DEF Elsewhere
  <2>5. n.err = "ErrUserAlreadyExists" => Conflict(p)'
    BY <1>2, <1>5, <2>1 DEF Advances, Grounds, Busy
  <2>6. n.at \in {"update", "delete"} \/ (n.op = "update" /\ n.at = "count")
          => n.uuid \in DOMAIN users' \cup removed'
    BY <1>5, <2>1 DEF Advances, Met
  <2>7. Informed(p)'
    BY <2>1, <2>3, <2>4, <2>5, <2>6 DEF Informed, Met, Writes, Busy
  <2>8. QED
    BY <2>1, <2>7 DEF Placed, Busy, Writes
<1>6. CASE IsRefused(p, r, n) \/ IsDone(p, r, n)
  <2>1. n.at = "replied" /\ Same(r, n) /\ Busy(r)
    BY <1>6 DEF IsRefused, IsDone
  <2>2. n.op # "none" /\ n.id # 0 /\ (Writes(n) => n.uuid \in {0, n.id})
    BY <1>1, <1>4, <2>1 DEF Same, Placed, Writes
  <2>3. Placed(n)
    BY <2>1, <2>2 DEF Placed, Busy
  <2>4. ASSUME Writes(n), Failed(n)
        PROVE  n.uuid \notin DOMAIN users' \cup removed'
               /\ \A row \in seen'[p] : row[2] # n.uuid
    <3>1. UNCHANGED <<users, removed>>
      BY <1>6, <2>4 DEF IsRefused, IsDone, Failed
    <3>2. seen'[p] = seen[p] \cup Rows(users)
      BY <2>1, <3>1, SeenOf DEF Rows
    <3>3. QED
      BY <1>1, <2>1, <2>4, <3>1, <3>2 DEF Informed, Same, Writes, Met, Rows
  <2>5. n.err = "ErrUserAlreadyExists" => Conflict(p)'
    BY <1>2, <1>6, <2>1 DEF IsRefused, IsDone
  <2>6. Informed(p)'
    BY <2>1, <2>4, <2>5 DEF Informed, Met, Writes, Busy, Failed
  <2>7. QED
    BY <2>3, <2>6 DEF Placed, Busy, Writes
<1>7. CASE Leaves(p, r, n)
  BY <1>7 DEF Leaves, Observe, Idle, Placed, Informed, Writes, Busy
<1>8. QED
  BY <1>5, <1>6, <1>7 DEF Outcome

\* Open transactions stay those of registrations at work.
LEMMA OpenKeeps ==
  ASSUME AccountsInv, NEW p \in Procs, Outcome(p)
  PROVE  OpenInv'
<1> DEFINE r == req[p]
           n == req'[p]
<1>1. /\ r.at # "idle" /\ r.id \in 1..serial /\ serial' = serial
      /\ \A q \in Procs \ {p} : req'[q] = req[q]
      /\ \A q \in Procs \ {p} : req[q].at # "idle" => req[q].id # r.id
  BY NotIdle, NumberOf DEF Outcome, AccountsInv, IInv, TypeOK
<1>2. OpenStep(r, n) /\ OpenInv /\ \A q \in Procs : Placed(req[q])
  BY DEF Outcome, AccountsInv
<1>3. open' \subseteq 1..serial'
  BY <1>1, <1>2 DEF OpenStep, OpenInv
<1>4. n.at # "begin"
  BY DEF Outcome, Advances, IsRefused, IsDone, Leaves, Idle
<1>5. ASSUME NEW q \in Procs, req'[q].at = "begin"
      PROVE  req'[q].id \notin open'
  <2>1. q # p /\ req'[q] = req[q] /\ req[q].id # r.id /\ req[q].id \notin open
    BY <1>1, <1>2, <1>4, <1>5 DEF OpenInv
  <2>2. QED
    BY <1>2, <2>1 DEF OpenStep
<1>6. ASSUME "panic" \notin Faults, NEW id \in open'
      PROVE  \E q \in Procs : /\ req'[q].id = id /\ req'[q].op = "register"
                              /\ req'[q].at # "replied"
  <2>1. Busy(n) => Same(r, n) /\ n.at # "replied"
    BY DEF Outcome, Advances, IsRefused, IsDone, Leaves, Busy, Idle
  <2>2. CASE id = r.id /\ r.op = "register" /\ Busy(n)
    BY <2>1, <2>2 DEF Same
  <2>3. CASE id \in open /\ ~(id = r.id /\ r.op = "register" /\ Busy(n))
    <3>1. PICK q \in Procs : /\ req[q].id = id /\ req[q].op = "register"
                             /\ req[q].at # "replied"
      BY <1>2, <1>6, <2>3 DEF OpenInv, OpenMeansAtWork, Answered
    <3>2. CASE q = p
      <4>1. r.id \in open /\ r.id \in open' /\ r.op = "register" /\ r.at # "replied"
        BY <1>6, <2>3, <3>1, <3>2
      <4>2. r.at # "begin"
        BY <1>2, <4>1 DEF OpenInv
      <4>3. Busy(n)
        BY <1>2, <1>6, <4>1, <4>2 DEF OpenStep
      <4>4. QED
        BY <2>3, <3>1, <3>2, <4>3
    <3>3. CASE q # p
      BY <1>1, <3>1, <3>3
    <3>4. QED
      BY <3>2, <3>3
  <2>4. QED
    BY <1>2, <2>2, <2>3 DEF OpenStep
<1>7. QED
  BY <1>3, <1>5, <1>6 DEF OpenInv, OpenMeansAtWork, Answered

LEMMA ServeKeeps ==
  ASSUME AccountsInv, IInv', NEW p \in Procs, Outcome(p), Observe
  PROVE  AccountsInv'
<1>1. \A q \in Procs : Placed(req[q])' /\ Informed(q)'
  BY OthersInformed, SelfInformed
<1>2. QED
  BY <1>1, TablesKeep, OpenKeeps DEF AccountsInv

\* What a request is when it has arrived: ahead of its first step, or refused.
Arrived(n) ==
  /\ n \in Requests /\ n.op # "none" /\ n.id = serial + 1
  /\ n.at \in {"begin", "count", "find", "replied"}
  /\ n.at = "begin" => n.op = "register"
  /\ n.at = "count" => n.op = "create"
  /\ n.at = "find" => n.op \in {"update", "delete"}
  /\ n.err = IF n.at = "replied" THEN "ErrBadRequest" ELSE "nil"
  /\ Writes(n) => n.uuid \in {0, n.id} /\ (n.at # "replied" => n.uuid = n.id)

LEMMA ArriveOutcome ==
  ASSUME AccountsInv, NEW p \in Procs, Arrive(p)
  PROVE  /\ req[p].at = "idle" /\ req' = [req EXCEPT ![p] = req'[p]]
         /\ Arrived(req'[p])
         /\ UNCHANGED <<users, open, removed>> /\ serial' = serial + 1
<1> DEFINE Comes(n) == req[p].at = "idle" /\ Become(p, n) /\ Arrived(n)
                       /\ UNCHANGED <<users, open, removed>>
<1>1. serial \in Nat /\ serial + 1 \in Nat /\ Nat \subseteq Uuids
      /\ req \in [Procs -> Requests]
  BY DEF AccountsInv, IInv, TypeOK, Uuids
<1>2. ASSUME NEW e \in Emails, StartRegister(p, e)
      PROVE  \E n : Comes(n)
  <2> DEFINE n == [Idle EXCEPT !.op = "register", !.at = "begin", !.id = serial + 1,
                               !.uuid = serial + 1, !.email = e]
  <2>1. Arrived(n)
    BY <1>1 DEF Idle, Requests, Ops, Places, Errors, Arrived, Writes
  <2>2. QED
    BY <1>2, <2>1 DEF StartRegister
<1>3. ASSUME NEW e \in Emails, StartCreate(p, e)
      PROVE  \E n : Comes(n)
  <2> DEFINE n == [Idle EXCEPT !.op = "create", !.at = "count", !.id = serial + 1,
                               !.uuid = serial + 1, !.email = e]
  <2>1. Arrived(n)
    BY <1>1 DEF Idle, Requests, Ops, Places, Errors, Arrived, Writes
  <2>2. QED
    BY <1>3, <2>1 DEF StartCreate
<1>4. ASSUME NEW e \in Emails, NEW u \in Uuids, StartUpdate(p, u, e)
      PROVE  \E n : Comes(n)
  <2> DEFINE n == [Idle EXCEPT !.op = "update", !.at = "find", !.id = serial + 1,
                               !.uuid = u, !.email = e]
  <2>1. Arrived(n)
    BY <1>1 DEF Idle, Requests, Ops, Places, Errors, Arrived, Writes
  <2>2. QED
    BY <1>4, <2>1 DEF StartUpdate
<1>5. ASSUME NEW u \in Uuids, StartDelete(p, u)
      PROVE  \E n : Comes(n)
  <2> DEFINE n == [Idle EXCEPT !.op = "delete", !.at = "find", !.id = serial + 1,
                               !.uuid = u]
  <2>1. Arrived(n)
    BY <1>1 DEF Idle, Requests, Ops, Places, Errors, Arrived, Writes
  <2>2. QED
    BY <1>5, <2>1 DEF StartDelete
<1>6. ASSUME NEW e \in Emails, NEW o \in {"register", "create", "update"},
             BadRequest(p, o, e)
      PROVE  \E n : Comes(n)
  <2> DEFINE n == [Idle EXCEPT !.op = o, !.at = "replied", !.id = serial + 1,
                               !.email = e, !.err = "ErrBadRequest"]
  <2>1. Arrived(n)
    BY <1>1 DEF Idle, Requests, Ops, Places, Errors, Arrived, Writes
  <2>2. QED
    BY <1>6, <2>1 DEF BadRequest
<1>7. Seeded \cup Registered \cup 1..serial \subseteq Uuids
  BY <1>1 DEF Uuids
<1>8. \E n : Comes(n)
  BY <1>2, <1>3, <1>4, <1>5, <1>6, <1>7 DEF Arrive
<1>9. QED
  BY <1>1, <1>8, BecomeOf DEF Arrive

\* An arrival preserves the invariant.
LEMMA ArriveKeeps ==
  ASSUME AccountsInv, IInv', NEW p \in Procs, Arrive(p), Observe
  PROVE  AccountsInv'
<1> DEFINE n == req'[p]
<1>1. /\ req[p].at = "idle" /\ Arrived(n) /\ UNCHANGED <<users, open, removed>>
      /\ serial' = serial + 1 /\ serial \in Nat
      /\ \A q \in Procs \ {p} : req'[q] = req[q]
  BY ArriveOutcome DEF AccountsInv, IInv, TypeOK
<1>2. Known \subseteq Known' /\ 1..serial \subseteq 1..serial'
  BY <1>1 DEF Known
<1>3. n.uuid \in {0, serial + 1} => ~Met(n.uuid)
  BY <1>1, AccountsAssumption DEF AccountsInv, Known, Met
<1>4. \A q \in Procs : req'[q].at # "idle" => seen'[q] = seen[q] \cup Rows(users)
  BY <1>1, SeenOf
<1>5. ASSUME NEW q \in Procs \ {p}
      PROVE  Placed(req[q])' /\ Informed(q)'
  <2>1. Placed(req[q]) /\ Informed(q) /\ req'[q] = req[q]
    BY <1>1 DEF AccountsInv
  <2>2. req[q].at # "idle" =>
          (Conflict(q) => Conflict(q)') /\ (Elsewhere(q) => Elsewhere(q)')
    BY <1>4, <2>1 DEF Conflict, Elsewhere
  <2>3. req[q].at = "idle" => /\ req[q].err = "nil" /\ req[q].op = "none"
                              /\ seen'[q] = {}
    BY <2>1 DEF Placed, Idle, Observe
  <2>4. QED
    BY <1>1, <1>4, <2>1, <2>2, <2>3
       DEF Informed, Placed, Met, Writes, Busy, Failed, Rows
<1>6. Placed(n)
  BY <1>1 DEF Arrived, Placed, Writes, Busy
<1>7. seen'[p] = Rows(users) /\ n.at # "idle"
  <2>1. seen[p] = {}
    BY <1>1 DEF AccountsInv, Informed
  <2>2. n.at # "idle"
    BY <1>1 DEF Arrived
  <2>3. QED
    BY <1>4, <2>1, <2>2
<1>8. ASSUME Writes(n)
      PROVE  ~Met(n.uuid) /\ \A row \in seen'[p] : row[2] # n.uuid
  <2>1. ~Met(n.uuid)
    BY <1>1, <1>3, <1>8 DEF Arrived
  <2>2. QED
    BY <1>7, <2>1 DEF Rows, Met
<1>9. Informed(p)'
  BY <1>1, <1>7, <1>8 DEF Informed, Arrived, Writes, Busy, Failed, Met
<1>10. OpenInv'
  <2>1. n.id \notin open /\ OpenInv
    BY <1>1 DEF AccountsInv, OpenInv, Arrived
  <2>2. open' \subseteq 1..serial'
    BY <1>1, <1>2, <2>1 DEF OpenInv
  <2>3. \A q \in Procs : req'[q].at = "begin" => req'[q].id \notin open'
    BY <1>1, <2>1 DEF OpenInv
  <2>4. OpenMeansAtWork => OpenMeansAtWork'
    <3>1. SUFFICES ASSUME OpenMeansAtWork, NEW id \in open
                   PROVE  \E q \in Procs : /\ req'[q].id = id /\ req'[q].op = "register"
                                           /\ req'[q].at # "replied"
      BY <1>1 DEF OpenMeansAtWork, Answered
    <3>2. PICK q \in Procs : /\ req[q].id = id /\ req[q].op = "register"
                             /\ req[q].at # "replied"
      BY <3>1 DEF OpenMeansAtWork, Answered
    <3>3. q # p
      BY <1>1, <3>2 DEF AccountsInv, Placed, Idle
    <3>4. QED
      BY <1>1, <3>2, <3>3
  <2>5. QED
    BY <2>1, <2>2, <2>3, <2>4 DEF OpenInv
<1>11. DOMAIN users' \subseteq Known' /\ removed' \subseteq Known' /\ DeletedStaysDeleted'
  BY <1>1, <1>2 DEF AccountsInv, DeletedStaysDeleted
<1>12. \A q \in Procs : Placed(req[q])' /\ Informed(q)'
  BY <1>5, <1>6, <1>9 DEF Placed, Writes, Busy
<1>13. QED
  BY <1>10, <1>11, <1>12 DEF AccountsInv

\* So does the end of a transaction whose context is over.
LEMMA CancelKeeps ==
  ASSUME AccountsInv, IInv', NEW id \in open, CancelContext(id), Observe
  PROVE  AccountsInv'
<1>1. UNCHANGED <<users, req, serial, removed>> /\ open' = open \ {id}
  BY DEF CancelContext
<1>2. ASSUME NEW q \in Procs
      PROVE  Placed(req[q])' /\ Informed(q)'
  <2>1. Placed(req[q]) /\ Informed(q) /\ req'[q] = req[q]
    BY <1>1 DEF AccountsInv
  <2>2. req[q].at # "idle" => seen'[q] = seen[q] \cup Rows(users)
    BY <1>1, SeenOf
  <2>3. req[q].at # "idle" =>
          (Conflict(q) => Conflict(q)') /\ (Elsewhere(q) => Elsewhere(q)')
    BY <2>1, <2>2 DEF Conflict, Elsewhere
  <2>4. req[q].at = "idle" => /\ req[q].err = "nil" /\ req[q].op = "none"
                              /\ seen'[q] = {}
    BY <2>1 DEF Placed, Idle, Observe
  <2>5. QED
    BY <1>1, <2>1, <2>2, <2>3, <2>4
       DEF Informed, Placed, Met, Writes, Busy, Failed, Rows
<1>3. OpenInv'
  BY <1>1 DEF AccountsInv, OpenInv, OpenMeansAtWork, Answered
<1>4. QED
  BY <1>1, <1>2, <1>3 DEF AccountsInv, Known, DeletedStaysDeleted

LEMMA StepAccounts == AccountsInv /\ [Next]_vars => AccountsInv'
<1>1. SUFFICES ASSUME AccountsInv, [Next]_vars  PROVE AccountsInv'
  OBVIOUS
<1>2. IInv'
  BY <1>1, StepInv DEF AccountsInv
<1>3. CASE UNCHANGED vars
  <2>1. UNCHANGED <<users, open, req, serial, seen, removed>>
    BY <1>3 DEF vars
  <2>2. \A p \in Procs : Placed(req[p])' /\ Informed(p)'
    BY <1>1, <2>1 DEF AccountsInv, Placed, Informed, Conflict, Elsewhere, Met, Writes, Busy,
                         Failed
  <2>3. OpenInv'
    BY <1>1, <2>1 DEF AccountsInv, OpenInv, OpenMeansAtWork, Answered
  <2>4. QED
    BY <1>1, <1>2, <2>1, <2>2, <2>3 DEF AccountsInv, Known, DeletedStaysDeleted
<1>4. CASE Next
  <2>1. ASSUME NEW p \in Procs, Serve(p)  PROVE AccountsInv'
    BY <1>1, <1>2, <1>4, <2>1, ServeOutcome, ServeKeeps DEF Next
  <2>2. ASSUME NEW p \in Procs, Arrive(p)  PROVE AccountsInv'
    BY <1>1, <1>2, <1>4, <2>2, ArriveKeeps DEF Next
  <2>3. ASSUME NEW id \in open, CancelContext(id)  PROVE AccountsInv'
    BY <1>1, <1>2, <1>4, <2>3, CancelKeeps DEF Next
  <2>4. QED
    BY <1>4, <2>1, <2>2, <2>3 DEF Next
<1>5. QED
  BY <1>1, <1>3, <1>4

\* The invariant of the accounts holds in every state the services reach.
THEOREM AccountsInvariance == Spec => []AccountsInv
<1>1. QED
  BY InitAccounts, StepAccounts, PTL DEF Spec

\* No update, creation or registration brings back an account whose row has
\* been deleted, whatever fails (DeleteUser, UpdateUser).
THEOREM DeletedForGood == Spec => []DeletedStaysDeleted
<1>1. AccountsInv => DeletedStaysDeleted
  BY DEF AccountsInv
<1>2. QED
  BY <1>1, AccountsInvariance, PTL

\* "User already exists" is told only if, while the request was served, another
\* account had the address, or the own account of an update had this address as
\* well as another one, whatever fails (Register, CreateUser, UpdateUser).
THEOREM ConflictsReal == Spec => []ConflictMeansTaken
<1>1. AccountsInv => ConflictMeansTaken
  BY DEF AccountsInv, Informed, Conflict, Elsewhere, ConflictMeansTaken
<1>2. QED
  BY <1>1, AccountsInvariance, PTL

\* As long as no answer of the database is lost, a failed registration or
\* creation has left no row at any time, also if hashing panics
\* (UnitOfWork.Do, CreateUser).
THEOREM FailuresLeaveNothing ==
  ASSUME "lost" \notin Faults
  PROVE  Spec => []FailedLeavesNoRow
<1>1. AccountsInv => FailedLeavesNoRow
  BY DEF AccountsInv, Informed, Failed, Writes, Answered, FailedLeavesNoRow
<1>2. QED
  BY <1>1, AccountsInvariance, PTL

\* As long as nothing panics, every open transaction is that of a registration
\* at work, also if answers of the database are lost (UnitOfWork.Do).
THEOREM ConnectionsReturned ==
  ASSUME "panic" \notin Faults
  PROVE  Spec => []OpenMeansAtWork
<1>1. AccountsInv => OpenMeansAtWork
  BY DEF AccountsInv, OpenInv
<1>2. QED
  BY <1>1, AccountsInvariance, PTL

-----------------------------------------------------------------------------
(* What success means *)

\* What a client that is told "success" may rely on.
Effective(p) ==
  LET r == req[p]
  IN  Succeeded(p) =>
        /\ Writes(r) => <<r.email, r.uuid>> \in seen[p]
        /\ r.op = "update" => <<r.email, r.uuid>> \in seen[p] \/ r.uuid \in removed
        /\ r.op = "delete" => r.uuid \in removed

\* A step that has its effect leaves the row where its request sees it.
LEMMA DoneEffective ==
  ASSUME AccountsInv, NEW p \in Procs, Outcome(p), Observe,
         IsDone(p, req[p], req'[p])
  PROVE  Effective(p)'
<1> DEFINE r == req[p]
           n == req'[p]
<1>1. Same(r, n) /\ n.at = "replied"
  BY DEF IsDone
<1>2. seen'[p] = seen[p] \cup Rows(users) \cup Rows(users')
  BY <1>1, SeenOf
<1>3. users' = WithRow(r.uuid, r.email) => <<n.email, n.uuid>> \in seen'[p]
  <2>1. SUFFICES ASSUME users' = WithRow(r.uuid, r.email)
                 PROVE  <<n.email, n.uuid>> \in seen'[p]
    OBVIOUS
  <2>2. r.uuid \in DOMAIN users' /\ users'[r.uuid] = r.email
    BY <2>1 DEF WithRow
  <2>3. <<r.email, r.uuid>> \in Rows(users')
    BY <2>2 DEF Rows
  <2>4. QED
    BY <1>1, <1>2, <2>3 DEF Same
<1>4. CASE Adds(r)
  BY <1>1, <1>3, <1>4 DEF Adds, Effective, Writes, Same
<1>5. CASE Moves(r)
  <2>1. n.op = "update" /\ n.uuid = r.uuid /\ removed' = removed
    BY <1>1, <1>5 DEF Moves, Same
  <2>2. r.uuid \in DOMAIN users => users' = WithRow(r.uuid, r.email)
    BY <1>5 DEF Moves
  <2>3. r.uuid \notin DOMAIN users => r.uuid \in removed
    BY <1>5 DEF Moves, Met
  <2>4. QED
    BY <1>3, <2>1, <2>2, <2>3 DEF Effective, Writes
<1>6. CASE Drops(r)
  BY <1>1, <1>6 DEF Drops, Effective, Writes, Same
<1>7. QED
  BY <1>4, <1>5, <1>6 DEF IsDone

\* What has been seen or deleted stays so while a request waits for delivery.
LEMMA EffectiveKept ==
  ASSUME AccountsInv, NEW p \in Procs, Effective(p), Observe,
         req'[p] = req[p], removed \subseteq removed'
  PROVE  Effective(p)'
<1>1. req[p].at = "replied" => seen[p] \subseteq seen'[p]
  BY SeenOf
<1>2. QED
  BY <1>1 DEF Effective, Succeeded, Answered, Writes

LEMMA StepEffective ==
  ASSUME "panic" \notin Faults
  PROVE  /\ AccountsInv /\ (\A p \in Procs : Effective(p)) /\ [Next]_vars
         => (\A p \in Procs : Effective(p))'
<1>1. SUFFICES ASSUME AccountsInv, \A p \in Procs : Effective(p), [Next]_vars,
                      NEW q \in Procs
               PROVE  Effective(q)'
  OBVIOUS
<1>2. CASE UNCHANGED vars
  BY <1>1, <1>2 DEF vars, Effective, Succeeded, Answered, Writes
<1>3. ASSUME NEW p \in Procs, Serve(p), Observe
      PROVE  Effective(q)'
  <2>1. Outcome(p)
    BY <1>1, <1>3, ServeOutcome
  <2>2. removed \subseteq removed'
    BY <2>1 DEF Outcome, Advances, IsRefused, IsDone, Leaves, Adds, Moves, Drops
  <2>3. CASE q # p
    <3>1. req'[q] = req[q]
      BY <1>1, <2>1, <2>3 DEF Outcome, AccountsInv, IInv, TypeOK
    <3>2. QED
      BY <1>1, <1>3, <2>2, <3>1, EffectiveKept
  <2>4. CASE q = p /\ IsDone(p, req[p], req'[p])
    BY <1>1, <1>3, <2>1, <2>4, DoneEffective
  <2>5. CASE q = p /\ ~IsDone(p, req[p], req'[p])
    <3>1. req'[p].at # "replied" \/ req'[p].err # "nil"
      BY <2>1, <2>5 DEF Outcome, Advances, IsRefused, Leaves, Busy, Idle
    <3>2. QED
      BY <2>5, <3>1 DEF Effective, Succeeded, Answered
  <2>6. QED
    BY <2>3, <2>4, <2>5
<1>4. ASSUME NEW p \in Procs, Arrive(p), Observe
      PROVE  Effective(q)'
  <2>1. Arrived(req'[p]) /\ removed' = removed /\ req' = [req EXCEPT ![p] = req'[p]]
    BY <1>1, <1>4, ArriveOutcome
  <2>2. CASE q # p
    <3>1. req'[q] = req[q]
      BY <1>1, <2>1, <2>2 DEF AccountsInv, IInv, TypeOK
    <3>2. QED
      BY <1>1, <1>4, <2>1, <3>1, EffectiveKept
  <2>3. CASE q = p
    <3>1. ~(req'[p].at = "replied" /\ req'[p].err = "nil")
      BY <2>1 DEF Arrived
    <3>2. QED
      BY <2>3, <3>1 DEF Effective, Succeeded, Answered
  <2>4. QED
    BY <2>2, <2>3
<1>5. ASSUME NEW id \in open, CancelContext(id), Observe
      PROVE  Effective(q)'
  <2>1. req'[q] = req[q] /\ removed' = removed
    BY <1>5 DEF CancelContext
  <2>2. QED
    BY <1>1, <1>5, <2>1, EffectiveKept
<1>6. QED
  BY <1>1, <1>2, <1>3, <1>4, <1>5 DEF Next

\* As long as nothing panics, success means effect, whatever else fails: who
\* creates an account sees it in the table before the answer, who changes one
\* sees the new address there unless the account has been deleted, and what is
\* deleted is gone (Register, CreateUser, UpdateUser, DeleteUser).  The clause
\* about deleted accounts is all that UpdatedMeansStored lacks.
THEOREM SuccessHasEffect ==
  ASSUME "panic" \notin Faults
  PROVE  Spec => [](\A p \in Procs : Effective(p))
<1>1. Init => \A p \in Procs : Effective(p)
  BY DEF Init, Idle, Effective, Succeeded, Answered
<1>2. QED
  BY <1>1, StepEffective, AccountsInvariance, PTL DEF Spec

\* A panic while a registration is served is the only way in which it can be
\* told "success" without having stored the account (Register).
THEOREM RegistrationsStored ==
  ASSUME "panic" \notin Faults
  PROVE  Spec => []RegisteredMeansStored
<1>1. (\A p \in Procs : Effective(p)) => RegisteredMeansStored
  BY DEF Effective, RegisteredMeansStored, Writes
<1>2. QED
  BY <1>1, SuccessHasEffect, PTL

-----------------------------------------------------------------------------
(* Who waits for whom *)

\* Only registrations keep a connection between two statements.
Holders == \A p \in Procs : req[p].id \in open => req[p].op = "register"

LEMMA StepHolders == AccountsInv /\ Holders /\ [Next]_vars => Holders'
<1>1. SUFFICES ASSUME AccountsInv, Holders, [Next]_vars, NEW q \in Procs,
                      req'[q].id \in open'
               PROVE  req'[q].op = "register"
  BY DEF Holders
<1>2. req \in [Procs -> Requests] /\ open \subseteq 1..serial /\ serial \in Nat
      /\ AccountsInv'
  BY <1>1, StepAccounts DEF AccountsInv, IInv, TypeOK, OpenInv
<1>3. req'[q].id # 0
  BY <1>1, <1>2 DEF AccountsInv, OpenInv
<1>4. CASE UNCHANGED vars
  BY <1>1, <1>4 DEF vars, Holders
<1>5. ASSUME NEW p \in Procs, Serve(p)
      PROVE  req'[q].op = "register"
  <2> DEFINE r == req[p]
             n == req'[p]
  <2>1. /\ req' = [req EXCEPT ![p] = n] /\ OpenStep(r, n) /\ r.at # "idle"
        /\ Same(r, n) \/ n = Idle
    BY <1>1, <1>5, ServeOutcome, NotIdle
       DEF Outcome, Advances, IsRefused, IsDone, Leaves
  <2>2. CASE q = p
    <3>1. n.id = r.id /\ n.op = r.op
      BY <1>3, <2>1, <2>2 DEF Same, Idle
    <3>2. QED
      BY <1>1, <2>1, <2>2, <3>1 DEF OpenStep, Holders
  <2>3. CASE q # p
    <3>1. req'[q] = req[q]
      BY <1>2, <2>1, <2>3
    <3>2. req[q].at # "idle"
      BY <1>1, <1>3, <3>1 DEF AccountsInv, Placed, Idle
    <3>3. req[q].id # r.id
      BY <1>1, <2>1, <2>3, <3>2, NumberOf
    <3>4. QED
      BY <1>1, <2>1, <3>1, <3>3 DEF OpenStep, Holders
  <2>4. QED
    BY <2>2, <2>3
<1>6. ASSUME NEW p \in Procs, Arrive(p)
      PROVE  req'[q].op = "register"
  <2>1. req'[p].id = serial + 1 /\ open' = open /\ req' = [req EXCEPT ![p] = req'[p]]
    BY <1>1, <1>6, ArriveOutcome DEF Arrived
  <2>2. q # p
    BY <1>1, <1>2, <2>1
  <2>3. QED
    BY <1>1, <1>2, <2>1, <2>2 DEF Holders
<1>7. ASSUME NEW id \in open, CancelContext(id)
      PROVE  req'[q].op = "register"
  BY <1>1, <1>7 DEF CancelContext, Holders
<1>8. QED
  BY <1>1, <1>4, <1>5, <1>6, <1>7 DEF Next

\* A registration that has inserted its row waits for nothing.
LEMMA RowHolderMoves ==
  ASSUME NEW p \in Procs, WaitsForRow(p)
  PROVE  \E q \in Procs : Busy(req[q]) /\ ~WaitsForConnection(q) /\ ~WaitsForRow(q)
<1>1. PICK q \in Procs : req[q].at = "commit"
  BY DEF WaitsForRow, Reserved
<1>2. Busy(req[q]) /\ ~WaitsForConnection(q) /\ ~WaitsForRow(q)
  BY <1>1 DEF Busy, WaitsForConnection, WaitsForRow
<1>3. QED
  BY <1>2

\* Whoever waits for a connection waits for a registration inside its
\* transaction, which takes no second one, or for a transaction that is over.
LEMMA ConnectionHolderMoves ==
  ASSUME AccountsInv, Holders, NEW p \in Procs, WaitsForConnection(p)
  PROVE  NoCircularWait
<1>1. open # {}
  <2>1. Cardinality({}) = 0
    BY FS_EmptySet
  <2>2. QED
    BY <2>1, AccountsAssumption DEF WaitsForConnection
<1>2. PICK id : id \in open
  BY <1>1
<1>3. CASE \A q \in Procs : req[q].id = id => Answered(q)
  BY <1>2, <1>3 DEF NoCircularWait
<1>4. CASE \E q \in Procs : req[q].id = id /\ ~Answered(q)
  <2>1. PICK q \in Procs : req[q].id = id /\ req[q].at # "replied"
    BY <1>4 DEF Answered
  <2>2. req[q].at # "idle"
    BY <1>2, <2>1 DEF AccountsInv, Placed, Idle, OpenInv
  <2>3. req[q].op = "register" /\ req[q].at # "begin"
    BY <1>2, <2>1 DEF Holders, AccountsInv, OpenInv
  <2>4. ~WaitsForConnection(q)
    BY <2>3 DEF WaitsForConnection, GetExecutor
  <2>5. CASE WaitsForRow(q)
    BY <2>5, RowHolderMoves DEF NoCircularWait, Busy
  <2>6. CASE ~WaitsForRow(q)
    BY <2>1, <2>2, <2>4, <2>6 DEF NoCircularWait
  <2>7. QED
    BY <2>5, <2>6
<1>5. QED
  BY <1>3, <1>4

\* However small the pool and whatever fails, requests never all wait for one
\* another: a transaction takes no second connection, takes its row last, and
\* then waits for nothing (UnitOfWork.Do, getExecutor).
THEOREM NobodyWaitsInACircle == Spec => []NoCircularWait
<1>1. Init => Holders
  BY DEF Init, Holders
<1>2. AccountsInv /\ Holders => NoCircularWait
  <2>1. SUFFICES ASSUME AccountsInv, Holders  PROVE NoCircularWait
    OBVIOUS
  <2>2. CASE \E p \in Procs : WaitsForConnection(p)
    BY <2>1, <2>2, ConnectionHolderMoves
  <2>3. CASE \E p \in Procs : WaitsForRow(p)
    BY <2>3, RowHolderMoves DEF NoCircularWait, Busy
  <2>4. CASE \A p \in Procs : ~WaitsForConnection(p) /\ ~WaitsForRow(p)
    BY <2>4 DEF NoCircularWait
  <2>5. QED
    BY <2>2, <2>3, <2>4
<1>3. QED
  BY <1>1, <1>2, StepHolders, AccountsInvariance, PTL DEF Spec

-----------------------------------------------------------------------------
(* The refinement *)

\* The variable ask of Directory under the refinement mapping.
AllAsks == [p \in Procs |-> AskOf(req[p])]

LEMMA AsksOf ==
  ASSUME NEW p \in Procs, NEW n, req' = [req EXCEPT ![p] = n],
         req \in [Procs -> Requests]
  PROVE  AllAsks' = [AllAsks EXCEPT ![p] = AskOf(n)]
<1>1. req'[p] = n /\ \A q \in Procs \ {p} : req'[q] = req[q]
  OBVIOUS
<1>2. \A q \in Procs : AllAsks'[q] = AskOf(req'[q])
  BY DEF AllAsks, AskOf
<1>3. AllAsks' = [q \in Procs |-> AskOf(req'[q])]
  BY DEF AllAsks, AskOf
<1>4. QED
  BY <1>1, <1>3 DEF AllAsks

\* An answer is what the client is told, and nothing else.
LEMMA TellsOf ==
  ASSUME NEW p \in Procs, NEW r, NEW n, r = req[p], Busy(r), Same(r, n),
         n.at = "replied", r.op # "none", AllAsks' = [AllAsks EXCEPT ![p] = AskOf(n)]
  PROVE  Atomic!Tell(p, IF n.err = "nil" THEN "done" ELSE "refused")
<1> DEFINE told == IF n.err = "nil" THEN "done" ELSE "refused"
<1>1. AskOf(r) = [op |-> r.op, uuid |-> r.uuid, email |-> r.email, told |-> "nothing"]
  BY DEF AskOf, Busy
<1>2. AskOf(n) = [op |-> r.op, uuid |-> r.uuid, email |-> r.email, told |-> told]
  BY DEF AskOf, Same
<1>3. AskOf(n) = [AskOf(r) EXCEPT !.told = told]
  BY <1>1, <1>2
<1>4. AllAsks[p] = AskOf(r)
  BY DEF AllAsks
<1>5. AskOf(r).op # "none" /\ AskOf(r).told = "nothing"
  BY <1>1
<1>6. QED
  BY <1>3, <1>4, <1>5 DEF Atomic!Tell, AllAsks

\* A step of a handler is a step of the directory, or none.
LEMMA ServeRefines ==
  ASSUME AccountsInv, Faults \cap {"lost", "panic"} = {}, NEW p \in Procs, Outcome(p)
  PROVE  Atomic!Next \/ UNCHANGED <<users, removed, AllAsks>>
<1> DEFINE r == req[p]
           n == req'[p]
<1>1. /\ Placed(r) /\ Informed(p) /\ r \in Requests
      /\ AllAsks' = [AllAsks EXCEPT ![p] = AskOf(n)] /\ AllAsks[p] = AskOf(r)
  BY AsksOf DEF AccountsInv, IInv, TypeOK, Outcome, AllAsks
<1>2. r.op # "none"
  BY <1>1, NotIdle DEF Placed
<1>3. CASE Advances(p, r, n)
  <2>1. AskOf(n) = AskOf(r)
    BY <1>3 DEF Advances, Same, Busy, AskOf
  <2>2. QED
    BY <1>1, <1>3, <2>1 DEF Advances, AllAsks
<1>4. CASE IsRefused(p, r, n)
  <2>1. Atomic!Tell(p, "refused")
    BY <1>1, <1>2, <1>4, TellsOf DEF IsRefused
  <2>2. Atomic!Refuse(p)
    BY <1>4, <2>1 DEF IsRefused, Atomic!Refuse
  <2>3. QED
    BY <2>2 DEF Atomic!Next
<1>5. CASE IsDone(p, r, n)
  <2>1. Atomic!Tell(p, "done")
    BY <1>1, <1>2, <1>5, TellsOf DEF IsDone
  <2>2. AllAsks[p].op = r.op /\ AllAsks[p].uuid = r.uuid /\ AllAsks[p].email = r.email
    BY <1>1 DEF AskOf
  <2>3. \A u, e : ~Violates(u, e) => Atomic!Free(u, e)
    BY DEF Violates, Atomic!Free
  <2>4. CASE Adds(r)
    <3>1. r.uuid \notin DOMAIN users \cup removed
      BY <1>1, <1>5, <2>4 DEF Informed, IsDone, Adds, Met
    <3>2. Atomic!Add(p)
      BY <2>1, <2>2, <2>3, <2>4, <3>1
         DEF Adds, Writes, Atomic!Add, Atomic!With, WithRow, AllAsks
    <3>3. QED
      BY <3>2 DEF Atomic!Next
  <2>5. CASE Moves(r)
    <3>1. Atomic!Move(p)
      BY <2>1, <2>2, <2>3, <2>5
         DEF Moves, Met, Atomic!Move, Atomic!With, WithRow, AllAsks
    <3>2. QED
      BY <3>1 DEF Atomic!Next
  <2>6. CASE Drops(r)
    <3>1. Atomic!Remove(p)
      BY <2>1, <2>2, <2>6
         DEF Drops, Met, Atomic!Remove, Atomic!Without, WithoutRow, AllAsks
    <3>2. QED
      BY <3>1 DEF Atomic!Next
  <2>7. QED
    BY <1>5, <2>4, <2>5, <2>6 DEF IsDone
<1>6. CASE Leaves(p, r, n)
  <2>1. AskOf(n) = Atomic!NoAsk
    BY <1>6 DEF Leaves, AskOf, Idle, Atomic!NoAsk
  <2>2. AskOf(r).told # "nothing"
    BY <1>6 DEF Leaves, AskOf
  <2>3. Atomic!Leave(p)
    BY <1>1, <1>6, <2>1, <2>2 DEF Leaves, Atomic!Leave, AllAsks
  <2>4. QED
    BY <2>3 DEF Atomic!Next
<1>7. QED
  BY <1>3, <1>4, <1>5, <1>6 DEF Outcome

\* An arrival is a client that asks.
LEMMA ArriveRefines ==
  ASSUME AccountsInv, NEW p \in Procs, Arrive(p)
  PROVE  Atomic!Next
<1> DEFINE n == req'[p]
<1>1. /\ req[p].at = "idle" /\ Arrived(n) /\ UNCHANGED <<users, removed>>
      /\ AllAsks' = [AllAsks EXCEPT ![p] = AskOf(n)]
  BY ArriveOutcome, AsksOf DEF AccountsInv, IInv, TypeOK
<1>2. AllAsks[p] = Atomic!NoAsk
  BY <1>1 DEF AccountsInv, Placed, Idle, AllAsks, AskOf, Atomic!NoAsk
<1>3. AllAsks'[p] = AskOf(n)
  BY <1>1 DEF AllAsks
<1>4. n.op \in {"register", "create", "update", "delete"} /\ n.uuid \in Uuids
      /\ n.email \in Emails \cup {"none"}
      /\ n.err = IF n.at = "replied" THEN "ErrBadRequest" ELSE "nil"
  BY <1>1 DEF Arrived, Requests, Ops
<1>5. AskOf(n) \in Atomic!Asks
  BY <1>4 DEF AskOf, Atomic!Asks
<1>6. Atomic!Ask(p)
  BY <1>1, <1>2, <1>3, <1>5 DEF Atomic!Ask, AllAsks
<1>7. QED
  BY <1>6 DEF Atomic!Next

\* As long as no answer of the database is lost and nothing panics, the services
\* implement the directory: every request has its whole effect at once or none
\* (Register, CreateUser, UpdateUser, DeleteUser).
THEOREM AccountsRefinement ==
  ASSUME Faults \cap {"lost", "panic"} = {}
  PROVE  Spec => ImplementsDirectory
<1>1. Init => Atomic!Init
  BY DEF Init, Atomic!Init, Atomic!NoAsk, AskOf, Idle
<1>2. AccountsInv /\ [Next]_vars => [Atomic!Next]_<<users, removed, AllAsks>>
  <2>1. SUFFICES ASSUME AccountsInv, [Next]_vars
                 PROVE  Atomic!Next \/ UNCHANGED <<users, removed, AllAsks>>
    OBVIOUS
  <2>2. ASSUME NEW p \in Procs, Serve(p)
        PROVE  Atomic!Next \/ UNCHANGED <<users, removed, AllAsks>>
    BY <2>1, <2>2, ServeOutcome, ServeRefines
  <2>3. ASSUME NEW p \in Procs, Arrive(p)
        PROVE  Atomic!Next
    BY <2>1, <2>3, ArriveRefines
  <2>4. CASE UNCHANGED vars \/ \E id \in open : CancelContext(id)
    <3>1. UNCHANGED <<users, removed, req>>
      BY <2>4 DEF vars, CancelContext
    <3>2. QED
      BY <3>1 DEF AllAsks, AskOf
  <2>5. QED
    BY <2>1, <2>2, <2>3, <2>4 DEF Next
<1>3. QED
  BY <1>1, <1>2, AccountsInvariance, PTL DEF Spec, ImplementsDirectory, Atomic!Spec, AllAsks
=============================================================================
