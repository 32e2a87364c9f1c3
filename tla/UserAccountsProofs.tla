------------------------- MODULE UserAccountsProofs -------------------------
(***************************************************************************)
(* Proofs about UserAccounts: type correctness, and that no two accounts   *)
(* ever have one address, for any number of concurrent requests.           *)
(***************************************************************************)
EXTENDS UserAccounts, TLAPS

\* What the steps of a request rely on: everything but a deletion asks for an
\* address, and only a registration commits.
Shape(r) ==
  /\ r.op \in {"register", "create", "update"} => r.email \in Emails
  /\ r.op = "none" => r.at = "idle"
  /\ r.op = "delete" => r.at \in {"find", "delete", "replied"}
  /\ r.at = "commit" => r.op = "register"

\* Requests in service have numbers of their own.
NumbersApart ==
  /\ \A p \in Procs : req[p].id <= serial
  /\ \A p, q \in Procs :
       p # q /\ req[p].at # "idle" /\ req[q].at # "idle" => req[p].id # req[q].id

\* Two transactions never hold uncommitted rows with one address.
ReservationsApart ==
  \A p, q \in Procs :
    p # q /\ req[p].at = "commit" /\ req[q].at = "commit"
      => req[p].email # req[q].email

\* EmailsUnique alone is not inductive: it says nothing of two registrations
\* that have both inserted, nor why an insert notices the other's row.
IInv ==
  /\ TypeOK
  /\ \A p \in Procs : Shape(req[p])
  /\ NumbersApart
  /\ ReservationsApart
  /\ EmailsUnique

\* Writing one row keeps the table a table.
LEMMA WithRowType ==
  ASSUME TypeOK, NEW u \in Uuids, NEW e \in Emails
  PROVE  /\ DOMAIN WithRow(u, e) = DOMAIN users \cup {u}
         /\ DOMAIN WithRow(u, e) \subseteq Uuids
         /\ \A v \in DOMAIN WithRow(u, e) : WithRow(u, e)[v] \in Emails
BY DEF TypeOK, WithRow

\* Writing a row whose address nobody else has keeps addresses unique.
LEMMA WithRowUnique ==
  ASSUME NEW u, NEW e, ~Violates(u, e),
         \A v, w \in DOMAIN users : users[v] = users[w] => v = w
  PROVE  \A v, w \in DOMAIN WithRow(u, e) :
           WithRow(u, e)[v] = WithRow(u, e)[w] => v = w
BY DEF WithRow, Violates

\* The initial states.
LEMMA InitInv == Init => IInv
BY AccountsAssumption
   DEF Init, IInv, TypeOK, Shape, NumbersApart, ReservationsApart, EmailsUnique,
       Idle, Requests, Ops, Places, Errors, Uuids, Violates

\* A step changes the table in one of three ways: not at all, by one row whose
\* address is free, or by dropping one row.
TableStep(r) ==
  \/ users' = users
  \/ /\ ~Violates(r.uuid, r.email) /\ r.email \in Emails
     /\ users' = WithRow(r.uuid, r.email)
     /\ r.at = "commit" \/ ~Reserved(r)
  \/ users' = WithoutRow(r.uuid)

\* What a step of process p makes of its request r: r moves on, or is over.
NextRequest(p, r, n) ==
  /\ n \in Requests /\ Shape(n)
  /\ n = Idle \/ n.id = r.id
  /\ n.at = "commit" =>
       /\ users' = users /\ ~Reserved(r) /\ ~Violates(n.uuid, n.email)
       /\ n.email = r.email

RequestStep(p) ==
  /\ req' = [req EXCEPT ![p] = req'[p]]
  /\ NextRequest(p, req[p], req'[p])

\* A request that moves on without committing.
Moved(r, n) == n \in Requests /\ Shape(n) /\ n.id = r.id /\ n.at # "commit"

\* A request that only changes its place keeps its shape.
LEMMA PlaceMoves ==
  ASSUME NEW r \in Requests, Shape(r), r.op # "none",
         NEW x \in Places, x # "commit", r.op = "delete" => x = "delete"
  PROVE  Moved(r, [r EXCEPT !.at = x])
<1> DEFINE n == [r EXCEPT !.at = x]
<1>1. n \in Requests
  BY DEF Requests
<1>2. n.op = r.op /\ n.email = r.email /\ n.id = r.id /\ n.at = x
  BY DEF Requests
<1>3. QED
  BY <1>1, <1>2 DEF Moved, Shape

\* So does one that is answered.
LEMMA AnswerMoves ==
  ASSUME NEW r \in Requests, Shape(r), r.op # "none", NEW e \in Errors
  PROVE  Moved(r, Answer(r, e))
<1> DEFINE n == Answer(r, e)
<1>1. n \in Requests
  BY DEF Requests, Answer, Places
<1>2. n.op = r.op /\ n.email = r.email /\ n.id = r.id /\ n.at = "replied"
  BY DEF Requests, Answer
<1>3. QED
  BY <1>1, <1>2 DEF Moved, Shape

\* So does one whose step fails.
LEMMA FailMoves ==
  ASSUME NEW r \in Requests, Shape(r), r.op # "none", NEW e \in Errors
  PROVE  Moved(r, Fail(r, e))
<1>1. CASE r.op = "register"
  <2> DEFINE n == Abort(r, e)
  <2>1. n \in Requests
    BY DEF Requests, Abort, Places
  <2>2. n.op = r.op /\ n.email = r.email /\ n.id = r.id /\ n.at = "rollback"
    BY DEF Requests, Abort
  <2>3. QED
    BY <1>1, <2>1, <2>2 DEF Moved, Shape, Fail
<1>2. CASE r.op # "register"
  BY <1>2, AnswerMoves DEF Fail
<1>3. QED
  BY <1>1, <1>2

\* A step that moves its request without committing.
LEMMA MovedStep ==
  ASSUME req \in [Procs -> Requests], NEW p \in Procs, NEW n, Become(p, n),
         Moved(req[p], n)
  PROVE  RequestStep(p)
<1>1. req'[p] = n /\ req' = [req EXCEPT ![p] = n]
  BY DEF Become
<1>2. QED
  BY <1>1 DEF RequestStep, NextRequest, Moved

\* Every step of a handler is one of these.
LEMMA ServeStep ==
  ASSUME IInv, NEW p \in Procs, Serve(p)
  PROVE  /\ TableStep(req[p]) /\ RequestStep(p)
         /\ req[p].at # "idle" /\ serial' = serial
         /\ open' \subseteq open \cup {req[p].id}
         /\ removed' \subseteq removed \cup {req[p].uuid}
<1> DEFINE r == req[p]
<1>0. /\ req \in [Procs -> Requests] /\ r \in Requests /\ Shape(r)
      /\ r.op \in Ops /\ r.err \in Errors
      /\ r.at = "commit" => ~Violates(r.uuid, r.email)
  BY DEF IInv, TypeOK, EmailsUnique, Requests
<1>a. ASSUME r.at # "idle"  PROVE r.op # "none"
  BY <1>0, <1>a DEF Shape
<1>e. ASSUME r.at \in {"insert", "commit", "update"}  PROVE r.email \in Emails
  BY <1>0, <1>e DEF Shape, Ops
<1>m. \A n : Become(p, n) /\ Moved(r, n) => RequestStep(p)
  BY <1>0, MovedStep
<1>p. ASSUME r.at # "idle", NEW x \in Places, x # "commit", r.op = "delete" => x = "delete"
      PROVE  Moved(r, [r EXCEPT !.at = x])
  BY <1>0, <1>a, <1>p, PlaceMoves
<1>w. ASSUME r.at # "idle", NEW e \in Errors
      PROVE  Moved(r, Answer(r, e)) /\ Moved(r, Fail(r, e))
  BY <1>0, <1>a, <1>w, AnswerMoves, FailMoves
<1>1. CASE BeginTx(p)
  <2>1. r.at = "begin" /\ r.op # "delete"
    BY <1>0, <1>1 DEF BeginTx, Shape
  <2>2. Moved(r, [r EXCEPT !.at = "count"]) /\ Moved(r, Answer(r, "driver"))
    BY <2>1, <1>p, <1>w DEF Places, Errors
  <2>3. RequestStep(p)
    BY <1>1, <2>2, <1>m DEF BeginTx
  <2>4. QED
    BY <1>1, <2>1, <2>3 DEF BeginTx, TableStep
<1>2. CASE FindByUUID(p)
  <2>1. r.at = "find"
    BY <1>2 DEF FindByUUID
  <2>2. r.op = "delete" => Moved(r, [r EXCEPT !.at = "delete"])
    BY <2>1, <1>p DEF Places
  <2>3. r.op # "delete" => /\ Moved(r, [r EXCEPT !.at = "count"])
                           /\ Moved(r, [r EXCEPT !.at = "update"])
    BY <2>1, <1>p DEF Places
  <2>4. Moved(r, Answer(r, "ErrUserNotFound"))
    BY <2>1, <1>w DEF Errors
  <2>5. RequestStep(p)
    BY <1>2, <2>2, <2>3, <2>4, <1>m DEF FindByUUID
  <2>6. QED
    BY <1>2, <2>1, <2>5 DEF FindByUUID, TableStep
<1>3. CASE CountByEmail(p)
  <2>1. r.at = "count" /\ r.op # "delete"
    BY <1>0, <1>3 DEF CountByEmail, Shape
  <2>2. Moved(r, [r EXCEPT !.at = "update"]) /\ Moved(r, [r EXCEPT !.at = "hash"])
    BY <2>1, <1>p DEF Places
  <2>3. \A e \in Errors : Moved(r, Fail(r, e))
    BY <2>1, <1>w
  <2>4. {"ErrUserAlreadyExists", "ErrDatabaseError", "ErrInternalServerError"} \subseteq Errors
    BY DEF Errors
  <2>5. RequestStep(p)
    BY <1>3, <2>2, <2>3, <2>4, <1>m DEF CountByEmail
  <2>6. QED
    BY <1>3, <2>1, <2>5 DEF CountByEmail, TableStep
<1>4. CASE HashPassword(p)
  <2>1. r.at = "hash" /\ r.op # "delete"
    BY <1>0, <1>4 DEF HashPassword, Shape
  <2>2. Moved(r, [r EXCEPT !.at = "insert"])
    BY <2>1, <1>p DEF Places
  <2>3. \A e \in Errors : Moved(r, Fail(r, e)) /\ Moved(r, Answer(r, e))
    BY <2>1, <1>w
  <2>4. {"ErrPasswordEncryption", "nil", "panic"} \subseteq Errors
    BY DEF Errors
  <2>5. RequestStep(p)
    BY <1>4, <2>2, <2>3, <2>4, <1>m DEF HashPassword
  <2>6. QED
    BY <1>4, <2>1, <2>5 DEF HashPassword, TableStep
<1>5. CASE InsertUser(p)
  <2>1. r.at = "insert" /\ r.op # "delete" /\ r.email \in Emails
    BY <1>0, <1>5, <1>e DEF InsertUser, Shape
  <2>2. TableStep(r)
    BY <1>5, <2>1 DEF InsertUser, TableStep
  <2>3. \A e \in Errors : Moved(r, Fail(r, e)) /\ Moved(r, Answer(r, e))
    BY <2>1, <1>w
  <2>4. {"ErrUserCreationFailed", "ErrInternalServerError", "nil"} \subseteq Errors
    BY DEF Errors
  <2>5. ASSUME r.op = "register", ~Violates(r.uuid, r.email),
               Become(p, [r EXCEPT !.at = "commit"])
        PROVE  RequestStep(p)
    <3> DEFINE n == [r EXCEPT !.at = "commit"]
    <3>1. n \in Requests /\ n.id = r.id /\ n.email = r.email /\ n.uuid = r.uuid
            /\ n.op = r.op /\ n.at = "commit"
      BY <1>0 DEF Requests, Places
    <3>2. Shape(n)
      BY <2>1, <2>5, <3>1 DEF Shape
    <3>3. users' = users /\ ~Reserved(r)
      BY <1>5, <2>5 DEF InsertUser, GetExecutor
    <3>4. req'[p] = n /\ req' = [req EXCEPT ![p] = n]
      BY <1>0, <2>5 DEF Become
    <3>5. ~Violates(n.uuid, n.email)
      BY <2>5, <3>1
    <3> HIDE DEF n
    <3>6. NextRequest(p, r, n)
      BY <3>1, <3>2, <3>3, <3>5 DEF NextRequest
    <3>7. QED
      BY <3>4, <3>6 DEF RequestStep
  <2>6. ASSUME \E e \in {"ErrUserCreationFailed", "ErrInternalServerError", "nil"} :
                 Become(p, Fail(r, e)) \/ Become(p, Answer(r, e))
        PROVE  RequestStep(p)
    BY <2>3, <2>4, <2>6, <1>m
  <2>7. ASSUME r.op = "register"  PROVE RequestStep(p)
    <3>1. \/ ~Violates(r.uuid, r.email) /\ Become(p, [r EXCEPT !.at = "commit"])
          \/ Become(p, Fail(r, "ErrUserCreationFailed"))
      BY <1>5, <2>7 DEF InsertUser
    <3>2. QED
      BY <2>5, <2>6, <2>7, <3>1
  <2>8. ASSUME r.op # "register"  PROVE RequestStep(p)
    <3>1. Become(p, Answer(r, "nil")) \/ Become(p, Fail(r, "ErrInternalServerError"))
      BY <1>5, <2>8 DEF InsertUser
    <3>2. QED
      BY <2>6, <3>1
  <2>9. QED
    BY <1>5, <2>1, <2>2, <2>7, <2>8 DEF InsertUser
<1>6. CASE Commit(p)
  <2>1. r.at = "commit" /\ r.email \in Emails /\ ~Violates(r.uuid, r.email)
    BY <1>0, <1>6, <1>e DEF Commit
  <2>2. Moved(r, Answer(r, "nil")) /\ Moved(r, Answer(r, "driver"))
    BY <2>1, <1>w DEF Errors
  <2>3. RequestStep(p)
    BY <1>6, <2>2, <1>m DEF Commit
  <2>4. QED
    BY <1>6, <2>1, <2>3 DEF Commit, TableStep
<1>7. CASE Rollback(p)
  <2>1. r.at = "rollback"
    BY <1>7 DEF Rollback
  <2>2. Moved(r, Answer(r, r.err))
    BY <1>0, <2>1, <1>w
  <2>3. RequestStep(p)
    BY <1>7, <2>2, <1>m DEF Rollback
  <2>4. QED
    BY <1>7, <2>1, <2>3 DEF Rollback, TableStep
<1>8. CASE UpdateUser(p)
  <2>1. r.at = "update" /\ r.email \in Emails
    BY <1>0, <1>8, <1>e DEF UpdateUser
  <2>2. Moved(r, Answer(r, "nil")) /\ Moved(r, Answer(r, "ErrInternalServerError"))
    BY <2>1, <1>w DEF Errors
  <2>3. RequestStep(p)
    BY <1>8, <2>2, <1>m DEF UpdateUser
  <2>4. TableStep(r)
    BY <1>8, <2>1 DEF UpdateUser, TableStep
  <2>5. QED
    BY <1>8, <2>1, <2>3, <2>4 DEF UpdateUser
<1>9. CASE DeleteUser(p)
  <2>1. r.at = "delete"
    BY <1>9 DEF DeleteUser
  <2>2. Moved(r, Answer(r, "nil")) /\ Moved(r, Answer(r, "ErrInternalServerError"))
    BY <2>1, <1>w DEF Errors
  <2>3. RequestStep(p)
    BY <1>9, <2>2, <1>m DEF DeleteUser
  <2>4. QED
    BY <1>9, <2>1, <2>3 DEF DeleteUser, TableStep
<1>10. CASE Deliver(p)
  <2>1. Idle \in Requests /\ Shape(Idle) /\ Idle.at # "commit"
    BY DEF Idle, Requests, Shape, Ops, Places, Errors, Uuids
  <2>2. req'[p] = Idle /\ req' = [req EXCEPT ![p] = Idle]
    BY <1>0, <1>10 DEF Deliver, Become
  <2>3. RequestStep(p)
    BY <2>1, <2>2 DEF RequestStep, NextRequest
  <2>4. QED
    BY <1>10, <2>3 DEF Deliver, TableStep
<1> QED
  BY <1>1, <1>2, <1>3, <1>4, <1>5, <1>6, <1>7, <1>8, <1>9, <1>10 DEF Serve

\* A request arrives with a number of its own and touches no table.
LEMMA ArriveStep ==
  ASSUME IInv, NEW p \in Procs, Arrive(p)
  PROVE  /\ \E n \in Requests : /\ req' = [req EXCEPT ![p] = n]
                                /\ Shape(n) /\ n.at # "commit" /\ n.id = serial + 1
         /\ UNCHANGED <<users, open, removed>>
         /\ serial' = serial + 1
<1> DEFINE New(n) == /\ n \in Requests /\ req' = [req EXCEPT ![p] = n]
                     /\ Shape(n) /\ n.at # "commit" /\ n.id = serial + 1
<1>1. serial \in Nat /\ serial + 1 \in Nat /\ Nat \subseteq Uuids
  BY DEF IInv, TypeOK, Uuids
<1>2. serial' = serial + 1
  BY DEF Arrive
<1>3. ASSUME NEW e \in Emails, StartRegister(p, e)
      PROVE  UNCHANGED <<users, open, removed>> /\ \E n : New(n)
  <2> DEFINE n == [Idle EXCEPT !.op = "register", !.at = "begin", !.id = serial + 1,
                               !.uuid = serial + 1, !.email = e]
  <2>1. n \in Requests /\ Shape(n) /\ n.at # "commit" /\ n.id = serial + 1
    BY <1>1 DEF Idle, Requests, Ops, Places, Errors, Shape
  <2>2. QED
    BY <1>3, <2>1 DEF StartRegister, Become
<1>4. ASSUME NEW e \in Emails, StartCreate(p, e)
      PROVE  UNCHANGED <<users, open, removed>> /\ \E n : New(n)
  <2> DEFINE n == [Idle EXCEPT !.op = "create", !.at = "count", !.id = serial + 1,
                               !.uuid = serial + 1, !.email = e]
  <2>1. n \in Requests /\ Shape(n) /\ n.at # "commit" /\ n.id = serial + 1
    BY <1>1 DEF Idle, Requests, Ops, Places, Errors, Shape
  <2>2. QED
    BY <1>4, <2>1 DEF StartCreate, Become
<1>5. ASSUME NEW e \in Emails, NEW u \in Uuids, StartUpdate(p, u, e)
      PROVE  UNCHANGED <<users, open, removed>> /\ \E n : New(n)
  <2> DEFINE n == [Idle EXCEPT !.op = "update", !.at = "find", !.id = serial + 1,
                               !.uuid = u, !.email = e]
  <2>1. n \in Requests /\ Shape(n) /\ n.at # "commit" /\ n.id = serial + 1
    BY <1>1 DEF Idle, Requests, Ops, Places, Errors, Shape
  <2>2. QED
    BY <1>5, <2>1 DEF StartUpdate, Become
<1>6. ASSUME NEW u \in Uuids, StartDelete(p, u)
      PROVE  UNCHANGED <<users, open, removed>> /\ \E n : New(n)
  <2> DEFINE n == [Idle EXCEPT !.op = "delete", !.at = "find", !.id = serial + 1,
                               !.uuid = u]
  <2>1. n \in Requests /\ Shape(n) /\ n.at # "commit" /\ n.id = serial + 1
    BY <1>1 DEF Idle, Requests, Ops, Places, Errors, Shape
  <2>2. QED
    BY <1>6, <2>1 DEF StartDelete, Become
<1>b. ASSUME NEW e \in Emails, NEW o \in {"register", "create", "update"},
             BadRequest(p, o, e)
      PROVE  UNCHANGED <<users, open, removed>> /\ \E n : New(n)
  <2> DEFINE n == [Idle EXCEPT !.op = o, !.at = "replied", !.id = serial + 1,
                               !.email = e, !.err = "ErrBadRequest"]
  <2>1. n \in Requests /\ Shape(n) /\ n.at # "commit" /\ n.id = serial + 1
    BY <1>1 DEF Idle, Requests, Ops, Places, Errors, Shape
  <2>2. QED
    BY <1>b, <2>1 DEF BadRequest, Become
<1>7. Seeded \cup Registered \cup 1..serial \subseteq Uuids
  BY <1>1 DEF Uuids
<1>8. UNCHANGED <<users, open, removed>> /\ \E n : New(n)
  BY <1>3, <1>4, <1>5, <1>6, <1>b, <1>7 DEF Arrive
<1>9. QED
  BY <1>2, <1>8

\* What a step may do to the table preserves its type and the uniqueness of
\* its addresses.
LEMMA TableInv ==
  ASSUME IInv, NEW r \in Requests, TableStep(r)
  PROVE  /\ DOMAIN users' \subseteq Uuids
         /\ \A u \in DOMAIN users' : users'[u] \in Emails
         /\ \A u, v \in DOMAIN users' : users'[u] = users'[v] => u = v
<1>1. TypeOK /\ \A u, v \in DOMAIN users : users[u] = users[v] => u = v
  BY DEF IInv, EmailsUnique
<1>2. CASE users' = users
  BY <1>1, <1>2 DEF TypeOK
<1>3. CASE ~Violates(r.uuid, r.email) /\ r.email \in Emails
             /\ users' = WithRow(r.uuid, r.email)
  <2>1. r.uuid \in Uuids
    BY DEF Requests
  <2>2. QED
    BY <1>1, <1>3, <2>1, WithRowType, WithRowUnique
<1>4. CASE users' = WithoutRow(r.uuid)
  BY <1>1, <1>4 DEF TypeOK, WithoutRow
<1>5. QED
  BY <1>2, <1>3, <1>4 DEF TableStep

\* No step writes the address of an uncommitted row of another transaction.
LEMMA ReservedStays ==
  ASSUME IInv, NEW p \in Procs, NEW q \in Procs, p # q, req[p].at # "idle",
         TableStep(req[p]), req[q].at = "commit"
  PROVE  \A v \in DOMAIN users' : v # req[q].uuid => users'[v] # req[q].email
<1> DEFINE r == req[p]
<1>1. \A v \in DOMAIN users : v # req[q].uuid => users[v] # req[q].email
  BY DEF IInv, EmailsUnique, Violates
<1>2. CASE users' = users
  BY <1>1, <1>2
<1>3. CASE users' = WithoutRow(r.uuid)
  BY <1>1, <1>3 DEF WithoutRow
<1>4. CASE users' = WithRow(r.uuid, r.email) /\ (r.at = "commit" \/ ~Reserved(r))
  <2>1. req[q].op = "register" /\ req[q].id # r.id
    BY DEF IInv, Shape, NumbersApart
  <2>2. r.email # req[q].email
    <3>1. CASE r.at = "commit"
      BY <3>1 DEF IInv, ReservationsApart
    <3>2. CASE ~Reserved(r)
      BY <3>2, <2>1 DEF Reserved
    <3>3. QED
      BY <1>4, <3>1, <3>2
  <2>3. QED
    BY <1>1, <1>4, <2>2 DEF WithRow
<1>5. QED
  BY <1>2, <1>3, <1>4 DEF TableStep

\* A step of a handler preserves the invariant, but for the history seen.
LEMMA ServeInv ==
  ASSUME IInv, NEW p \in Procs, Serve(p), seen' \in [Procs -> SUBSET (Emails \X Uuids)]
  PROVE  IInv'
<1> DEFINE r == req[p]
           n == req'[p]
<1>1. /\ TypeOK /\ r \in Requests /\ r.at # "idle" /\ serial' = serial
      /\ TableStep(r) /\ NextRequest(p, r, n)
      /\ \A q \in Procs \ {p} : req'[q] = req[q]
      /\ req' = [req EXCEPT ![p] = n]
      /\ open' \subseteq open \cup {r.id} /\ removed' \subseteq removed \cup {r.uuid}
  BY ServeStep DEF RequestStep, IInv, TypeOK
<1>2. r.id \in Nat /\ r.uuid \in Uuids /\ n \in Requests
  BY <1>1 DEF Requests, NextRequest
<1>3. TypeOK'
  BY <1>1, <1>2, TableInv DEF TypeOK
<1>4. \A q \in Procs : Shape(req'[q])
  BY <1>1 DEF NextRequest, IInv
<1>5. NumbersApart'
  <2>1. n = Idle \/ n.id = r.id
    BY <1>1 DEF NextRequest
  <2>2. CASE n = Idle
    <3>1. n.id = 0 /\ n.at = "idle" /\ serial \in Nat
      BY <1>1, <2>2 DEF Idle, TypeOK
    <3>2. QED
      BY <1>1, <3>1 DEF IInv, NumbersApart
  <2>3. CASE n.id = r.id
    BY <1>1, <2>3 DEF IInv, NumbersApart
  <2>4. QED
    BY <2>1, <2>2, <2>3
<1>6. ASSUME n.at = "commit", NEW q \in Procs \ {p}, req[q].at = "commit"
      PROVE  n.email # req[q].email
  <2>1. ~Reserved(r) /\ n.email = r.email
    BY <1>1, <1>6 DEF NextRequest
  <2>2. req[q].op = "register" /\ req[q].id # r.id
    BY <1>1, <1>6 DEF IInv, Shape, NumbersApart
  <2>3. QED
    BY <1>6, <2>1, <2>2 DEF Reserved
<1>7. ReservationsApart'
  BY <1>1, <1>6 DEF IInv, ReservationsApart
<1>8. \A u, v \in DOMAIN users' : users'[u] = users'[v] => u = v
  BY <1>1, TableInv
<1>9. ASSUME NEW q \in Procs, req'[q].at = "commit"
      PROVE  \A v \in DOMAIN users' : v # req'[q].uuid => users'[v] # req'[q].email
  <2>1. CASE q = p
    BY <1>1, <1>9, <2>1 DEF NextRequest, Violates
  <2>2. CASE q # p
    BY <1>1, <1>9, <2>2, ReservedStays
  <2>3. QED
    BY <2>1, <2>2
<1>10. EmailsUnique'
  BY <1>8, <1>9 DEF EmailsUnique, Violates
<1>11. QED
  BY <1>3, <1>4, <1>5, <1>7, <1>10 DEF IInv

\* The arrival of a request preserves it.
LEMMA ArriveInv ==
  ASSUME IInv, NEW p \in Procs, Arrive(p), seen' \in [Procs -> SUBSET (Emails \X Uuids)]
  PROVE  IInv'
<1>1. PICK n \in Requests : /\ req' = [req EXCEPT ![p] = n] /\ Shape(n)
                            /\ n.at # "commit" /\ n.id = serial + 1
  BY ArriveStep
<1>2. UNCHANGED <<users, open, removed>> /\ serial' = serial + 1 /\ serial \in Nat
  BY ArriveStep DEF IInv, TypeOK
<1>3. req'[p] = n /\ \A q \in Procs \ {p} : req'[q] = req[q]
  BY <1>1 DEF IInv, TypeOK
<1>4. TypeOK'
  BY <1>1, <1>2 DEF IInv, TypeOK
<1>5. \A q \in Procs : req[q].id \in Nat /\ req[q].id <= serial
  BY DEF IInv, TypeOK, NumbersApart, Requests
<1>6. NumbersApart'
  BY <1>1, <1>2, <1>3, <1>5 DEF IInv, NumbersApart
<1>7. (\A q \in Procs : Shape(req[q]))' /\ ReservationsApart' /\ EmailsUnique'
  BY <1>1, <1>2, <1>3 DEF IInv, ReservationsApart, EmailsUnique, Violates
<1>8. QED
  BY <1>4, <1>6, <1>7 DEF IInv

\* The inductive step.
LEMMA StepInv == IInv /\ [Next]_vars => IInv'
<1>1. SUFFICES ASSUME IInv, [Next]_vars  PROVE IInv'
  OBVIOUS
<1>2. CASE UNCHANGED vars
  <2>1. UNCHANGED <<users, open, req, serial, seen, removed>>
    BY <1>2 DEF vars
  <2>2. TypeOK'
    BY <1>1, <2>1 DEF IInv, TypeOK
  <2>3. (\A p \in Procs : Shape(req[p]))' /\ NumbersApart' /\ ReservationsApart'
    BY <1>1, <2>1 DEF IInv, NumbersApart, ReservationsApart
  <2>4. EmailsUnique'
    BY <1>1, <2>1 DEF IInv, EmailsUnique, Violates
  <2>5. QED
    BY <2>2, <2>3, <2>4 DEF IInv
<1>3. CASE Next
  <2>1. ASSUME DOMAIN users' \subseteq Uuids, \A u \in DOMAIN users' : users'[u] \in Emails
        PROVE  seen' \in [Procs -> SUBSET (Emails \X Uuids)]
    BY <1>1, <1>3, <2>1 DEF Next, Observe, Rows, IInv, TypeOK
  <2>2. ASSUME NEW p \in Procs, Arrive(p)  PROVE IInv'
    <3>1. users' = users
      BY <1>1, <2>2, ArriveStep
    <3>2. QED
      BY <1>1, <2>1, <2>2, <3>1, ArriveInv DEF IInv, TypeOK
  <2>3. ASSUME NEW p \in Procs, Serve(p)  PROVE IInv'
    <3>1. req[p] \in Requests /\ TableStep(req[p])
      BY <1>1, <2>3, ServeStep DEF IInv, TypeOK
    <3>2. seen' \in [Procs -> SUBSET (Emails \X Uuids)]
      BY <1>1, <2>1, <3>1, TableInv
    <3>3. QED
      BY <1>1, <2>3, <3>2, ServeInv
  <2>4. ASSUME NEW id \in open, CancelContext(id)  PROVE IInv'
    <3>1. open' \subseteq open /\ UNCHANGED <<users, req, serial, removed>>
      BY <2>4 DEF CancelContext
    <3>2. seen' \in [Procs -> SUBSET (Emails \X Uuids)]
      BY <1>1, <2>1, <3>1 DEF IInv, TypeOK
    <3>3. QED
      BY <1>1, <3>1, <3>2
         DEF IInv, TypeOK, NumbersApart, ReservationsApart, EmailsUnique, Violates
  <2>5. QED
    BY <1>3, <2>2, <2>3, <2>4 DEF Next
<1>4. QED
  BY <1>1, <1>2, <1>3

\* The invariant holds in every state the services reach.
THEOREM Invariance == Spec => []IInv
<1>1. Init => IInv
  BY InitInv
<1>2. IInv /\ [Next]_vars => IInv'
  BY StepInv
<1>3. QED
  BY <1>1, <1>2, PTL DEF Spec

\* Every variable keeps its type.
THEOREM TypeCorrect == Spec => []TypeOK
<1>1. IInv => TypeOK
  BY DEF IInv
<1>2. QED
  BY <1>1, Invariance, PTL

\* Register, CreateUser and UpdateUser never give two accounts one address,
\* and a registration that has inserted its row can always commit it.
THEOREM UniqueEmails == Spec => []EmailsUnique
<1>1. IInv => EmailsUnique
  BY DEF IInv
<1>2. QED
  BY <1>1, Invariance, PTL
=============================================================================
