---------------------------- MODULE UserAccounts ----------------------------
(***************************************************************************)
(* The users table and the requests that change it: AuthService.Register   *)
(* with its UnitOfWork, and CreateUser, UpdateUser and DeleteUser of       *)
(* UserService.  Every SQL statement is a step of its own, so the checks   *)
(* the services make and the writes that rely on them interleave; the      *)
(* transaction of a registration and the bounded pool of connections are   *)
(* state.                                                                  *)
(***************************************************************************)
EXTENDS Naturals, FiniteSets

CONSTANTS
  Procs,       \* handler goroutines, each serving one request at a time
  Emails,      \* the addresses accounts use
  Seeded,      \* accounts there from the start that have roles
  Registered,  \* accounts there from the start without roles
  PoolMax,     \* database.pool.max
  Faults,      \* the calls that may fail
  MaxRequests  \* bound: number of requests that arrive

\* "begin", "commit": starting or committing a transaction fails; "read" and
\* "write": a statement fails and has no effect; "lost": a commit or a single
\* statement has its effect, but an error is reported; "hash", "panic":
\* hashing the password returns an error (bcrypt takes at most 72 bytes) or
\* panics.
FaultKinds == {"begin", "read", "hash", "panic", "write", "commit", "lost"}

ASSUME AccountsAssumption ==
  /\ PoolMax \in Nat \ {0}
  /\ MaxRequests \in Nat
  /\ Faults \subseteq FaultKinds
  /\ Seeded \cap Registered = {}
  /\ (Seeded \cup Registered) \cap Nat = {}

VARIABLES
  users,    \* the committed rows: UUID -> email
  open,     \* transactions that are not over, by the number of their request
  req,      \* the request each process is serving
  serial,   \* number of requests so far; numbers stand for new UUIDs
  seen,     \* history: the rows there have been while a request is served
  removed   \* history: accounts whose row has been deleted

vars == <<users, open, req, serial, seen, removed>>

-----------------------------------------------------------------------------
(* State *)

Uuids == Seeded \cup Registered \cup Nat

Ops == {"none", "register", "create", "update", "delete"}

Places == {"idle", "begin", "find", "count", "hash", "insert", "commit",
           "rollback", "update", "delete", "replied"}

\* "driver" is an error of the SQL driver passed on as it is, "panic" one that
\* Fiber's recover middleware makes of a panic.
Errors == {"nil", "ErrUserAlreadyExists", "ErrUserNotFound", "ErrDatabaseError",
           "ErrInternalServerError", "ErrPasswordEncryption",
           "ErrUserCreationFailed", "ErrBadRequest", "driver", "panic"}

Requests ==
  [op    : Ops,
   at    : Places,
   id    : Nat,                    \* number of the request
   uuid  : Uuids,                  \* the account it creates, or the one it names
   email : Emails \cup {"none"},   \* the address it asks for
   err   : Errors]

Idle == [op |-> "none", at |-> "idle", id |-> 0, uuid |-> 0, email |-> "none",
         err |-> "nil"]

\* A table as a set of rows.
Rows(t) == {<<t[u], u>> : u \in DOMAIN t}

TypeOK ==
  /\ DOMAIN users \subseteq Uuids
  /\ \A u \in DOMAIN users : users[u] \in Emails
  /\ open \subseteq Nat
  /\ req \in [Procs -> Requests]
  /\ serial \in Nat
  /\ seen \in [Procs -> SUBSET (Emails \X Uuids)]
  /\ removed \subseteq Uuids

Init ==
  /\ users \in {t \in [Seeded \cup Registered -> Emails] :
                  \A u, v \in DOMAIN t : t[u] = t[v] => u = v}
  /\ open = {}
  /\ req = [p \in Procs |-> Idle]
  /\ serial = 0
  /\ seen = [p \in Procs |-> {}]
  /\ removed = {}

-----------------------------------------------------------------------------
(* Helpers of the handlers *)

Become(p, r) == req' = [req EXCEPT ![p] = r]

Answer(r, e) == [r EXCEPT !.at = "replied", !.err = e]

\* The callback of UnitOfWork.Do returns an error.
Abort(r, e) == [r EXCEPT !.at = "rollback", !.err = e]

\* An error of a step that a registration takes inside its transaction and
\* CreateUser and UpdateUser without one.
Fail(r, e) == IF r.op = "register" THEN Abort(r, e) ELSE Answer(r, e)

\* Mutant: repositories ignore the transaction in the context.
GetExecutorPoolOnly(r) == "db"

\* getExecutor: the transaction in the context, or the pool.
GetExecutor(r) == IF r.op = "register" THEN "tx" ELSE "db"

\* A statement outside a transaction waits for a free connection.
Connected(r) == GetExecutor(r) = "tx" \/ Cardinality(open) < PoolMax

\* Mutant: a migration without the constraint.
ViolatesNothing(u, e) == FALSE

\* The UNIQUE constraint of users.email, for the row of account u.
Violates(u, e) == \E v \in DOMAIN users : v # u /\ users[v] = e

\* A row that a transaction has inserted and not yet committed: who writes the
\* same address waits for that transaction to end.
Reserved(r) ==
  \E q \in Procs : /\ req[q].op = "register" /\ req[q].at = "commit"
                   /\ req[q].id # r.id /\ req[q].email = r.email

WithRow(u, e) == [v \in DOMAIN users \cup {u} |-> IF v = u THEN e ELSE users[v]]

\* Mutant: a deletion only blanks the address.
WithoutRowBlanked(u) == WithRow(u, "none")

WithoutRow(u) == [v \in DOMAIN users \ {u} |-> users[v]]

-----------------------------------------------------------------------------
(* Requests arrive *)

StartRegister(p, e) ==
  /\ req[p].at = "idle"
  /\ Become(p, [Idle EXCEPT !.op = "register", !.at = "begin", !.id = serial + 1,
                            !.uuid = serial + 1, !.email = e])
  /\ UNCHANGED <<users, open, removed>>

StartCreate(p, e) ==
  /\ req[p].at = "idle"
  /\ Become(p, [Idle EXCEPT !.op = "create", !.at = "count", !.id = serial + 1,
                            !.uuid = serial + 1, !.email = e])
  /\ UNCHANGED <<users, open, removed>>

StartUpdate(p, u, e) ==
  /\ req[p].at = "idle"
  /\ Become(p, [Idle EXCEPT !.op = "update", !.at = "find", !.id = serial + 1,
                            !.uuid = u, !.email = e])
  /\ UNCHANGED <<users, open, removed>>

StartDelete(p, u) ==
  /\ req[p].at = "idle"
  /\ Become(p, [Idle EXCEPT !.op = "delete", !.at = "find", !.id = serial + 1,
                            !.uuid = u])
  /\ UNCHANGED <<users, open, removed>>

\* The body is refused before the service is called.
BadRequest(p, o, e) ==
  /\ req[p].at = "idle"
  /\ Become(p, [Idle EXCEPT !.op = o, !.at = "replied", !.id = serial + 1,
                            !.email = e, !.err = "ErrBadRequest"])
  /\ UNCHANGED <<users, open, removed>>

-----------------------------------------------------------------------------
(* Steps of the services *)

\* UnitOfWork.Do begins the transaction, which keeps its connection.
BeginTx(p) ==
  /\ req[p].at = "begin"
  /\ \/ /\ Cardinality(open) < PoolMax
        /\ open' = open \cup {req[p].id}
        /\ Become(p, [req[p] EXCEPT !.at = "count"])
     \/ /\ "begin" \in Faults
        /\ Become(p, Answer(req[p], "driver"))
        /\ UNCHANGED open
  /\ UNCHANGED <<users, serial, removed>>

\* Mutant: an update counts also if the address stays.
FindByUUIDAlwaysCounts(p) ==
  LET r == req[p]
  IN  /\ r.at = "find" /\ Connected(r)
      /\ \/ /\ r.uuid \in DOMAIN users
            /\ Become(p, [r EXCEPT !.at = IF r.op = "delete" THEN "delete" ELSE "count"])
         \/ /\ r.uuid \notin DOMAIN users \/ "read" \in Faults
            /\ Become(p, Answer(r, "ErrUserNotFound"))
      /\ UNCHANGED <<users, open, serial, removed>>

\* Any error of the read is reported as "not found".  The address is only
\* checked if it changes.
FindByUUID(p) ==
  LET r == req[p]
      next == IF r.op = "delete" THEN "delete"
              ELSE IF users[r.uuid] # r.email THEN "count" ELSE "update"
  IN  /\ r.at = "find" /\ Connected(r)
      /\ \/ r.uuid \in DOMAIN users /\ Become(p, [r EXCEPT !.at = next])
         \/ /\ r.uuid \notin DOMAIN users \/ "read" \in Faults
            /\ Become(p, Answer(r, "ErrUserNotFound"))
      /\ UNCHANGED <<users, open, serial, removed>>

CountByEmail(p) ==
  LET r == req[p]
      taken == \E u \in DOMAIN users : users[u] = r.email
  IN  /\ r.at = "count" /\ Connected(r)
      /\ \/ taken /\ Become(p, Fail(r, "ErrUserAlreadyExists"))
         \/ ~taken /\ Become(p, [r EXCEPT !.at = IF r.op = "update" THEN "update"
                                                                    ELSE "hash"])
         \/ /\ "read" \in Faults
            /\ Become(p, Fail(r, IF r.op = "register" THEN "ErrDatabaseError"
                                                     ELSE "ErrInternalServerError"))
      /\ UNCHANGED <<users, open, serial, removed>>

\* Register recovers from a panic and returns nil, nil; the panic has skipped
\* Commit and Rollback of UnitOfWork.Do.
HashPassword(p) ==
  LET r == req[p]
  IN  /\ r.at = "hash"
      /\ \/ Become(p, [r EXCEPT !.at = "insert"])
         \/ "hash" \in Faults /\ Become(p, Fail(r, "ErrPasswordEncryption"))
         \/ /\ "panic" \in Faults
            /\ Become(p, Answer(r, IF r.op = "register" THEN "nil" ELSE "panic"))
      /\ UNCHANGED <<users, open, serial, removed>>

\* UserRepository.Create.  Outside a transaction an INSERT that waits for an
\* uncommitted row holds its connection meanwhile; here it takes both at once.
\* Nobody is kept from going on by that: the transaction that is waited for has
\* a connection of its own.
InsertUser(p) ==
  LET r == req[p]
      failed == Fail(r, IF r.op = "register" THEN "ErrUserCreationFailed"
                                             ELSE "ErrInternalServerError")
      done == IF r.op = "register" THEN [r EXCEPT !.at = "commit"] ELSE Answer(r, "nil")
      table == IF GetExecutor(r) = "tx" THEN users ELSE WithRow(r.uuid, r.email)
  IN  /\ r.at = "insert" /\ Connected(r) /\ ~Reserved(r)
      /\ \/ /\ ~Violates(r.uuid, r.email)
            /\ users' = table
            /\ Become(p, done)
         \/ /\ Violates(r.uuid, r.email) \/ "write" \in Faults
            /\ Become(p, failed) /\ UNCHANGED users
         \/ /\ "lost" \in Faults /\ ~Violates(r.uuid, r.email)
            /\ users' = table
            /\ Become(p, failed)
      /\ UNCHANGED <<open, serial, removed>>

\* UnitOfWork.Do after its callback succeeded.
Commit(p) ==
  LET r == req[p]
  IN  /\ r.at = "commit"
      /\ \/ users' = WithRow(r.uuid, r.email) /\ Become(p, Answer(r, "nil"))
         \/ /\ "commit" \in Faults
            /\ Become(p, Answer(r, "driver")) /\ UNCHANGED users
         \/ /\ "lost" \in Faults
            /\ users' = WithRow(r.uuid, r.email)
            /\ Become(p, Answer(r, "driver"))
      /\ open' = open \ {r.id}
      /\ UNCHANGED <<serial, removed>>

\* Mutant: the transaction is left open when its callback fails.
RollbackForgotten(p) ==
  /\ req[p].at = "rollback"
  /\ Become(p, Answer(req[p], req[p].err))
  /\ UNCHANGED <<users, open, serial, removed>>

\* UnitOfWork.Do after its callback failed.
Rollback(p) ==
  /\ req[p].at = "rollback"
  /\ open' = open \ {req[p].id}
  /\ Become(p, Answer(req[p], req[p].err))
  /\ UNCHANGED <<users, serial, removed>>

\* Mutant: the row is saved as INSERT ... ON CONFLICT DO UPDATE.
UpdateUserUpsert(p) ==
  LET r == req[p]
  IN  /\ r.at = "update" /\ Connected(r) /\ ~Reserved(r) /\ ~Violates(r.uuid, r.email)
      /\ users' = WithRow(r.uuid, r.email)
      /\ Become(p, Answer(r, "nil"))
      /\ UNCHANGED <<open, serial, removed>>

\* The UPDATE reports no error when no row has the UUID any more.
UpdateUser(p) ==
  LET r == req[p]
      present == r.uuid \in DOMAIN users
      written == IF present THEN WithRow(r.uuid, r.email) ELSE users
      refused == present /\ Violates(r.uuid, r.email)
  IN  /\ r.at = "update" /\ Connected(r) /\ ~(present /\ Reserved(r))
      /\ \/ /\ ~refused
            /\ users' = written
            /\ \/ Become(p, Answer(r, "nil"))
               \/ "lost" \in Faults /\ Become(p, Answer(r, "ErrInternalServerError"))
         \/ /\ refused \/ "write" \in Faults
            /\ Become(p, Answer(r, "ErrInternalServerError")) /\ UNCHANGED users
      /\ UNCHANGED <<open, serial, removed>>

\* The foreign key of user_roles keeps an account that has roles.
DeleteUser(p) ==
  LET r == req[p]
  IN  /\ r.at = "delete" /\ Connected(r)
      /\ \/ /\ r.uuid \notin Seeded
            /\ users' = WithoutRow(r.uuid)
            /\ removed' = removed \cup {r.uuid}
            /\ \/ Become(p, Answer(r, "nil"))
               \/ "lost" \in Faults /\ Become(p, Answer(r, "ErrInternalServerError"))
         \/ /\ r.uuid \in Seeded \/ "write" \in Faults
            /\ Become(p, Answer(r, "ErrInternalServerError"))
            /\ UNCHANGED <<users, removed>>
      /\ UNCHANGED <<open, serial>>

Deliver(p) ==
  /\ req[p].at = "replied"
  /\ Become(p, Idle)
  /\ UNCHANGED <<users, open, serial, removed>>

\* The tracing middleware cancels the context of a request that is over, and
\* database/sql then rolls back a transaction left open in it.
CancelContext(id) ==
  /\ \A p \in Procs : req[p].id = id => req[p].at = "replied"
  /\ open' = open \ {id}
  /\ UNCHANGED <<users, req, serial, removed>>

-----------------------------------------------------------------------------

Arrive(p) ==
  /\ serial < MaxRequests
  /\ serial' = serial + 1
  /\ \/ \E e \in Emails :
          \/ StartRegister(p, e) \/ StartCreate(p, e)
          \/ \E u \in Seeded \cup Registered \cup 1..serial : StartUpdate(p, u, e)
          \/ \E o \in {"register", "create", "update"} : BadRequest(p, o, e)
     \/ \E u \in Seeded \cup Registered \cup 1..serial : StartDelete(p, u)

Serve(p) ==
  \/ BeginTx(p) \/ FindByUUID(p) \/ CountByEmail(p) \/ HashPassword(p)
  \/ InsertUser(p) \/ Commit(p) \/ Rollback(p) \/ UpdateUser(p) \/ DeleteUser(p)
  \/ Deliver(p)

\* Every request in service sees the table before and after each step.
Observe ==
  seen' = [p \in Procs |-> IF req'[p].at = "idle" THEN {}
                           ELSE seen[p] \cup Rows(users) \cup Rows(users')]

Next ==
  /\ \/ \E p \in Procs : Arrive(p) \/ Serve(p)
     \/ \E id \in open : CancelContext(id)
  /\ Observe

Spec == Init /\ [][Next]_vars

\* Goroutines are scheduled, PostgreSQL answers, and database/sql runs its
\* goroutine that waits for the end of a transaction's context.
FairSpec ==
  /\ Spec
  /\ \A p \in Procs : WF_vars(Serve(p) /\ Observe)
  /\ WF_vars((\E id \in open : CancelContext(id)) /\ Observe)

-----------------------------------------------------------------------------
(* Properties *)

Answered(p) == req[p].at = "replied"
Succeeded(p) == Answered(p) /\ req[p].err = "nil"

\* No two accounts have one address, although every service counts first and
\* writes later: the index decides, also against a row that a registration has
\* inserted and not committed (Register, CreateUser, UpdateUser).
EmailsUnique ==
  /\ \A u, v \in DOMAIN users : users[u] = users[v] => u = v
  /\ \A p \in Procs : req[p].at = "commit" => ~Violates(req[p].uuid, req[p].email)

\* A registration or creation that is answered with an error has left no row
\* at any time, wherever it failed; for runs in which no answer of the
\* database is lost (Register with UnitOfWork.Do, CreateUser).
FailedLeavesNoRow ==
  \A p \in Procs :
    Answered(p) /\ req[p].op \in {"register", "create"} /\ req[p].err # "nil"
      => \A row \in seen[p] : row[2] # req[p].uuid

\* A request is told "user already exists" only if another account had the
\* address while it was served, or, for an update, if meanwhile its own account
\* was given that address by another update, so that it had both this address
\* and another one; an update that keeps its address is never refused for it
\* (Register, CreateUser, UpdateUser).
ConflictMeansTaken ==
  \A p \in Procs :
    Answered(p) /\ req[p].err = "ErrUserAlreadyExists"
      => \/ \E row \in seen[p] : row[1] = req[p].email /\ row[2] # req[p].uuid
         \/ /\ req[p].op = "update" /\ <<req[p].email, req[p].uuid>> \in seen[p]
            /\ \E row \in seen[p] : row[1] # req[p].email /\ row[2] = req[p].uuid

\* An account whose row was deleted never comes back, also not through an
\* update that read it before, and also if the client was told that the
\* deletion failed (DeleteUser, UpdateUser).
DeletedStaysDeleted == removed \cap DOMAIN users = {}

\* A connection is held by a registration at work inside UnitOfWork.Do, and by
\* nothing that has been answered; for runs in which nothing panics.
OpenMeansAtWork ==
  \A id \in open :
    \E p \in Procs : req[p].id = id /\ req[p].op = "register" /\ ~Answered(p)

\* What a request waits for: a free connection, or the end of the transaction
\* that has inserted its address.
WaitsForConnection(p) ==
  /\ req[p].at \in {"begin", "find", "count", "insert", "update", "delete"}
  /\ req[p].at = "begin" \/ GetExecutor(req[p]) = "db"
  /\ Cardinality(open) >= PoolMax

WaitsForRow(p) == req[p].at \in {"insert", "update"} /\ Reserved(req[p])

\* Requests never all wait for one another: while one is unanswered, some
\* unanswered request can go on, or a transaction nobody is at work in can be
\* ended, however small the pool (UnitOfWork.Do, getExecutor).
NoCircularWait ==
  (\E p \in Procs : req[p].at \notin {"idle", "replied"})
    => \/ \E p \in Procs : /\ req[p].at \notin {"idle", "replied"}
                            /\ ~WaitsForConnection(p) /\ ~WaitsForRow(p)
       \/ \E id \in open : \A p \in Procs : req[p].id = id => Answered(p)

\* A registration answered with success has stored the account.
\* auth_service.go:70 "Register creates a new user with a hashed password."
RegisteredMeansStored ==
  \A p \in Procs :
    Succeeded(p) /\ req[p].op = "register"
      => <<req[p].email, req[p].uuid>> \in seen[p]

\* An update answered with success has been in the table while it was served.
\* user_service.go:129 "UpdateUser updates an existing user."
UpdatedMeansStored ==
  \A p \in Procs :
    Succeeded(p) /\ req[p].op = "update"
      => <<req[p].email, req[p].uuid>> \in seen[p]

\* Every request is answered: neither waiting for a connection nor waiting for
\* the transaction of another registration goes on for ever, also when
\* registrations take all connections or panic (UnitOfWork.Do, getExecutor).
EveryRequestAnswered ==
  \A p \in Procs : req[p].at # "idle" ~> req[p].at = "replied"

\* The connection of a transaction comes back to the pool, also after a panic
\* inside UnitOfWork.Do.
TransactionsEnd == \A id \in 1..MaxRequests : id \in open ~> id \notin open

-----------------------------------------------------------------------------
(* The services implement Directory                                        *)

\* What a request asks of the directory, and what its client has been told.
AskOf(r) ==
  [op |-> r.op, uuid |-> r.uuid, email |-> r.email,
   told |-> IF r.at # "replied" THEN "nothing"
            ELSE IF r.err = "nil" THEN "done" ELSE "refused"]

Atomic == INSTANCE Directory WITH
            Clients <- Procs, accounts <- users, ask <- [p \in Procs |-> AskOf(req[p])]

\* The statements of concurrent requests interleave, and yet every request is
\* served as if it were the only one: answered with success it has had its
\* whole effect in one step between its arrival and its answer, answered with
\* an error it has had none; for runs in which no answer of the database is
\* lost and nothing panics (Register, CreateUser, UpdateUser, DeleteUser).
ImplementsDirectory == Atomic!Spec
=============================================================================
