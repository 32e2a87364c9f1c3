------------------------------- MODULE Seeder -------------------------------
(***************************************************************************)
(* The seeder: statements that empty six tables and fill them again, one   *)
(* after the other and without a transaction.  It may be killed or refused *)
(* between any two of them, run again, and run twice at once, while the    *)
(* service registers, updates and deletes users in the same database.      *)
(***************************************************************************)
EXTENDS Naturals, Sequences, FiniteSets

CONSTANTS
  Seeders,   \* processes that may run the seeder
  Emails,    \* addresses users have
  MaxRuns,   \* bound: number of runs of the seeder
  MaxWrites  \* bound: number of users the service registers, updates or deletes

ASSUME SeederAssumption == {MaxRuns, MaxWrites} \subseteq Nat

VARIABLES
  db,      \* the six tables, each a set of rows
  mail,    \* the address of each user
  seeder,  \* the run of each process
  runs,    \* number of runs so far
  writes,  \* number of writes of the service so far
  mixed    \* history: whether two runs have been at work at once

vars == <<db, mail, seeder, runs, writes, mixed>>

-----------------------------------------------------------------------------
(* Tables *)

\* A row of a named table is the number of the run that made it and its unique
\* name; for a user, who may be made by a write of the service too, this is the
\* UUID, with the address the user was made with.  A row of a link table refers
\* to one row of each of two named tables.
Named == {"users", "roles", "permissions"}

Parents == [user_roles       |-> <<"users", "roles">>,
            role_permissions |-> <<"roles", "permissions">>,
            user_permissions |-> <<"users", "permissions">>]

Links == DOMAIN Parents

Tables == Named \cup Links

\* One permission stands for each of the groups crudUser, crudPermissions and
\* crudRole; these are the groups each role gets.
GroupsOf == [admin |-> {"crud-permission", "crud-role"}, user |-> {"crud-user"}]

TestEmail == "test@test.com"

Names == [users       |-> Emails \cup {TestEmail},
          roles       |-> DOMAIN GroupsOf,
          permissions |-> {"crud-user", "crud-permission", "crud-role", "read-other"}]

\* The link tables that refer to a named table.
Referring(table) == {l \in Links : \E i \in 1..2 : Parents[l][i] = table}

\* UNIQUE of users.email.
AddressTaken(e) == \E u \in db.users : mail[u] = e

\* Mutant: the migration forgets FOREIGN KEY.
InsertRefusedNoKey(table, row) ==
  \/ table = "users" /\ AddressTaken(row[2])
  \/ table \in Named \ {"users"} /\ \E r \in db[table] : r[2] = row[2]

\* UNIQUE, PRIMARY KEY and FOREIGN KEY.
InsertRefused(table, row) ==
  \/ table = "users" /\ AddressTaken(row[2])
  \/ table \in Named \ {"users"} /\ \E r \in db[table] : r[2] = row[2]
  \/ /\ table \in Links
     /\ row \in db[table] \/ \E i \in 1..2 : row[i] \notin db[Parents[table][i]]

\* A row that others refer to stays, and with it all of a DELETE without WHERE.
DeleteRefused(table) == table \in Named /\ \E l \in Referring(table) : db[l] # {}

-----------------------------------------------------------------------------
(* The program *)

\* Mutant: the roles lose their permissions before the users lose their roles.
DeletionsSwapped == <<"role_permissions", "user_roles", "user_permissions", "users",
                      "roles", "permissions">>

\* Mutant: a table was forgotten.
DeletionsShort == <<"user_roles", "user_permissions", "users", "roles", "permissions">>

\* Mutant: the users stay.
DeletionsSparing == <<"user_roles", "role_permissions", "user_permissions",
                      "roles", "permissions">>

Deletions == <<"user_roles", "role_permissions", "user_permissions", "users",
               "roles", "permissions">>

\* What run n inserts, with its own UUIDs.
Insertions(n) ==
  LET Row(table, name) == [table |-> table, row |-> <<n, name>>]
      Link(table, a, b) == [table |-> table, row |-> <<<<n, a>>, <<n, b>>>>]
  IN  <<Row("roles", "admin"), Row("roles", "user"),
        Row("permissions", "crud-user"), Row("permissions", "crud-permission"),
        Row("permissions", "crud-role"), Row("permissions", "read-other"),
        Row("users", TestEmail),
        Link("role_permissions", "admin", "crud-permission"),
        Link("role_permissions", "admin", "crud-role"),
        Link("role_permissions", "user", "crud-user"),
        Link("user_roles", TestEmail, "admin"), Link("user_roles", TestEmail, "user"),
        Link("user_permissions", TestEmail, "read-other")>>

Length(n) == Len(Deletions) + Len(Insertions(n))

-----------------------------------------------------------------------------
(* State *)

\* "failed": log.Fatalf, or the process was killed.
Runs == [state : {"off", "at work", "done", "failed"},
         run   : 0..MaxRuns,
         next  : Nat \ {0},   \* the next statement
         alone : BOOLEAN,     \* history: no other run at work since it began
         quiet : BOOLEAN]     \* history: no write of the service since then

AtWork(s) == seeder[s].state = "at work"

TypeOK ==
  /\ DOMAIN db = Tables
  /\ \A t \in Named : db[t] \subseteq (0..MaxRuns + MaxWrites) \X Names[t]
  /\ \A l \in Links : db[l] \subseteq db[Parents[l][1]] \X db[Parents[l][2]]
  /\ mail \in [db.users -> Names.users]
  /\ seeder \in [Seeders -> Runs]
  /\ {runs, writes} \subseteq Nat
  /\ mixed \in BOOLEAN

Init ==
  /\ db = [t \in Tables |-> {}]
  /\ mail = [u \in {} |-> TestEmail]
  /\ seeder = [s \in Seeders |-> [state |-> "off", run |-> 0, next |-> 1,
                                  alone |-> TRUE, quiet |-> TRUE]]
  /\ runs = 0
  /\ writes = 0
  /\ mixed = FALSE

-----------------------------------------------------------------------------
(* Steps of the seeder *)

\* A new run makes new UUIDs; no other run is alone any more.
Start(s) ==
  /\ ~AtWork(s)
  /\ runs < MaxRuns
  /\ runs' = runs + 1
  /\ LET others == \E o \in Seeders : AtWork(o)
     IN  /\ seeder' = [o \in Seeders |->
                         IF o = s
                         THEN [state |-> "at work", run |-> runs + 1, next |-> 1,
                               alone |-> ~others, quiet |-> TRUE]
                         ELSE [seeder[o] EXCEPT !.alone = FALSE]]
         /\ mixed' = (mixed \/ others)
  /\ UNCHANGED <<db, mail, writes>>

\* What the next statement of a run changes, and whether it is refused.
Refused(r) ==
  IF r.next <= Len(Deletions)
  THEN DeleteRefused(Deletions[r.next])
  ELSE LET i == Insertions(r.run)[r.next - Len(Deletions)]
       IN  InsertRefused(i.table, i.row)

Effect(r) ==
  IF r.next <= Len(Deletions)
  THEN [db EXCEPT ![Deletions[r.next]] = {}]
  ELSE LET i == Insertions(r.run)[r.next - Len(Deletions)]
       IN  [db EXCEPT ![i.table] = @ \cup {i.row}]

\* The addresses once the table of users is this: a new user has the address in
\* its UUID, who stays keeps the address of the moment.
Addresses(users) == [u \in users |-> IF u \in db.users THEN mail[u] ELSE u[2]]

After(r) ==
  [r EXCEPT !.next = @ + 1,
            !.state = IF r.next = Length(r.run) THEN "done" ELSE "at work"]

\* Mutant: errors are logged, and the seeder goes on.
ExecuteGoesOn(s) ==
  LET r == seeder[s]
  IN  /\ AtWork(s)
      /\ db' = IF Refused(r) THEN db ELSE Effect(r)
      /\ mail' = Addresses(db'.users)
      /\ seeder' = [seeder EXCEPT ![s] = After(r)]
      /\ UNCHANGED <<runs, writes, mixed>>

Execute(s) ==
  LET r == seeder[s]
  IN  /\ AtWork(s)
      /\ \/ /\ ~Refused(r)
            /\ db' = Effect(r)
            /\ mail' = Addresses(Effect(r).users)
            /\ seeder' = [seeder EXCEPT ![s] = After(r)]
         \/ /\ Refused(r)
            /\ seeder' = [seeder EXCEPT ![s].state = "failed"]
            /\ UNCHANGED <<db, mail>>
      /\ UNCHANGED <<runs, writes, mixed>>

\* The process is killed, or the database cannot be reached; the statement
\* before this may have had its effect without an answer.
Die(s) ==
  /\ AtWork(s)
  /\ seeder' = [seeder EXCEPT ![s].state = "failed"]
  /\ UNCHANGED <<db, mail, runs, writes, mixed>>

-----------------------------------------------------------------------------
(* The service at work on the same tables *)

ServiceWrites(users, addresses) ==
  /\ writes < MaxWrites
  /\ writes' = writes + 1
  /\ db' = [db EXCEPT !.users = users]
  /\ mail' = addresses
  /\ seeder' = [s \in Seeders |-> [seeder[s] EXCEPT !.quiet = FALSE]]
  /\ UNCHANGED <<runs, mixed>>

\* UserRepository.Create, with a new UUID.
Register(e) ==
  LET users == db.users \cup {<<MaxRuns + writes + 1, e>>}
  IN  ~AddressTaken(e) /\ ServiceWrites(users, Addresses(users))

\* UserRepository.Update, of any user, also one with roles; an update that keeps
\* the address changes nothing here.
Update(u, e) ==
  /\ ~AddressTaken(e)
  /\ ServiceWrites(db.users, [mail EXCEPT ![u] = e])

\* UserRepository.Delete: a user with roles or permissions cannot be deleted.
Delete(u) ==
  /\ \A l \in Referring("users") : \A row \in db[l] : row[1] # u
  /\ ServiceWrites(db.users \ {u}, Addresses(db.users \ {u}))

-----------------------------------------------------------------------------

Next ==
  \/ \E s \in Seeders : Start(s) \/ Execute(s) \/ Die(s)
  \/ \E e \in Names.users : Register(e) \/ \E u \in db.users : Update(u, e)
  \/ \E u \in db.users : Delete(u)

Spec == Init /\ [][Next]_vars

-----------------------------------------------------------------------------
(* Properties *)

\* The tables hold everything run n inserts, and no roles, permissions or links
\* but its own.
SeededBy(n) ==
  \A t \in Tables :
    LET own == {Insertions(n)[i].row :
                  i \in {j \in 1..Len(Insertions(n)) : Insertions(n)[j].table = t}}
    IN  IF t = "users" THEN own \subseteq db[t] ELSE db[t] = own

\* A run that reports success has seeded the database: its roles, permissions and
\* links are there, and no others, and so is the account it made, until the next
\* run begins, whatever earlier runs left half done and whichever users the
\* service registers, updates or deletes during the run or after it.  That
\* account is test@test.com as long as the service writes nothing: an update may
\* give it another address.  For runs that do not overlap (Seed, Register,
\* UpdateUser, DeleteUser).
SuccessMeansSeeded ==
  \A s \in Seeders :
    LET r == seeder[s]
    IN  r.state = "done" /\ r.alone
          => SeededBy(r.run) /\ (r.quiet => mail[<<r.run, TestEmail>>] = TestEmail)

\* Nothing that killed, refused or overlapping runs have left behind, and no
\* user who registered before, keeps a new run from its end: a run to itself
\* is refused no statement (the order of the deletions, the keys of the schema).
RerunNeverRefused ==
  \A s \in Seeders :
    AtWork(s) /\ seeder[s].alone /\ seeder[s].quiet => ~Refused(seeder[s])

\* Next to a service that writes, a run to itself is refused a statement for two
\* causes only: the INSERT of the test user, because a user of the service has its
\* address, registered or updated since the run emptied the table, or a role or
\* permission of the test user, because the service has deleted that account
\* before it had one (Seed, Register, UpdateUser, DeleteUser).
RefusalHasCause ==
  \A s \in Seeders :
    LET r == seeder[s]
        i == Insertions(r.run)[r.next - Len(Deletions)]
    IN  AtWork(s) /\ r.alone /\ Refused(r)
          => /\ r.next > Len(Deletions)
             /\ \/ /\ i.table = "users"
                   /\ \E u \in db.users : u[1] > MaxRuns /\ mail[u] = TestEmail
                \/ /\ i.table \in Referring("users")
                   /\ <<r.run, TestEmail>> \notin db.users

\* Whenever a run dies, a user who has a role has it with all its permissions:
\* roles are taken away before their permissions and given after them; for
\* runs that have never overlapped (the order of the statements of Seed).
RolesWhole ==
  ~mixed =>
    \A link \in db.user_roles :
      \A group \in GroupsOf[link[2][2]] :
        \E p \in db.permissions : p[2] = group /\ <<link[2], p>> \in db.role_permissions
=============================================================================
