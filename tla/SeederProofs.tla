---------------------------- MODULE SeederProofs ----------------------------
(***************************************************************************)
(* Theorems about Seeder, for every number of processes, runs and          *)
(* addresses, and of users registered, updated and deleted meanwhile.      *)
(***************************************************************************)
EXTENDS Seeder, TLAPS

-----------------------------------------------------------------------------
(* The tables and the program, spelled out *)

LEMMA TablesAre ==
  /\ Named = {"users", "roles", "permissions"}
  /\ Links = {"user_roles", "role_permissions", "user_permissions"}
  /\ Tables = {"users", "roles", "permissions",
               "user_roles", "role_permissions", "user_permissions"}
  BY DEF Tables, Named, Links, Parents

LEMMA ParentsAre ==
  /\ Parents["user_roles"][1] = "users" /\ Parents["user_roles"][2] = "roles"
  /\ Parents["role_permissions"][1] = "roles"
  /\ Parents["role_permissions"][2] = "permissions"
  /\ Parents["user_permissions"][1] = "users"
  /\ Parents["user_permissions"][2] = "permissions"
  BY DEF Parents

LEMMA ReferringAre ==
  /\ Referring("users") = {"user_roles", "user_permissions"}
  /\ Referring("roles") = {"user_roles", "role_permissions"}
  /\ Referring("permissions") = {"role_permissions", "user_permissions"}
  BY DEF Referring, Links, Parents

LEMMA NamesAre ==
  /\ Names["users"] = Emails \cup {TestEmail}
  /\ Names["roles"] = {"admin", "user"}
  /\ Names["permissions"] = {"crud-user", "crud-permission", "crud-role", "read-other"}
  BY DEF Names, GroupsOf

LEMMA DeletionsAre ==
  /\ Len(Deletions) = 6
  /\ Deletions[1] = "user_roles" /\ Deletions[2] = "role_permissions"
  /\ Deletions[3] = "user_permissions" /\ Deletions[4] = "users"
  /\ Deletions[5] = "roles" /\ Deletions[6] = "permissions"
  BY DEF Deletions

\* The rows of run n.
Row(n, name) == <<n, name>>
Link(n, a, b) == <<Row(n, a), Row(n, b)>>

LEMMA InsertionsAre ==
  ASSUME NEW n
  PROVE  Len(Insertions(n)) = 13 /\ Length(n) = 19
  <1>1. Len(Insertions(n)) = 13
    BY DEF Insertions
  <1>2. QED
    BY <1>1, DeletionsAre DEF Length

LEMMA InsertionTables ==
  ASSUME NEW n
  PROVE  /\ Insertions(n)[1].table = "roles"
         /\ Insertions(n)[2].table = "roles"
         /\ Insertions(n)[3].table = "permissions"
         /\ Insertions(n)[4].table = "permissions"
         /\ Insertions(n)[5].table = "permissions"
         /\ Insertions(n)[6].table = "permissions"
         /\ Insertions(n)[7].table = "users"
         /\ Insertions(n)[8].table = "role_permissions"
         /\ Insertions(n)[9].table = "role_permissions"
         /\ Insertions(n)[10].table = "role_permissions"
         /\ Insertions(n)[11].table = "user_roles"
         /\ Insertions(n)[12].table = "user_roles"
         /\ Insertions(n)[13].table = "user_permissions"
  <1>1. /\ Insertions(n)[1].table = "roles"
       /\ Insertions(n)[2].table = "roles"
       /\ Insertions(n)[3].table = "permissions"
       /\ Insertions(n)[4].table = "permissions"
       /\ Insertions(n)[5].table = "permissions"
       /\ Insertions(n)[6].table = "permissions"
       /\ Insertions(n)[7].table = "users"
    BY DEF Insertions
  <1>2. /\ Insertions(n)[8].table = "role_permissions"
       /\ Insertions(n)[9].table = "role_permissions"
       /\ Insertions(n)[10].table = "role_permissions"
       /\ Insertions(n)[11].table = "user_roles"
       /\ Insertions(n)[12].table = "user_roles"
       /\ Insertions(n)[13].table = "user_permissions"
    BY DEF Insertions
  <1>3. QED
    BY <1>1, <1>2

LEMMA InsertionRows ==
  ASSUME NEW n
  PROVE  /\ Insertions(n)[1].row = Row(n, "admin")
         /\ Insertions(n)[2].row = Row(n, "user")
         /\ Insertions(n)[3].row = Row(n, "crud-user")
         /\ Insertions(n)[4].row = Row(n, "crud-permission")
         /\ Insertions(n)[5].row = Row(n, "crud-role")
         /\ Insertions(n)[6].row = Row(n, "read-other")
         /\ Insertions(n)[7].row = Row(n, TestEmail)
         /\ Insertions(n)[8].row = Link(n, "admin", "crud-permission")
         /\ Insertions(n)[9].row = Link(n, "admin", "crud-role")
         /\ Insertions(n)[10].row = Link(n, "user", "crud-user")
         /\ Insertions(n)[11].row = Link(n, TestEmail, "admin")
         /\ Insertions(n)[12].row = Link(n, TestEmail, "user")
         /\ Insertions(n)[13].row = Link(n, TestEmail, "read-other")
  <1>1. /\ Insertions(n)[1].row = Row(n, "admin")
       /\ Insertions(n)[2].row = Row(n, "user")
       /\ Insertions(n)[3].row = Row(n, "crud-user")
       /\ Insertions(n)[4].row = Row(n, "crud-permission")
       /\ Insertions(n)[5].row = Row(n, "crud-role")
       /\ Insertions(n)[6].row = Row(n, "read-other")
       /\ Insertions(n)[7].row = Row(n, TestEmail)
    BY DEF Insertions, Row, Link
  <1>2. /\ Insertions(n)[8].row = Link(n, "admin", "crud-permission")
       /\ Insertions(n)[9].row = Link(n, "admin", "crud-role")
       /\ Insertions(n)[10].row = Link(n, "user", "crud-user")
       /\ Insertions(n)[11].row = Link(n, TestEmail, "admin")
       /\ Insertions(n)[12].row = Link(n, TestEmail, "user")
       /\ Insertions(n)[13].row = Link(n, TestEmail, "read-other")
    BY DEF Insertions, Row, Link
  <1>3. QED
    BY <1>1, <1>2

LEMMA RowParts ==
  ASSUME NEW n, NEW name
  PROVE  Row(n, name)[1] = n /\ Row(n, name)[2] = name
  BY DEF Row

LEMMA LinkParts ==
  ASSUME NEW n, NEW a, NEW b
  PROVE  Link(n, a, b)[1] = Row(n, a) /\ Link(n, a, b)[2] = Row(n, b)
  BY DEF Link

-----------------------------------------------------------------------------
(* How far a run has come *)

\* The tables that a run has emptied before its k-th statement, and what it has
\* inserted into a table by then.
Emptied(t, k) == \E j \in 1..6 : j < k /\ Deletions[j] = t

Inserted(n, k, t) ==
  {Insertions(n)[j].row :
     j \in {i \in 1..13 : i + 6 < k /\ Insertions(n)[i].table = t}}

LEMMA AllEmptied ==
  ASSUME NEW k \in Nat, k >= 7, NEW t \in Tables
  PROVE  Emptied(t, k)
  BY DeletionsAre, TablesAre DEF Emptied

LEMMA NothingInserted ==
  ASSUME NEW n, NEW k \in Nat, k <= 7, NEW t
  PROVE  Inserted(n, k, t) = {}
  BY DEF Inserted

\* A deletion adds its table to those emptied.
LEMMA DeletionEmpties ==
  ASSUME NEW k \in 1..6, NEW t
  PROVE  Emptied(t, k + 1) <=> Emptied(t, k) \/ t = Deletions[k]
  BY DEF Emptied

\* An insertion adds its row to those inserted.
LEMMA InsertionInserts ==
  ASSUME NEW n, NEW j \in 1..13, NEW t
  PROVE  /\ t = Insertions(n)[j].table =>
              Inserted(n, j + 7, t) = Inserted(n, j + 6, t) \cup {Insertions(n)[j].row}
         /\ t # Insertions(n)[j].table => Inserted(n, j + 7, t) = Inserted(n, j + 6, t)
  BY DEF Inserted

LEMMA HasInserted ==
  ASSUME NEW n, NEW j \in 1..13, NEW k \in Nat, j + 6 < k
  PROVE  Insertions(n)[j].row \in Inserted(n, k, Insertions(n)[j].table)
  BY DEF Inserted

\* A named row has a name of its table, and no other row of the table has it.
LEMMA NamedInsertion ==
  ASSUME NEW n, NEW j \in 1..7
  PROVE  /\ Insertions(n)[j].table \in Named
         /\ Insertions(n)[j].row[1] = n
         /\ Insertions(n)[j].row[2] \in Names[Insertions(n)[j].table]
         /\ Insertions(n)[j].row = Row(n, Insertions(n)[j].row[2])
  <1>1. j \in {1, 2} \/ j \in {3, 4} \/ j \in {5, 6} \/ j = 7
    OBVIOUS
  <1>2. CASE j \in {1, 2}
    BY <1>2, InsertionTables, InsertionRows, RowParts, TablesAre, NamesAre
  <1>3. CASE j \in {3, 4}
    BY <1>3, InsertionTables, InsertionRows, RowParts, TablesAre, NamesAre
  <1>4. CASE j \in {5, 6}
    BY <1>4, InsertionTables, InsertionRows, RowParts, TablesAre, NamesAre
  <1>5. CASE j = 7
    BY <1>5, InsertionTables, InsertionRows, RowParts, TablesAre, NamesAre
  <1>6. QED
    BY <1>1, <1>2, <1>3, <1>4, <1>5

LEMMA LinkInsertion ==
  ASSUME NEW n, NEW j \in 8..13
  PROVE  /\ Insertions(n)[j].table \in Links
         /\ \E p, q \in 1..7 :
              /\ Insertions(n)[p].table = Parents[Insertions(n)[j].table][1]
              /\ Insertions(n)[q].table = Parents[Insertions(n)[j].table][2]
              /\ Insertions(n)[j].row = <<Insertions(n)[p].row, Insertions(n)[q].row>>
  <1> DEFINE I == Insertions(n)
             Fits(p, q) == /\ I[p].table = Parents[I[j].table][1]
                           /\ I[q].table = Parents[I[j].table][2]
                           /\ I[j].row = <<I[p].row, I[q].row>>
  <1>0. SUFFICES I[j].table \in Links /\ \E p, q \in 1..7 : Fits(p, q)
    OBVIOUS
  <1> HIDE DEF I
  <1>1. CASE j = 8
    <2>1. I[j].row = <<I[1].row, I[4].row>>
      BY <1>1, InsertionRows DEF Link, I
    <2>2. /\ I[j].table = "role_permissions" /\ I[1].table = "roles"
          /\ I[4].table = "permissions"
      BY <1>1, InsertionTables DEF I
    <2>3. I[j].table \in Links
      BY <2>2, TablesAre
    <2>4. Fits(1, 4) /\ 1 \in 1..7 /\ 4 \in 1..7
      BY <2>1, <2>2, ParentsAre
    <2> HIDE DEF Fits
    <2>5. QED
      BY <2>3, <2>4
  <1>2. CASE j = 9
    <2>1. I[j].row = <<I[1].row, I[5].row>>
      BY <1>2, InsertionRows DEF Link, I
    <2>2. /\ I[j].table = "role_permissions" /\ I[1].table = "roles"
          /\ I[5].table = "permissions"
      BY <1>2, InsertionTables DEF I
    <2>3. I[j].table \in Links
      BY <2>2, TablesAre
    <2>4. Fits(1, 5) /\ 1 \in 1..7 /\ 5 \in 1..7
      BY <2>1, <2>2, ParentsAre
    <2> HIDE DEF Fits
    <2>5. QED
      BY <2>3, <2>4
  <1>3. CASE j = 10
    <2>1. I[j].row = <<I[2].row, I[3].row>>
      BY <1>3, InsertionRows DEF Link, I
    <2>2. /\ I[j].table = "role_permissions" /\ I[2].table = "roles"
          /\ I[3].table = "permissions"
      BY <1>3, InsertionTables DEF I
    <2>3. I[j].table \in Links
      BY <2>2, TablesAre
    <2>4. Fits(2, 3) /\ 2 \in 1..7 /\ 3 \in 1..7
      BY <2>1, <2>2, ParentsAre
    <2> HIDE DEF Fits
    <2>5. QED
      BY <2>3, <2>4
  <1>4. CASE j = 11
    <2>1. I[j].row = <<I[7].row, I[1].row>>
      BY <1>4, InsertionRows DEF Link, I
    <2>2. /\ I[j].table = "user_roles" /\ I[7].table = "users"
          /\ I[1].table = "roles"
      BY <1>4, InsertionTables DEF I
    <2>3. I[j].table \in Links
      BY <2>2, TablesAre
    <2>4. Fits(7, 1) /\ 7 \in 1..7 /\ 1 \in 1..7
      BY <2>1, <2>2, ParentsAre
    <2> HIDE DEF Fits
    <2>5. QED
      BY <2>3, <2>4
  <1>5. CASE j = 12
    <2>1. I[j].row = <<I[7].row, I[2].row>>
      BY <1>5, InsertionRows DEF Link, I
    <2>2. /\ I[j].table = "user_roles" /\ I[7].table = "users"
          /\ I[2].table = "roles"
      BY <1>5, InsertionTables DEF I
    <2>3. I[j].table \in Links
      BY <2>2, TablesAre
    <2>4. Fits(7, 2) /\ 7 \in 1..7 /\ 2 \in 1..7
      BY <2>1, <2>2, ParentsAre
    <2> HIDE DEF Fits
    <2>5. QED
      BY <2>3, <2>4
  <1>6. CASE j = 13
    <2>1. I[j].row = <<I[7].row, I[6].row>>
      BY <1>6, InsertionRows DEF Link, I
    <2>2. /\ I[j].table = "user_permissions" /\ I[7].table = "users"
          /\ I[6].table = "permissions"
      BY <1>6, InsertionTables DEF I
    <2>3. I[j].table \in Links
      BY <2>2, TablesAre
    <2>4. Fits(7, 6) /\ 7 \in 1..7 /\ 6 \in 1..7
      BY <2>1, <2>2, ParentsAre
    <2> HIDE DEF Fits
    <2>5. QED
      BY <2>3, <2>4
  <1>7. j = 8 \/ j = 9 \/ j = 10 \/ j = 11 \/ j = 12 \/ j = 13
    OBVIOUS
  <1>8. QED
    BY <1>1, <1>2, <1>3, <1>4, <1>5, <1>6, <1>7

LEMMA LinkRow ==
  ASSUME NEW n, NEW j \in 8..13
  PROVE  Insertions(n)[j].row = <<Insertions(n)[j].row[1], Insertions(n)[j].row[2]>>
  <1>1. PICK p \in 1..7, q \in 1..7 :
          Insertions(n)[j].row = <<Insertions(n)[p].row, Insertions(n)[q].row>>
    BY LinkInsertion
  <1>2. QED
    BY <1>1

\* No two rows of a run collide: two of a named table differ in their names, two
\* of a link table in a row they refer to.
LEMMA NamesDiffer ==
  ASSUME NEW n, NEW i \in 1..7, NEW j \in 1..7, i # j,
         Insertions(n)[i].table = Insertions(n)[j].table
  PROVE  Insertions(n)[i].row[2] # Insertions(n)[j].row[2]
  <1>1. i = 1 \/ i = 2 \/ i = 3 \/ i = 4 \/ i = 5 \/ i = 6 \/ i = 7
    OBVIOUS
  <1>2. j = 1 \/ j = 2 \/ j = 3 \/ j = 4 \/ j = 5 \/ j = 6 \/ j = 7
    OBVIOUS
  <1>3. ~(i = 7 /\ j # 7) /\ ~(j = 7 /\ i # 7)
    BY <1>1, <1>2, InsertionTables
  <1>4. QED
    BY <1>1, <1>2, <1>3, InsertionTables, InsertionRows, RowParts

LEMMA LinksDiffer ==
  ASSUME NEW n, NEW i \in 8..13, NEW j \in 8..13, i # j,
         Insertions(n)[i].table = Insertions(n)[j].table
  PROVE  Insertions(n)[i].row # Insertions(n)[j].row
  <1>1. \A a, b, c, d : Link(n, a, b) = Link(n, c, d) => a = c /\ b = d
    BY LinkParts, RowParts
  <1>2. CASE i \in {8, 9, 10}
    <2>1. j \in {8, 9, 10}
      BY <1>2, InsertionTables
    <2>2. QED
      BY <1>1, <1>2, <2>1, InsertionRows
  <1>3. CASE i \in {11, 12, 13}
    <2>1. j \in {11, 12, 13}
      BY <1>3, InsertionTables
    <2>2. /\ Insertions(n)[11].table = "user_roles"
          /\ Insertions(n)[12].table = "user_roles"
          /\ Insertions(n)[13].table = "user_permissions"
      BY InsertionTables
    <2>3. i \in {11, 12} /\ j \in {11, 12}
      BY <1>3, <2>1, <2>2
    <2>4. QED
      BY <1>1, <2>3, InsertionRows
  <1>4. QED
    BY <1>2, <1>3

-----------------------------------------------------------------------------
(* The inductive invariant *)

\* The tables d hold just what r has inserted, but for those r has yet to empty
\* and for the users, once the service has written some.
Kept(d, r) ==
  \A t \in Tables :
    Emptied(t, r.next) /\ (t # "users" \/ r.quiet) => d[t] = Inserted(r.run, r.next, t)

\* In the tables d every user has each of his roles with all its permissions.
Whole(d) ==
  \A link \in d["user_roles"] :
    \A group \in GroupsOf[link[2][2]] :
      \E p \in d["permissions"] : p[2] = group /\ <<link[2], p>> \in d["role_permissions"]

Counted ==
  \A s \in Seeders : /\ AtWork(s) => seeder[s].next \in 1..19
                     /\ seeder[s].state = "done" => seeder[s].next = 20

\* A run that is alone is so for as long as another is at work.
OneAlone == \A s, o \in Seeders : s # o /\ AtWork(o) => ~seeder[s].alone

Overlapped == ~mixed => \A s \in Seeders : AtWork(s) => seeder[s].alone

Progress ==
  \A s \in Seeders :
    seeder[s].state \in {"at work", "done"} /\ seeder[s].alone => Kept(db, seeder[s])

SeedInv ==
  /\ TypeOK
  /\ Counted
  /\ OneAlone
  /\ Overlapped
  /\ Progress
  /\ RolesWhole

LEMMA WholeRoles == RolesWhole <=> (~mixed => Whole(db))
  BY DEF RolesWhole, Whole

-----------------------------------------------------------------------------
(* The statements of a run that has the tables to itself *)

\* Deletions: the link tables that refer to a named table have been emptied.
LEMMA DeletionAllowed ==
  ASSUME NEW r, r.next \in 1..6, Kept(db, r)
  PROVE  ~DeleteRefused(Deletions[r.next])
  <1>1. \A t \in Tables : Inserted(r.run, r.next, t) = {}
    BY NothingInserted
  <1>2. \A t \in Links : Emptied(t, r.next) => db[t] = {}
    BY <1>1, TablesAre DEF Kept
  <1>3. CASE r.next \in 1..3
    BY <1>3, DeletionsAre, TablesAre DEF DeleteRefused
  <1>4. CASE r.next = 4
    <2>1. Emptied("user_roles", 4) /\ Emptied("user_permissions", 4)
      BY DeletionsAre DEF Emptied
    <2>2. QED
      BY <1>2, <1>4, <2>1, DeletionsAre, TablesAre, ReferringAre DEF DeleteRefused
  <1>5. CASE r.next = 5
    <2>1. Emptied("user_roles", 5) /\ Emptied("role_permissions", 5)
      BY DeletionsAre DEF Emptied
    <2>2. QED
      BY <1>2, <1>5, <2>1, DeletionsAre, TablesAre, ReferringAre DEF DeleteRefused
  <1>6. CASE r.next = 6
    <2>1. Emptied("role_permissions", 6) /\ Emptied("user_permissions", 6)
      BY DeletionsAre DEF Emptied
    <2>2. QED
      BY <1>2, <1>6, <2>1, DeletionsAre, TablesAre, ReferringAre DEF DeleteRefused
  <1>7. QED
    BY <1>3, <1>4, <1>5, <1>6

\* Insertions: no row has the name or is the link, and both parents are there, as
\* long as the service has not taken the address or deleted the test user.
LEMMA InsertionAllowed ==
  ASSUME NEW r, NEW j \in 1..13, r.next = j + 6, Kept(db, r),
         Insertions(r.run)[j].table = "users" => ~AddressTaken(TestEmail),
         Insertions(r.run)[j].table \in Referring("users") =>
           Row(r.run, TestEmail) \in db["users"]
  PROVE  ~InsertRefused(Insertions(r.run)[j].table, Insertions(r.run)[j].row)
  <1> DEFINE n == r.run
             I == Insertions(n)
             k == r.next
  <1>1. k \in Nat /\ k >= 7
    OBVIOUS
  <1>2. \A t \in Tables : t # "users" => db[t] = Inserted(n, k, t)
    BY <1>1, AllEmptied DEF Kept
  <1>3. CASE j = 7
    <2>1. I[j].table = "users" /\ I[j].row[2] = TestEmail
      BY <1>3, InsertionTables, InsertionRows, RowParts
    <2>2. "users" \notin Links
      BY TablesAre
    <2>3. QED
      BY <2>1, <2>2 DEF InsertRefused
  <1>4. CASE j \in 1..6
    <2>1. I[j].table \in Named /\ I[j].table # "users" /\ j \in 1..7
      <3>1. \A i \in 1..13 : I[i].table = "users" => i = 7
        BY InsertionTables
      <3>2. QED
        BY <1>4, <3>1, NamedInsertion
    <2>2. ASSUME NEW row \in db[I[j].table]
          PROVE  row[2] # I[j].row[2]
      <3>1. row \in Inserted(n, k, I[j].table)
        BY <1>2, <2>1, TablesAre
      <3>2. PICK i \in 1..13 : i + 6 < k /\ I[i].table = I[j].table /\ row = I[i].row
        BY <3>1 DEF Inserted
      <3>3. i \in 1..7 /\ i # j
        BY <1>4, <3>2
      <3>4. QED
        BY <2>1, <3>2, <3>3, NamesDiffer
    <2>3. I[j].table \notin Links
      BY <2>1, TablesAre
    <2>4. QED
      BY <2>1, <2>2, <2>3 DEF InsertRefused
  <1>5. CASE j \in 8..13
    <2>1. I[j].table \in Links /\ I[j].table \notin Named /\ I[j].table # "users"
      BY <1>5, LinkInsertion, TablesAre
    <2>2. I[j].row \notin db[I[j].table]
      <3>1. SUFFICES ASSUME I[j].row \in db[I[j].table]
                     PROVE  FALSE
        OBVIOUS
      <3>2. I[j].row \in Inserted(n, k, I[j].table)
        BY <1>2, <2>1, <3>1, TablesAre
      <3>3. PICK i \in 1..13 : i + 6 < k /\ I[i].table = I[j].table /\ I[j].row = I[i].row
        BY <3>2 DEF Inserted
      <3>4. i \in 8..13
        BY <2>1, <3>3, NamedInsertion
      <3>5. QED
        BY <1>5, <3>3, <3>4, LinksDiffer
    <2>3. PICK p \in 1..7, q \in 1..7 :
            /\ I[p].table = Parents[I[j].table][1]
            /\ I[q].table = Parents[I[j].table][2]
            /\ I[j].row = <<I[p].row, I[q].row>>
      BY <1>5, LinkInsertion
    <2>4. ASSUME NEW i \in {p, q}
          PROVE  I[i].row \in db[I[i].table]
      <3>1. CASE i = 7
        <4>1. I[i].table = "users" /\ I[i].row = Row(n, TestEmail)
          BY <3>1, InsertionTables, InsertionRows
        <4>2. I[j].table \in Referring("users")
          BY <2>1, <2>3, <4>1 DEF Referring
        <4>3. QED
          BY <4>1, <4>2
      <3>2. CASE i # 7
        <4>1. I[i].table \in Tables /\ I[i].table # "users"
          <5>1. i \in 1..7
            OBVIOUS
          <5>2. \A h \in 1..13 : I[h].table = "users" => h = 7
            BY InsertionTables
          <5>3. QED
            BY <3>2, <5>1, <5>2, NamedInsertion, TablesAre
        <4>2. I[i].row \in Inserted(n, k, I[i].table)
          BY <1>1, <1>5, HasInserted
        <4>3. QED
          BY <1>2, <4>1, <4>2
      <3>3. QED
        BY <3>1, <3>2
    <2>5. I[j].row[1] = I[p].row /\ I[j].row[2] = I[q].row
      BY <2>3
    <2>6. \A i \in 1..2 : I[j].row[i] \in db[Parents[I[j].table][i]]
      BY <2>3, <2>4, <2>5
    <2>7. QED
      BY <2>1, <2>2, <2>6 DEF InsertRefused
  <1>6. QED
    BY <1>3, <1>4, <1>5

\* As long as the service writes nothing, the users are those the run has inserted.
LEMMA QuietUsers ==
  ASSUME NEW d, NEW r, r.next \in 7..20, r.quiet = TRUE, Kept(d, r)
  PROVE  /\ r.next \in 7..13 => d["users"] = {}
         /\ r.next \in 14..20 => Row(r.run, TestEmail) \in d["users"]
  <1>1. d["users"] = Inserted(r.run, r.next, "users")
    BY AllEmptied, TablesAre DEF Kept
  <1>2. \A i \in 1..13 : Insertions(r.run)[i].table = "users" => i = 7
    BY InsertionTables
  <1>3. CASE r.next \in 7..13
    BY <1>1, <1>2, <1>3 DEF Inserted
  <1>4. CASE r.next \in 14..20
    BY <1>1, <1>4, HasInserted, InsertionTables, InsertionRows
  <1>5. QED
    BY <1>3, <1>4

LEMMA NothingRefused ==
  ASSUME NEW r, r.next \in 1..19, r.quiet = TRUE, Kept(db, r)
  PROVE  ~Refused(r)
  <1>1. CASE r.next \in 1..6
    BY <1>1, DeletionAllowed, DeletionsAre DEF Refused
  <1>2. CASE r.next \in 7..19
    <2> DEFINE j == r.next - 6
    <2>1. j \in 1..13 /\ r.next = j + 6
      BY <1>2
    <2>a. /\ r.next \in 7..20
          /\ j = 7 => r.next \in 7..13
          /\ j \in 11..13 => r.next \in 14..20
      BY <1>2, <2>1
    <2> HIDE DEF j
    <2>2. Insertions(r.run)[j].table = "users" => ~AddressTaken(TestEmail)
      <3>1. \A i \in 1..13 : Insertions(r.run)[i].table = "users" => i = 7
        BY InsertionTables
      <3>2. j = 7 => db["users"] = {}
        BY <2>a, QuietUsers
      <3>3. QED
        BY <2>1, <3>1, <3>2 DEF AddressTaken
    <2>3. Insertions(r.run)[j].table \in Referring("users") =>
            Row(r.run, TestEmail) \in db["users"]
      <3>1. \A i \in 1..10 : Insertions(r.run)[i].table \notin Referring("users")
        BY InsertionTables, ReferringAre
      <3>2. j \in 11..13 => Row(r.run, TestEmail) \in db["users"]
        BY <2>a, QuietUsers
      <3>3. QED
        BY <2>1, <3>1, <3>2
    <2>4. ~InsertRefused(Insertions(r.run)[j].table, Insertions(r.run)[j].row)
      BY <2>1, <2>2, <2>3, InsertionAllowed
    <2>5. QED
      BY <1>2, <2>4, DeletionsAre DEF Refused, j
  <1>3. QED
    BY <1>1, <1>2

-----------------------------------------------------------------------------
(* What a statement does to the tables *)

TablesTyped(d) ==
  /\ DOMAIN d = Tables
  /\ \A t \in Named : d[t] \subseteq (0..MaxRuns + MaxWrites) \X Names[t]
  /\ \A l \in Links : d[l] \subseteq d[Parents[l][1]] \X d[Parents[l][2]]

LEMMA AfterFields ==
  ASSUME NEW r \in Runs
  PROVE  /\ After(r) \in Runs
         /\ After(r).next = r.next + 1
         /\ After(r).run = r.run /\ After(r).alone = r.alone /\ After(r).quiet = r.quiet
         /\ After(r).state = IF r.next = 19 THEN "done" ELSE "at work"
  <1> DEFINE state == IF r.next = 19 THEN "done" ELSE "at work"
  <1>1. After(r) = [r EXCEPT !.next = @ + 1, !.state = state]
    BY InsertionsAre DEF After
  <1>2. state \in {"at work", "done"}
    OBVIOUS
  <1> HIDE DEF state
  <1>3. /\ After(r).next = r.next + 1 /\ After(r).state = state
        /\ After(r).run = r.run /\ After(r).alone = r.alone /\ After(r).quiet = r.quiet
    BY <1>1 DEF Runs
  <1>4. r.next + 1 \in Nat \ {0}
    <2>1. r.next \in Nat
      BY DEF Runs
    <2>2. QED
      BY <2>1
  <1>5. After(r) \in Runs
    BY <1>1, <1>2, <1>4 DEF Runs
  <1>6. QED
    BY <1>3, <1>5 DEF state

LEMMA FirstStatement == 1 \in Nat \ {0} /\ 1 \in 1..19
  OBVIOUS

LEMMA NextStatement ==
  ASSUME NEW k \in 1..19
  PROVE  k + 1 \in 2..20 /\ (k # 19 => k + 1 \in 1..19)
  OBVIOUS

Begun(n, b) == [state |-> "at work", run |-> n, next |-> 1, alone |-> b, quiet |-> TRUE]

LEMMA BegunFields ==
  ASSUME NEW n \in 0..MaxRuns, NEW b \in BOOLEAN
  PROVE  /\ Begun(n, b) \in Runs
         /\ Begun(n, b).state = "at work" /\ Begun(n, b).next = 1
         /\ Begun(n, b).alone = b /\ Begun(n, b).quiet = TRUE
  <1>1. Begun(n, b) \in Runs
    BY FirstStatement DEF Begun, Runs
  <1>2. /\ Begun(n, b).state = "at work" /\ Begun(n, b).next = 1
        /\ Begun(n, b).alone = b /\ Begun(n, b).quiet = TRUE
    BY DEF Begun
  <1>3. QED
    BY <1>1, <1>2

LEMMA JoinedFields ==
  ASSUME NEW r \in Runs
  PROVE  /\ [r EXCEPT !.alone = FALSE] \in Runs
         /\ [r EXCEPT !.alone = FALSE].alone = FALSE
         /\ [r EXCEPT !.alone = FALSE].state = r.state
         /\ [r EXCEPT !.alone = FALSE].next = r.next
  BY DEF Runs

LEMMA DisturbedFields ==
  ASSUME NEW r \in Runs
  PROVE  /\ [r EXCEPT !.quiet = FALSE] \in Runs
         /\ [r EXCEPT !.quiet = FALSE].quiet = FALSE
         /\ [r EXCEPT !.quiet = FALSE].state = r.state
         /\ [r EXCEPT !.quiet = FALSE].run = r.run
         /\ [r EXCEPT !.quiet = FALSE].next = r.next
         /\ [r EXCEPT !.quiet = FALSE].alone = r.alone
  BY DEF Runs

LEMMA FailedFields ==
  ASSUME NEW r \in Runs
  PROVE  /\ [r EXCEPT !.state = "failed"] \in Runs
         /\ [r EXCEPT !.state = "failed"].state = "failed"
         /\ [r EXCEPT !.state = "failed"].alone = r.alone
  BY DEF Runs

\* A DELETE empties its table, an INSERT adds its row, and no other table changes.
LEMMA DeletionEffect ==
  ASSUME NEW r, r.next \in 1..6, DOMAIN db = Tables
  PROVE  /\ Deletions[r.next] \in Tables
         /\ DOMAIN Effect(r) = Tables
         /\ \A t \in Tables : Effect(r)[t] = IF t = Deletions[r.next] THEN {} ELSE db[t]
  <1>1. Deletions[r.next] \in Tables
    BY DeletionsAre, TablesAre
  <1>2. Effect(r) = [db EXCEPT ![Deletions[r.next]] = {}]
    BY DeletionsAre DEF Effect
  <1>3. QED
    BY <1>1, <1>2

LEMMA InsertionEffect ==
  ASSUME NEW r, NEW j \in 1..13, r.next = j + 6, DOMAIN db = Tables
  PROVE  /\ DOMAIN Effect(r) = Tables
         /\ \A t \in Tables :
              Effect(r)[t] = IF t = Insertions(r.run)[j].table
                             THEN db[t] \cup {Insertions(r.run)[j].row} ELSE db[t]
  <1> DEFINE i == Insertions(r.run)[j]
  <1>1. Effect(r) = [db EXCEPT ![i.table] = @ \cup {i.row}]
    BY DeletionsAre DEF Effect
  <1> HIDE DEF i
  <1>2. /\ DOMAIN Effect(r) = Tables
        /\ \A t \in Tables : Effect(r)[t] = IF t = i.table THEN db[t] \cup {i.row} ELSE db[t]
    BY <1>1
  <1>3. QED
    BY <1>2 DEF i

LEMMA EffectKept ==
  ASSUME NEW r \in Runs, r.next \in 1..19, DOMAIN db = Tables, Kept(db, r)
  PROVE  Kept(Effect(r), After(r))
  <1> DEFINE n == r.run
             k == r.next
  <1>1. /\ After(r).next = k + 1 /\ After(r).run = n /\ After(r).quiet = r.quiet
    BY AfterFields
  <1>2. CASE k \in 1..6
    <2>1. ASSUME NEW t \in Tables, Emptied(t, k + 1), t # "users" \/ r.quiet
          PROVE  Effect(r)[t] = Inserted(n, k + 1, t)
      <3>1. Inserted(n, k, t) = {} /\ Inserted(n, k + 1, t) = {}
        BY <1>2, NothingInserted
      <3>2. CASE t = Deletions[k]
        BY <1>2, <3>1, <3>2, DeletionEffect
      <3>3. CASE t # Deletions[k]
        <4>1. Emptied(t, k)
          BY <1>2, <2>1, <3>3, DeletionEmpties
        <4>2. db[t] = Inserted(n, k, t)
          BY <2>1, <4>1 DEF Kept
        <4>3. QED
          BY <1>2, <3>1, <3>3, <4>2, DeletionEffect
      <3>4. QED
        BY <3>2, <3>3
    <2>2. QED
      BY <1>1, <2>1 DEF Kept
  <1>3. CASE k \in 7..19
    <2> DEFINE j == k - 6
    <2>1. j \in 1..13 /\ k = j + 6 /\ k + 1 = j + 7 /\ k \in Nat /\ k >= 7
      BY <1>3
    <2>2. ASSUME NEW t \in Tables, t # "users" \/ r.quiet
          PROVE  Effect(r)[t] = Inserted(n, k + 1, t)
      <3>1. db[t] = Inserted(n, k, t)
        BY <2>1, <2>2, AllEmptied DEF Kept
      <3> HIDE DEF j
      <3>2. j \in 1..13
        BY <2>1
      <3>3. Effect(r)[t] = IF t = Insertions(n)[j].table
                           THEN db[t] \cup {Insertions(n)[j].row} ELSE db[t]
        BY <2>1, InsertionEffect
      <3>4. CASE t = Insertions(n)[j].table
        <4>1. Inserted(n, j + 7, t) = Inserted(n, j + 6, t) \cup {Insertions(n)[j].row}
          BY <3>2, <3>4, InsertionInserts
        <4>2. QED
          BY <2>1, <3>1, <3>3, <3>4, <4>1
      <3>5. CASE t # Insertions(n)[j].table
        <4>1. Inserted(n, j + 7, t) = Inserted(n, j + 6, t)
          BY <3>2, <3>5, InsertionInserts
        <4>2. QED
          BY <2>1, <3>1, <3>3, <3>5, <4>1
      <3>6. QED
        BY <3>4, <3>5
    <2>3. QED
      BY <1>1, <2>2 DEF Kept
  <1>4. QED
    BY <1>2, <1>3

\* A statement that is not refused leaves every row with the rows it refers to.
LEMMA EffectTyped ==
  ASSUME TablesTyped(db), NEW r \in Runs, r.next \in 1..19, ~Refused(r)
  PROVE  TablesTyped(Effect(r))
  <1> DEFINE n == r.run
             k == r.next
             d == Effect(r)
  <1>1. \A l \in Links : Parents[l][1] \in Named /\ Parents[l][2] \in Named
    BY TablesAre, ParentsAre
  <1>2. Named \subseteq Tables /\ Links \subseteq Tables /\ Named \cap Links = {}
    BY TablesAre
  <1>3. DOMAIN db = Tables
    BY DEF TablesTyped
  <1>4. CASE k \in 1..6
    <2> DEFINE t == Deletions[k]
    <2>1. ~DeleteRefused(t)
      BY <1>4, DeletionsAre DEF Refused
    <2>2. \A u \in Tables : d[u] = IF u = t THEN {} ELSE db[u]
      BY <1>3, <1>4, DeletionEffect
    <2>3. DOMAIN d = Tables
      BY <1>3, <1>4, DeletionEffect
    <2> HIDE DEF d, t
    <2>4. \A u \in Named : d[u] \subseteq (0..MaxRuns + MaxWrites) \X Names[u]
      BY <1>2, <2>2 DEF TablesTyped
    <2>5. ASSUME NEW l \in Links
          PROVE  d[l] \subseteq d[Parents[l][1]] \X d[Parents[l][2]]
      <3>1. CASE d[l] = {}
        BY <3>1
      <3>2. CASE d[l] # {}
        <4>1. l # t /\ d[l] = db[l] /\ db[l] # {}
          BY <1>2, <2>2, <3>2
        <4>2. l \notin Referring(t) \/ t \notin Named
          BY <2>1, <4>1 DEF DeleteRefused
        <4>3. Parents[l][1] # t /\ Parents[l][2] # t
          BY <1>1, <4>2 DEF Referring
        <4>4. d[Parents[l][1]] = db[Parents[l][1]] /\ d[Parents[l][2]] = db[Parents[l][2]]
          BY <1>1, <1>2, <2>2, <4>3
        <4>5. QED
          BY <4>1, <4>4 DEF TablesTyped
      <3>3. QED
        BY <3>1, <3>2
    <2>6. TablesTyped(d)
      BY <2>3, <2>4, <2>5 DEF TablesTyped
    <2>7. QED
      BY <2>6 DEF d
  <1>5. CASE k \in 7..19
    <2> DEFINE j == k - 6
               t == Insertions(n)[j].table
               row == Insertions(n)[j].row
    <2>1. j \in 1..13 /\ k = j + 6
      BY <1>5
    <2>2. ~InsertRefused(t, row)
      BY <1>5, DeletionsAre DEF Refused
    <2>3. \A u \in Tables : d[u] = IF u = t THEN db[u] \cup {row} ELSE db[u]
      BY <1>3, <2>1, InsertionEffect
    <2>4. DOMAIN d = Tables
      BY <1>3, <2>1, InsertionEffect
    <2>5. t \in Named => row \in (0..MaxRuns + MaxWrites) \X Names[t]
      <3>1. SUFFICES ASSUME t \in Named
                     PROVE  row \in (0..MaxRuns + MaxWrites) \X Names[t]
        OBVIOUS
      <3>2. j \in 1..7
        <4>1. j \in 8..13 => t \in Links
          BY LinkInsertion
        <4>2. QED
          BY <1>2, <2>1, <3>1, <4>1
      <3>3. row = <<n, row[2]>> /\ row[2] \in Names[t]
        BY <3>2, NamedInsertion DEF Row
      <3>4. n \in 0..MaxRuns + MaxWrites
        <4>1. r.run \in 0..MaxRuns
          BY DEF Runs
        <4>2. QED
          BY <4>1, SeederAssumption
      <3> HIDE DEF n, row, t
      <3>5. QED
        BY <3>3, <3>4
    <2>6. t \in Links => row \in db[Parents[t][1]] \X db[Parents[t][2]]
      <3>1. SUFFICES ASSUME t \in Links
                     PROVE  row \in db[Parents[t][1]] \X db[Parents[t][2]]
        OBVIOUS
      <3>2. j \in 8..13
        BY <1>2, <2>1, <3>1, NamedInsertion
      <3>3. row = <<row[1], row[2]>>
        BY <3>2, LinkRow
      <3>4. \A i \in 1..2 : row[i] \in db[Parents[t][i]]
        BY <1>2, <2>2, <3>1, TablesAre DEF InsertRefused
      <3> HIDE DEF row
      <3>5. row[1] \in db[Parents[t][1]] /\ row[2] \in db[Parents[t][2]]
        BY <3>4
      <3>6. QED
        BY <3>3, <3>5
    <2> HIDE DEF d, t, row
    <2>7. ASSUME NEW u \in Named
          PROVE  d[u] \subseteq (0..MaxRuns + MaxWrites) \X Names[u]
      <3>1. db[u] \subseteq (0..MaxRuns + MaxWrites) \X Names[u] /\ u \in Tables
        BY <1>2 DEF TablesTyped
      <3>2. CASE u = t
        <4>1. d[u] = db[u] \cup {row}
          BY <2>3, <3>1, <3>2
        <4>2. row \in (0..MaxRuns + MaxWrites) \X Names[u]
          BY <2>5, <3>2
        <4>3. QED
          BY <3>1, <4>1, <4>2
      <3>3. CASE u # t
        BY <2>3, <3>1, <3>3
      <3>4. QED
        BY <3>2, <3>3
    <2>8. \A u \in Tables : db[u] \subseteq d[u]
      BY <2>3
    <2>9. ASSUME NEW l \in Links, NEW x \in d[l]
          PROVE  x \in d[Parents[l][1]] \X d[Parents[l][2]]
      <3>1. x \in db[Parents[l][1]] \X db[Parents[l][2]]
        <4>1. db[l] \subseteq db[Parents[l][1]] \X db[Parents[l][2]] /\ l \in Tables
          BY <1>2 DEF TablesTyped
        <4>2. CASE l = t
          <5>1. x \in db[l] \/ x = row
            BY <2>3, <2>9, <4>1, <4>2
          <5>2. row \in db[Parents[l][1]] \X db[Parents[l][2]]
            BY <2>6, <2>9, <4>2
          <5>3. QED
            BY <4>1, <5>1, <5>2
        <4>3. CASE l # t
          BY <2>3, <2>9, <4>1, <4>3
        <4>4. QED
          BY <4>2, <4>3
      <3>2. db[Parents[l][1]] \subseteq d[Parents[l][1]] /\ db[Parents[l][2]] \subseteq d[Parents[l][2]]
        BY <1>1, <1>2, <2>8
      <3>3. QED
        BY <3>1, <3>2
    <2>10. TablesTyped(d)
      BY <2>4, <2>7, <2>9 DEF TablesTyped
    <2>11. QED
      BY <2>10 DEF d
  <1>6. QED
    BY <1>4, <1>5

\* Every user of the table that comes has an address.
LEMMA AddressesTyped ==
  ASSUME mail \in [db["users"] -> Names["users"]], NEW users,
         users \subseteq (0..MaxRuns + MaxWrites) \X Names["users"]
  PROVE  Addresses(users) \in [users -> Names["users"]]
  <1>1. ASSUME NEW u \in users
        PROVE  (IF u \in db["users"] THEN mail[u] ELSE u[2]) \in Names["users"]
    <2>1. u[2] \in Names["users"]
      BY <1>1
    <2>2. QED
      BY <2>1
  <1>2. Addresses(users) = [u \in users |-> IF u \in db["users"] THEN mail[u] ELSE u[2]]
    BY DEF Addresses
  <1>3. QED
    BY <1>1, <1>2

-----------------------------------------------------------------------------
(* The roles are whole after every statement of a run of its own *)

\* The users have roles only between the 11th insertion and the next run, and
\* then the run has inserted what those roles stand for.
LEMMA KeptWhole ==
  ASSUME NEW d, NEW r, r.next \in 2..20, Kept(d, r)
  PROVE  Whole(d)
  <1> DEFINE n == r.run
             k == r.next
             I == Insertions(n)
  <1>1. d["user_roles"] = Inserted(n, k, "user_roles")
    <2>1. Emptied("user_roles", k)
      BY DeletionsAre DEF Emptied
    <2>2. QED
      BY <2>1, TablesAre DEF Kept
  <1>2. ASSUME NEW link \in d["user_roles"]
        PROVE  \A group \in GroupsOf[link[2][2]] :
                 \E p \in d["permissions"] :
                   p[2] = group /\ <<link[2], p>> \in d["role_permissions"]
    <2>1. PICK i \in 1..13 : i + 6 < k /\ I[i].table = "user_roles" /\ link = I[i].row
      BY <1>1 DEF Inserted
    <2>2. i \in {11, 12}
      BY <2>1, InsertionTables
    <2>3. k \in Nat /\ k >= 7 /\ k > 17
      BY <2>1, <2>2
    <2>4. /\ d["permissions"] = Inserted(n, k, "permissions")
          /\ d["role_permissions"] = Inserted(n, k, "role_permissions")
      BY <2>3, AllEmptied, TablesAre DEF Kept
    <2>5. \A j \in 1..10 : I[j].row \in Inserted(n, k, I[j].table)
      BY <2>3, HasInserted
    <2>6. /\ Row(n, "crud-user") \in d["permissions"]
          /\ Row(n, "crud-permission") \in d["permissions"]
          /\ Row(n, "crud-role") \in d["permissions"]
      BY <2>4, <2>5, InsertionTables, InsertionRows
    <2>7. /\ Link(n, "admin", "crud-permission") \in d["role_permissions"]
          /\ Link(n, "admin", "crud-role") \in d["role_permissions"]
          /\ Link(n, "user", "crud-user") \in d["role_permissions"]
      BY <2>4, <2>5, InsertionTables, InsertionRows
    <2>8. CASE i = 11
      <3>1. link[2] = Row(n, "admin") /\ link[2][2] = "admin"
        BY <2>1, <2>8, InsertionRows, LinkParts, RowParts
      <3>2. GroupsOf[link[2][2]] = {"crud-permission", "crud-role"}
        BY <3>1 DEF GroupsOf
      <3>3. /\ <<link[2], Row(n, "crud-permission")>> \in d["role_permissions"]
            /\ <<link[2], Row(n, "crud-role")>> \in d["role_permissions"]
        BY <2>7, <3>1 DEF Link
      <3>4. /\ Row(n, "crud-permission")[2] = "crud-permission"
            /\ Row(n, "crud-role")[2] = "crud-role"
        BY RowParts
      <3>5. ASSUME NEW group \in {"crud-permission", "crud-role"}
            PROVE  \E p \in d["permissions"] :
                     p[2] = group /\ <<link[2], p>> \in d["role_permissions"]
        <4>1. CASE group = "crud-permission"
          BY <2>6, <3>3, <3>4, <4>1
        <4>2. CASE group = "crud-role"
          BY <2>6, <3>3, <3>4, <4>2
        <4>3. QED
          BY <4>1, <4>2
      <3>6. QED
        BY <3>2, <3>5
    <2>9. CASE i = 12
      <3>1. link[2] = Row(n, "user") /\ link[2][2] = "user"
        BY <2>1, <2>9, InsertionRows, LinkParts, RowParts
      <3>2. GroupsOf[link[2][2]] = {"crud-user"}
        BY <3>1 DEF GroupsOf
      <3>3. <<link[2], Row(n, "crud-user")>> \in d["role_permissions"]
        BY <2>7, <3>1 DEF Link
      <3>4. QED
        BY <2>6, <3>2, <3>3, RowParts
    <2>10. QED
      BY <2>2, <2>8, <2>9
  <1>3. QED
    BY <1>2 DEF Whole

-----------------------------------------------------------------------------
(* The steps *)

LEMMA TypeMeans ==
  TypeOK <=> /\ TablesTyped(db)
             /\ mail \in [db["users"] -> Names["users"]]
             /\ seeder \in [Seeders -> Runs]
             /\ {runs, writes} \subseteq Nat
             /\ mixed \in BOOLEAN
  BY DEF TypeOK, TablesTyped

LEMMA SeedInit ==
  ASSUME Init
  PROVE  SeedInv
  <1>1. \A t \in Tables : db[t] = {}
    BY DEF Init
  <1>2. \A l \in Links : Parents[l][1] \in Tables /\ Parents[l][2] \in Tables
    BY TablesAre, ParentsAre
  <1>3. Named \subseteq Tables /\ Links \subseteq Tables
    BY TablesAre
  <1>4. seeder \in [Seeders -> Runs]
    BY SeederAssumption DEF Init, Runs
  <1>5. \A s \in Seeders : seeder[s].state = "off"
    BY DEF Init
  <1>6. TypeOK
    <2>1. \A t \in Named : db[t] \subseteq (0..MaxRuns + MaxWrites) \X Names[t]
      BY <1>1, <1>3
    <2>2. \A l \in Links : db[l] \subseteq db[Parents[l][1]] \X db[Parents[l][2]]
      BY <1>1, <1>3
    <2>3. DOMAIN db = Tables
      BY DEF Init
    <2>4. {runs, writes} \subseteq Nat
      BY DEF Init
    <2>5. mixed \in BOOLEAN
      BY DEF Init
    <2>6. mail \in [db["users"] -> Names["users"]]
      BY <1>1, TablesAre DEF Init
    <2>7. QED
      BY <1>4, <2>1, <2>2, <2>3, <2>4, <2>5, <2>6 DEF TypeOK
  <1>7. RolesWhole
    BY <1>1, TablesAre DEF RolesWhole
  <1>8. QED
    BY <1>5, <1>6, <1>7 DEF SeedInv, Counted, OneAlone, Overlapped, Progress, AtWork

\* A new run, at its first statement, has nothing to have kept.
LEMMA StartStep ==
  ASSUME SeedInv, NEW s \in Seeders, Start(s)
  PROVE  SeedInv'
  <1> DEFINE others == \E o \in Seeders : AtWork(o)
  <1> USE DEF SeedInv
  <1>1. db' = db /\ mail' = mail /\ runs' = runs + 1 /\ runs < MaxRuns /\ writes' = writes
    BY DEF Start
  <1>2. mixed' = (mixed \/ others)
    BY DEF Start
  <1>3. /\ seeder'[s] = [state |-> "at work", run |-> runs + 1, next |-> 1,
                         alone |-> ~others, quiet |-> TRUE]
        /\ \A o \in Seeders : o # s => seeder'[o] = [seeder[o] EXCEPT !.alone = FALSE]
        /\ DOMAIN seeder' = Seeders
    BY DEF Start
  <1>4. \A o \in Seeders : seeder[o] \in Runs
    BY DEF TypeOK
  <1>5. \A o \in Seeders : o # s => /\ seeder'[o] \in Runs
                                    /\ seeder'[o].state = seeder[o].state
                                    /\ seeder'[o].next = seeder[o].next
                                    /\ seeder'[o].alone = FALSE
    <2>1. ASSUME NEW o \in Seeders, o # s
          PROVE  /\ seeder'[o] \in Runs
                 /\ seeder'[o].state = seeder[o].state
                 /\ seeder'[o].next = seeder[o].next
                 /\ seeder'[o].alone = FALSE
      <3>1. seeder[o] \in Runs /\ seeder'[o] = [seeder[o] EXCEPT !.alone = FALSE]
        BY <1>3, <1>4, <2>1
      <3>2. QED
        BY <3>1, JoinedFields
    <2>2. QED
      BY <2>1
  <1>6. others \in BOOLEAN
    OBVIOUS
  <1>7. runs + 1 \in 0..MaxRuns
    BY <1>1, SeederAssumption DEF TypeOK
  <1>8. /\ seeder'[s] \in Runs
        /\ seeder'[s].state = "at work" /\ seeder'[s].next = 1
        /\ seeder'[s].alone = ~others /\ seeder'[s].quiet = TRUE
    <2> HIDE DEF others
    <2>1. PICK b \in BOOLEAN : b = ~others
      OBVIOUS
    <2>2. seeder'[s] = Begun(runs + 1, b)
      BY <1>3, <2>1 DEF Begun
    <2>3. QED
      BY <1>7, <2>1, <2>2, BegunFields
  <1> HIDE DEF others
  <1>9. seeder' \in [Seeders -> Runs]
    <2>1. seeder' = [o \in Seeders |-> seeder'[o]]
      BY DEF Start
    <2>2. \A o \in Seeders : seeder'[o] \in Runs
      BY <1>5, <1>8
    <2>3. QED
      BY <2>1, <2>2
  <1>10. TypeOK'
    <2>1. mixed' \in BOOLEAN
      BY <1>2, <1>6 DEF TypeOK
    <2>2. QED
      BY <1>1, <1>7, <1>9, <2>1 DEF TypeOK
  <1>11. Counted'
    <2>1. ASSUME NEW o \in Seeders
          PROVE  /\ seeder'[o].state = "at work" => seeder'[o].next \in 1..19
                 /\ seeder'[o].state = "done" => seeder'[o].next = 20
      <3>1. CASE o = s
        <4>1. seeder'[o].state = "at work" /\ seeder'[o].next = 1
          BY <1>8, <3>1
        <4>2. QED
          BY <4>1, FirstStatement
      <3>2. CASE o # s
        BY <1>5, <3>2 DEF Counted, AtWork
      <3>3. QED
        BY <3>1, <3>2
    <2>2. QED
      BY <2>1 DEF Counted, AtWork
  <1>12. OneAlone'
    <2>1. ASSUME NEW x \in Seeders, NEW o \in Seeders, x # o,
                 seeder'[o].state = "at work", seeder'[x].alone
          PROVE  FALSE
      <3>1. x = s /\ ~others
        BY <1>5, <1>8, <2>1
      <3>2. seeder[o].state = "at work"
        BY <1>5, <2>1, <3>1
      <3>3. QED
        BY <3>1, <3>2 DEF others, AtWork
    <2>2. QED
      BY <2>1 DEF OneAlone, AtWork
  <1>13. Overlapped'
    <2>1. ASSUME ~mixed', NEW o \in Seeders, seeder'[o].state = "at work"
          PROVE  seeder'[o].alone
      <3>1. ~others
        BY <1>2, <2>1
      <3>2. o = s
        BY <1>5, <2>1, <3>1 DEF others, AtWork
      <3>3. QED
        BY <1>8, <3>1, <3>2
    <2>2. QED
      BY <2>1 DEF Overlapped, AtWork
  <1>14. Progress'
    <2>1. ASSUME NEW o \in Seeders, seeder'[o].alone
          PROVE  Kept(db, seeder[o])'
      <3>1. o = s
        BY <1>5, <2>1
      <3>2. \A t : ~Emptied(t, 1)
        BY DEF Emptied
      <3>3. QED
        BY <1>8, <3>1, <3>2 DEF Kept
    <2>2. QED
      BY <2>1 DEF Progress
  <1>15. RolesWhole'
    BY <1>1, <1>2 DEF RolesWhole
  <1>16. QED
    BY <1>10, <1>11, <1>12, <1>13, <1>14, <1>15

\* A statement that is not refused takes the run one step on.
LEMMA StatementStep ==
  ASSUME SeedInv, NEW s \in Seeders, AtWork(s), ~Refused(seeder[s]),
         db' = Effect(seeder[s]), mail' = Addresses(Effect(seeder[s])["users"]),
         seeder' = [seeder EXCEPT ![s] = After(seeder[s])],
         UNCHANGED <<runs, writes, mixed>>
  PROVE  SeedInv'
  <1> DEFINE r == seeder[s]
             a == After(r)
  <1> USE DEF SeedInv
  <1>1. TablesTyped(db) /\ seeder \in [Seeders -> Runs]
    BY TypeMeans
  <1>2. r \in Runs /\ r.next \in 1..19
    BY <1>1 DEF Counted
  <1>3. /\ a \in Runs /\ a.next = r.next + 1 /\ a.run = r.run
        /\ a.alone = r.alone /\ a.quiet = r.quiet
        /\ a.state = IF r.next = 19 THEN "done" ELSE "at work"
    BY <1>2, AfterFields
  <1>4. TablesTyped(db')
    BY <1>1, <1>2, EffectTyped
  <1>5. r.alone => Kept(db', a)
    <2>1. SUFFICES ASSUME r.alone
                   PROVE  Kept(db', a)
      OBVIOUS
    <2>2. Kept(db, r)
      BY <2>1 DEF Progress, AtWork
    <2>3. DOMAIN db = Tables
      BY <1>1 DEF TablesTyped
    <2>4. QED
      BY <1>2, <2>2, <2>3, EffectKept
  <1> HIDE DEF a
  <1>6. /\ a.next \in 2..20
        /\ (a.state = "at work" => a.next \in 1..19)
        /\ (a.state = "done" => a.next = 20)
    <2> DEFINE k == r.next
    <2>1. k \in 1..19 /\ a.next = k + 1 /\ a.state = IF k = 19 THEN "done" ELSE "at work"
      BY <1>2, <1>3
    <2> HIDE DEF k
    <2>2. a.next \in 2..20
      BY <2>1, NextStatement
    <2>3. CASE k = 19
      BY <2>1, <2>2, <2>3
    <2>4. CASE k # 19
      <3>1. a.state = "at work"
        BY <2>1, <2>4
      <3>2. k + 1 \in 1..19
        BY <2>1, <2>4, NextStatement
      <3>3. QED
        BY <2>1, <2>2, <3>1, <3>2
    <2>5. QED
      BY <2>3, <2>4
  <1>7. /\ seeder' = [seeder EXCEPT ![s] = a]
        /\ seeder'[s] = a
        /\ \A o \in Seeders : o # s => seeder'[o] = seeder[o]
    BY <1>1 DEF a
  <1>8. TypeOK'
    <2>1. seeder' \in [Seeders -> Runs]
      BY <1>1, <1>3, <1>7
    <2>2. {runs', writes'} \subseteq Nat
      BY DEF TypeOK
    <2>3. mixed' \in BOOLEAN
      BY DEF TypeOK
    <2>4. mail' \in [db'["users"] -> Names["users"]]
      <3>1. db'["users"] \subseteq (0..MaxRuns + MaxWrites) \X Names["users"]
        BY <1>4, TablesAre DEF TablesTyped
      <3>2. mail \in [db["users"] -> Names["users"]]
        BY TypeMeans
      <3>3. mail' = Addresses(db'["users"])
        OBVIOUS
      <3>4. QED
        BY <3>1, <3>2, <3>3, AddressesTyped
    <2>5. QED
      BY <1>4, <2>1, <2>2, <2>3, <2>4 DEF TypeOK, TablesTyped
  <1>9. Counted'
    <2>1. ASSUME NEW o \in Seeders
          PROVE  /\ seeder'[o].state = "at work" => seeder'[o].next \in 1..19
                 /\ seeder'[o].state = "done" => seeder'[o].next = 20
      <3>1. CASE o = s
        BY <1>6, <1>7, <3>1
      <3>2. CASE o # s
        BY <1>7, <3>2 DEF Counted, AtWork
      <3>3. QED
        BY <3>1, <3>2
    <2>2. QED
      BY <2>1 DEF Counted, AtWork
  <1>10. \A o \in Seeders : /\ seeder'[o].alone = seeder[o].alone
                            /\ AtWork(o)' => AtWork(o)
    <2>1. \A o \in Seeders : seeder'[o].alone = seeder[o].alone
      BY <1>3, <1>7
    <2>2. \A o \in Seeders : AtWork(o)' => AtWork(o)
      BY <1>7 DEF AtWork
    <2>3. QED
      BY <2>1, <2>2
  <1>11. OneAlone'
    BY <1>10 DEF OneAlone
  <1>12. Overlapped'
    BY <1>10 DEF Overlapped
  <1>13. Progress'
    <2>1. ASSUME NEW o \in Seeders, seeder'[o].alone
          PROVE  Kept(db', seeder'[o])
      <3>1. o = s
        BY <1>10, <2>1 DEF OneAlone
      <3>2. r.alone
        BY <1>10, <2>1, <3>1
      <3>3. QED
        BY <1>5, <1>7, <3>1, <3>2
    <2>2. QED
      BY <2>1 DEF Progress
  <1>14. RolesWhole'
    <2>1. ~mixed' => r.alone
      BY DEF Overlapped
    <2>2. ~mixed' => Whole(db')
      BY <1>5, <1>6, <2>1, KeptWhole
    <2>3. QED
      BY <2>2 DEF RolesWhole, Whole
  <1>15. QED
    BY <1>8, <1>9, <1>11, <1>12, <1>13, <1>14

\* A run that ends early leaves the tables as they are.
LEMMA FailStep ==
  ASSUME SeedInv, NEW s \in Seeders, AtWork(s),
         seeder' = [seeder EXCEPT ![s].state = "failed"],
         UNCHANGED <<db, mail, runs, writes, mixed>>
  PROVE  SeedInv'
  <1> USE DEF SeedInv
  <1>1. seeder \in [Seeders -> Runs]
    BY DEF TypeOK
  <1>2. /\ seeder'[s] \in Runs /\ seeder'[s].state = "failed"
        /\ seeder'[s].alone = seeder[s].alone
    BY <1>1, FailedFields
  <1>3. \A o \in Seeders : o # s => seeder'[o] = seeder[o]
    BY <1>1
  <1>4. seeder' \in [Seeders -> Runs]
    <2>1. seeder' = [o \in Seeders |-> seeder'[o]]
      BY <1>1
    <2>2. \A o \in Seeders : seeder'[o] \in Runs
      BY <1>1, <1>2, <1>3
    <2>3. QED
      BY <2>1, <2>2
  <1>5. TypeOK'
    BY <1>4 DEF TypeOK
  <1>6. Counted'
    <2>1. ASSUME NEW o \in Seeders
          PROVE  /\ seeder'[o].state = "at work" => seeder'[o].next \in 1..19
                 /\ seeder'[o].state = "done" => seeder'[o].next = 20
      BY <1>2, <1>3 DEF Counted, AtWork
    <2>2. QED
      BY <2>1 DEF Counted, AtWork
  <1>7. \A o \in Seeders : /\ seeder'[o].alone = seeder[o].alone
                           /\ AtWork(o)' => AtWork(o)
    <2>1. \A o \in Seeders : seeder'[o].alone = seeder[o].alone
      BY <1>2, <1>3
    <2>2. \A o \in Seeders : AtWork(o)' => AtWork(o)
      BY <1>3 DEF AtWork
    <2>3. QED
      BY <2>1, <2>2
  <1>8. OneAlone'
    BY <1>7 DEF OneAlone
  <1>9. Overlapped'
    BY <1>7 DEF Overlapped
  <1>10. Progress'
    <2>1. ASSUME NEW o \in Seeders, seeder'[o].state \in {"at work", "done"}, seeder'[o].alone
          PROVE  Kept(db', seeder'[o])
      BY <1>2, <1>3, <2>1 DEF Progress
    <2>2. QED
      BY <2>1 DEF Progress
  <1>11. RolesWhole'
    BY DEF RolesWhole
  <1>12. QED
    BY <1>5, <1>6, <1>8, <1>9, <1>10, <1>11

LEMMA ExecuteStep ==
  ASSUME SeedInv, NEW s \in Seeders, Execute(s)
  PROVE  SeedInv'
  <1>1. AtWork(s) /\ UNCHANGED <<runs, writes, mixed>>
    BY DEF Execute
  <1>2. CASE Refused(seeder[s])
    <2>1. seeder' = [seeder EXCEPT ![s].state = "failed"] /\ UNCHANGED <<db, mail>>
      BY <1>2 DEF Execute
    <2>2. QED
      BY <1>1, <2>1, FailStep
  <1>3. CASE ~Refused(seeder[s])
    <2>1. /\ db' = Effect(seeder[s]) /\ mail' = Addresses(Effect(seeder[s])["users"])
          /\ seeder' = [seeder EXCEPT ![s] = After(seeder[s])]
      BY <1>3 DEF Execute
    <2>2. QED
      BY <1>1, <1>3, <2>1, StatementStep
  <1>4. QED
    BY <1>2, <1>3

\* The service changes the users alone, and only those no link refers to go.
LEMMA ServiceStep ==
  ASSUME SeedInv, NEW users, NEW addresses, ServiceWrites(users, addresses),
         addresses \in [users -> Names["users"]],
         users \subseteq (0..MaxRuns + MaxWrites) \X Names["users"],
         \A l \in Referring("users") : \A row \in db[l] : row[1] \in users
  PROVE  SeedInv'
  <1> USE DEF SeedInv
  <1>1. TablesTyped(db) /\ seeder \in [Seeders -> Runs]
    BY TypeMeans
  <1>2. UNCHANGED <<runs, mixed>> /\ writes' = writes + 1
    BY DEF ServiceWrites
  <1>3. /\ DOMAIN db' = Tables
        /\ db'["users"] = users
        /\ \A t \in Tables : t # "users" => db'[t] = db[t]
    BY <1>1, TablesAre DEF ServiceWrites, TablesTyped
  <1>4. ASSUME NEW o \in Seeders
        PROVE  /\ seeder'[o] \in Runs
               /\ seeder'[o].quiet = FALSE
               /\ seeder'[o].state = seeder[o].state
               /\ seeder'[o].run = seeder[o].run
               /\ seeder'[o].next = seeder[o].next
               /\ seeder'[o].alone = seeder[o].alone
    <2>1. seeder[o] \in Runs /\ seeder'[o] = [seeder[o] EXCEPT !.quiet = FALSE]
      BY <1>1 DEF ServiceWrites
    <2>2. QED
      BY <2>1, DisturbedFields
  <1>5. seeder' \in [Seeders -> Runs]
    <2>1. seeder' = [o \in Seeders |-> seeder'[o]]
      BY DEF ServiceWrites
    <2>2. QED
      BY <1>4, <2>1
  <1>6. TablesTyped(db')
    <2>1. \A t \in Named : db'[t] \subseteq (0..MaxRuns + MaxWrites) \X Names[t]
      <3>1. TAKE t \in Named
      <3>2. CASE t = "users"
        BY <1>3, <3>2
      <3>3. CASE t # "users"
        BY <1>1, <1>3, <3>3, TablesAre DEF TablesTyped
      <3>4. QED
        BY <3>2, <3>3
    <2>2. ASSUME NEW l \in Links, NEW row \in db'[l]
          PROVE  row \in db'[Parents[l][1]] \X db'[Parents[l][2]]
      <3>1. row \in db[l] /\ row \in db[Parents[l][1]] \X db[Parents[l][2]]
        BY <1>1, <1>3, <2>2, TablesAre DEF TablesTyped
      <3>2. db'[Parents[l][2]] = db[Parents[l][2]]
        BY <1>3, TablesAre, ParentsAre
      <3>3. row[1] \in db'[Parents[l][1]]
        <4>1. CASE Parents[l][1] = "users"
          <5>1. l \in Referring("users")
            BY <4>1 DEF Referring
          <5>2. QED
            BY <1>3, <3>1, <4>1, <5>1
        <4>2. CASE Parents[l][1] # "users"
          <5>1. Parents[l][1] \in Tables
            BY TablesAre, ParentsAre
          <5>2. QED
            BY <1>3, <3>1, <4>2, <5>1
        <4>3. QED
          BY <4>1, <4>2
      <3>4. QED
        BY <3>1, <3>2, <3>3
    <2>3. QED
      BY <1>3, <2>1, <2>2 DEF TablesTyped
  <1>7. TypeOK'
    <2>1. {runs', writes'} \subseteq Nat
      BY <1>2 DEF TypeOK
    <2>2. mixed' \in BOOLEAN
      BY <1>2 DEF TypeOK
    <2>3. mail' \in [db'["users"] -> Names["users"]]
      BY <1>3 DEF ServiceWrites
    <2>4. QED
      BY <1>5, <1>6, <2>1, <2>2, <2>3 DEF TypeOK, TablesTyped
  <1>8. Counted' /\ OneAlone'
    <2>1. Counted'
      BY <1>4 DEF Counted, AtWork
    <2>2. \A o \in Seeders : /\ seeder'[o].alone = seeder[o].alone
                             /\ AtWork(o)' => AtWork(o)
      BY <1>4 DEF AtWork
    <2>3. OneAlone'
      BY <2>2 DEF OneAlone
    <2>4. QED
      BY <2>1, <2>3
  <1>9. Overlapped'
    BY <1>2, <1>4 DEF Overlapped, AtWork
  <1>10. Progress'
    <2>1. ASSUME NEW o \in Seeders, seeder'[o].state \in {"at work", "done"}, seeder'[o].alone
          PROVE  Kept(db', seeder'[o])
      <3>1. Kept(db, seeder[o])
        BY <1>4, <2>1 DEF Progress
      <3>2. seeder'[o].quiet = FALSE
        BY <1>4
      <3>3. QED
        BY <1>3, <1>4, <3>1, <3>2 DEF Kept
    <2>2. QED
      BY <2>1 DEF Progress
  <1>11. RolesWhole'
    <2>1. /\ db'["user_roles"] = db["user_roles"]
          /\ db'["permissions"] = db["permissions"]
          /\ db'["role_permissions"] = db["role_permissions"]
      BY <1>3, TablesAre
    <2>2. QED
      BY <1>2, <2>1 DEF RolesWhole
  <1>12. QED
    BY <1>7, <1>8, <1>9, <1>10, <1>11

\* The users that links refer to are there.
LEMMA ReferredThere ==
  ASSUME SeedInv
  PROVE  /\ db["users"] \subseteq (0..MaxRuns + MaxWrites) \X Names["users"]
         /\ mail \in [db["users"] -> Names["users"]]
         /\ \A l \in Referring("users") : \A row \in db[l] : row[1] \in db["users"]
  <1>1. TablesTyped(db) /\ mail \in [db["users"] -> Names["users"]]
    BY TypeMeans DEF SeedInv
  <1>2. db["users"] \subseteq (0..MaxRuns + MaxWrites) \X Names["users"]
    BY <1>1, TablesAre DEF TablesTyped
  <1>3. \A l \in Referring("users") : \A row \in db[l] : row[1] \in db["users"]
    BY <1>1, ReferringAre, TablesAre, ParentsAre DEF TablesTyped
  <1>4. QED
    BY <1>1, <1>2, <1>3

LEMMA RegisterStep ==
  ASSUME SeedInv, NEW e \in Names["users"], Register(e)
  PROVE  SeedInv'
  <1> DEFINE users == db["users"] \cup {<<MaxRuns + writes + 1, e>>}
  <1>1. MaxRuns + writes + 1 \in 0..MaxRuns + MaxWrites
    BY SeederAssumption DEF SeedInv, TypeOK, Register, ServiceWrites
  <1>2. users \subseteq (0..MaxRuns + MaxWrites) \X Names["users"]
    BY <1>1, ReferredThere
  <1>3. \A l \in Referring("users") : \A row \in db[l] : row[1] \in users
    BY ReferredThere
  <1>4. ServiceWrites(users, Addresses(users))
    BY DEF Register
  <1> HIDE DEF users
  <1>5. Addresses(users) \in [users -> Names["users"]]
    BY <1>2, ReferredThere, AddressesTyped
  <1>6. QED
    BY <1>2, <1>3, <1>4, <1>5, ServiceStep

LEMMA UpdateStep ==
  ASSUME SeedInv, NEW u \in db["users"], NEW e \in Names["users"], Update(u, e)
  PROVE  SeedInv'
  <1>1. [mail EXCEPT ![u] = e] \in [db["users"] -> Names["users"]]
    BY ReferredThere
  <1>2. ServiceWrites(db["users"], [mail EXCEPT ![u] = e])
    BY DEF Update
  <1>3. QED
    BY <1>1, <1>2, ReferredThere, ServiceStep

LEMMA DeleteStep ==
  ASSUME SeedInv, NEW u \in db["users"], Delete(u)
  PROVE  SeedInv'
  <1> DEFINE users == db["users"] \ {u}
  <1>1. users \subseteq (0..MaxRuns + MaxWrites) \X Names["users"]
    BY ReferredThere
  <1>2. \A l \in Referring("users") : \A row \in db[l] : row[1] \in users
    BY ReferredThere DEF Delete
  <1>3. ServiceWrites(users, Addresses(users))
    BY DEF Delete
  <1> HIDE DEF users
  <1>4. Addresses(users) \in [users -> Names["users"]]
    BY <1>1, ReferredThere, AddressesTyped
  <1>5. QED
    BY <1>1, <1>2, <1>3, <1>4, ServiceStep

-----------------------------------------------------------------------------
(* Whose accounts there are *)

\* Once r has emptied the users, those in d are the service's and its own.
Newcomers(d, r) ==
  Emptied("users", r.next) =>
    \A u \in d["users"] : u[1] > MaxRuns \/ u \in Inserted(r.run, r.next, "users")

\* Its own has the address of the test user in m until the service writes.
Addressed(m, r) ==
  r.quiet /\ r.next \in 14..20 => m[Row(r.run, TestEmail)] = TestEmail

Owned ==
  \A s \in Seeders :
    seeder[s].state \in {"at work", "done"} /\ seeder[s].alone
      => Newcomers(db, seeder[s]) /\ Addressed(mail, seeder[s])

LEMMA StartOwned ==
  ASSUME SeedInv, NEW s \in Seeders, Start(s)
  PROVE  Owned'
  <1>1. ASSUME NEW o \in Seeders, seeder'[o].alone
        PROVE  seeder'[o].next = 1
    <2>1. seeder[o] \in Runs
      BY DEF SeedInv, TypeOK
    <2>2. o = s
      BY <1>1, <2>1, JoinedFields DEF Start
    <2>3. QED
      BY <2>2 DEF Start
  <1>2. ~Emptied("users", 1) /\ 1 \notin 14..20
    BY DEF Emptied
  <1>3. QED
    BY <1>1, <1>2 DEF Owned, Newcomers, Addressed

\* What a statement of the run does to the users.
LEMMA EffectNewcomers ==
  ASSUME NEW r \in Runs, r.next \in 1..19, DOMAIN db = Tables, Newcomers(db, r)
  PROVE  Newcomers(Effect(r), After(r))
  <1> DEFINE n == r.run
             k == r.next
  <1>1. After(r).next = k + 1 /\ After(r).run = n
    BY AfterFields
  <1>2. "users" \in Tables
    BY TablesAre
  <1>3. CASE k \in 1..6
    <2>1. CASE Deletions[k] = "users"
      <3>1. Effect(r)["users"] = {}
        BY <1>2, <1>3, <2>1, DeletionEffect
      <3>2. QED
        BY <3>1 DEF Newcomers
    <2>2. CASE Deletions[k] # "users"
      <3>1. Effect(r)["users"] = db["users"]
        BY <1>2, <1>3, <2>2, DeletionEffect
      <3>2. Emptied("users", k + 1) => Emptied("users", k)
        BY <1>3, <2>2, DeletionEmpties
      <3>3. Inserted(n, k, "users") = {}
        BY <1>3, NothingInserted
      <3>4. QED
        BY <1>1, <3>1, <3>2, <3>3 DEF Newcomers
    <2>3. QED
      BY <2>1, <2>2
  <1>4. CASE k \in 7..19
    <2> DEFINE j == k - 6
    <2>1. j \in 1..13 /\ k = j + 6 /\ k + 1 = j + 7 /\ k \in Nat /\ k >= 7
      BY <1>4
    <2>2. Emptied("users", k)
      BY <1>2, <2>1, AllEmptied
    <2> HIDE DEF j
    <2>3. Effect(r)["users"] = IF "users" = Insertions(n)[j].table
                               THEN db["users"] \cup {Insertions(n)[j].row} ELSE db["users"]
      BY <1>2, <2>1, InsertionEffect
    <2>4. Inserted(n, k + 1, "users")
            = IF "users" = Insertions(n)[j].table
              THEN Inserted(n, k, "users") \cup {Insertions(n)[j].row}
              ELSE Inserted(n, k, "users")
      <3>1. /\ "users" = Insertions(n)[j].table =>
                 Inserted(n, j + 7, "users")
                   = Inserted(n, j + 6, "users") \cup {Insertions(n)[j].row}
            /\ "users" # Insertions(n)[j].table =>
                 Inserted(n, j + 7, "users") = Inserted(n, j + 6, "users")
        BY <2>1, InsertionInserts
      <3>2. QED
        BY <2>1, <3>1
    <2>5. \A u \in db["users"] : u[1] > MaxRuns \/ u \in Inserted(n, k, "users")
      BY <2>2 DEF Newcomers
    <2>6. \A u \in Effect(r)["users"] : u[1] > MaxRuns \/ u \in Inserted(n, k + 1, "users")
      BY <2>3, <2>4, <2>5
    <2>7. QED
      BY <1>1, <2>6 DEF Newcomers
  <1>5. QED
    BY <1>3, <1>4

\* The test user gets its address when it is made, and no statement takes it away.
LEMMA EffectAddressed ==
  ASSUME NEW r \in Runs, r.next \in 1..19, DOMAIN db = Tables, Kept(db, r),
         Addressed(mail, r)
  PROVE  Addressed(Addresses(Effect(r)["users"]), After(r))
  <1> DEFINE u == Row(r.run, TestEmail)
             later == Effect(r)["users"]
  <1>1. After(r).next = r.next + 1 /\ After(r).run = r.run /\ After(r).quiet = r.quiet
    BY AfterFields
  <1>2. SUFFICES ASSUME r.quiet, r.next + 1 \in 14..20
                 PROVE  Addresses(later)[u] = TestEmail
    BY <1>1 DEF Addressed
  <1>3. r.next \in 13..19 /\ r.next \in 7..20 /\ r.quiet = TRUE
    <2>1. r.next \in 13..19 /\ r.next \in 7..20
      BY <1>2
    <2>2. r.quiet \in BOOLEAN
      BY DEF Runs
    <2>3. QED
      BY <1>2, <2>1, <2>2
  <1>4. PICK j \in 7..13 : r.next = j + 6
    <2>1. r.next - 6 \in 7..13 /\ r.next = (r.next - 6) + 6
      BY <1>3
    <2>2. QED
      BY <2>1
  <1>5. /\ Insertions(r.run)[j].table = "users" <=> j = 7
        /\ Insertions(r.run)[7].row = u
    BY InsertionTables, InsertionRows
  <1>6. later = IF "users" = Insertions(r.run)[j].table
                THEN db["users"] \cup {Insertions(r.run)[j].row} ELSE db["users"]
    <2>1. j \in 1..13 /\ "users" \in Tables
      BY TablesAre
    <2>2. QED
      BY <1>4, <2>1, InsertionEffect
  <1>7. CASE j = 7
    <2>1. r.next \in 7..13
      BY <1>4, <1>7
    <2>2. db["users"] = {}
      BY <1>3, <2>1, QuietUsers
    <2>3. u \in later /\ u \notin db["users"] /\ u[2] = TestEmail
      BY <1>5, <1>6, <1>7, <2>2, RowParts
    <2> HIDE DEF u, later
    <2>4. QED
      BY <2>3 DEF Addresses
  <1>8. CASE j # 7
    <2>1. r.next \in 14..20
      BY <1>4, <1>8
    <2>2. u \in db["users"]
      BY <1>3, <2>1, QuietUsers
    <2>3. u \in later
      BY <1>5, <1>6, <1>8, <2>2
    <2>4. mail[u] = TestEmail
      BY <1>2, <2>1 DEF Addressed
    <2> HIDE DEF u, later
    <2>5. QED
      BY <2>2, <2>3, <2>4 DEF Addresses
  <1>9. QED
    BY <1>7, <1>8

LEMMA ExecuteOwned ==
  ASSUME SeedInv, Owned, NEW s \in Seeders, Execute(s) \/ Die(s)
  PROVE  Owned'
  <1>1. seeder \in [Seeders -> Runs] /\ AtWork(s) /\ DOMAIN db = Tables
    BY DEF SeedInv, TypeOK, Execute, Die
  <1>2. \A o \in Seeders : o # s => seeder'[o] = seeder[o] /\ ~seeder[o].alone
    BY <1>1 DEF SeedInv, OneAlone, Execute, Die
  <1>3. CASE seeder' = [seeder EXCEPT ![s].state = "failed"]
    <2>1. seeder'[s].state = "failed"
      BY <1>1, <1>3
    <2>2. QED
      BY <1>2, <2>1 DEF Owned
  <1>4. CASE /\ seeder' = [seeder EXCEPT ![s] = After(seeder[s])]
             /\ db' = Effect(seeder[s]) /\ mail' = Addresses(Effect(seeder[s])["users"])
    <2>1. seeder[s] \in Runs /\ seeder[s].next \in 1..19 /\ seeder'[s] = After(seeder[s])
      BY <1>1, <1>4 DEF SeedInv, Counted
    <2>2. seeder'[s].alone = seeder[s].alone
      BY <2>1, AfterFields
    <2>3. seeder[s].alone => /\ Kept(db, seeder[s])
                             /\ Newcomers(db, seeder[s]) /\ Addressed(mail, seeder[s])
      BY <1>1 DEF SeedInv, Progress, Owned, AtWork
    <2>4. seeder[s].alone => /\ Newcomers(db', After(seeder[s]))
                             /\ Addressed(mail', After(seeder[s]))
      BY <1>1, <1>4, <2>1, <2>3, EffectNewcomers, EffectAddressed
    <2>5. QED
      BY <1>2, <2>1, <2>2, <2>4 DEF Owned
  <1>5. QED
    BY <1>3, <1>4 DEF Execute, Die

\* The service adds users of its own.
LEMMA ServiceOwned ==
  ASSUME SeedInv, Owned, NEW users, NEW addresses, ServiceWrites(users, addresses),
         \A u \in users : u \in db["users"] \/ u[1] > MaxRuns
  PROVE  Owned'
  <1>1. db'["users"] = users
    BY TablesAre DEF SeedInv, TypeOK, ServiceWrites
  <1>2. ASSUME NEW o \in Seeders
        PROVE  /\ seeder'[o].quiet = FALSE
               /\ seeder'[o].state = seeder[o].state
               /\ seeder'[o].run = seeder[o].run
               /\ seeder'[o].next = seeder[o].next
               /\ seeder'[o].alone = seeder[o].alone
    <2>1. seeder[o] \in Runs /\ seeder'[o] = [seeder[o] EXCEPT !.quiet = FALSE]
      BY DEF SeedInv, TypeOK, ServiceWrites
    <2>2. QED
      BY <2>1, DisturbedFields
  <1>3. ASSUME NEW o \in Seeders, seeder'[o].state \in {"at work", "done"}, seeder'[o].alone
        PROVE  Newcomers(db', seeder'[o]) /\ Addressed(mail', seeder'[o])
    <2>1. Newcomers(db, seeder[o])
      BY <1>2, <1>3 DEF Owned
    <2>2. Newcomers(db', seeder'[o])
      BY <1>1, <1>2, <2>1 DEF Newcomers
    <2>3. Addressed(mail', seeder'[o])
      BY <1>2 DEF Addressed
    <2>4. QED
      BY <2>2, <2>3
  <1>4. QED
    BY <1>3 DEF Owned

LEMMA StepOwned == SeedInv /\ Owned /\ [Next]_vars => Owned'
  <1> SUFFICES ASSUME SeedInv, Owned, [Next]_vars
               PROVE  Owned'
    OBVIOUS
  <1>1. ASSUME NEW e \in Names["users"], Register(e)
        PROVE  Owned'
    <2> DEFINE u == <<MaxRuns + writes + 1, e>>
               users == db["users"] \cup {u}
    <2>1. MaxRuns + writes + 1 > MaxRuns
      BY SeederAssumption DEF SeedInv, TypeOK
    <2>2. u[1] > MaxRuns
      BY <2>1
    <2>3. ServiceWrites(users, Addresses(users))
      BY <1>1 DEF Register
    <2> HIDE DEF u
    <2>4. \A v \in users : v \in db["users"] \/ v[1] > MaxRuns
      BY <2>2
    <2> HIDE DEF users
    <2>5. QED
      BY <2>3, <2>4, ServiceOwned
  <1>2. ASSUME NEW u \in db["users"], NEW e, Update(u, e)
        PROVE  Owned'
    BY <1>2, ServiceOwned DEF Update
  <1>3. ASSUME NEW u \in db["users"], Delete(u)
        PROVE  Owned'
    BY <1>3, ServiceOwned DEF Delete
  <1>4. CASE UNCHANGED vars
    <2>1. db' = db /\ mail' = mail /\ seeder' = seeder
      BY <1>4 DEF vars
    <2>2. QED
      BY <2>1 DEF Owned
  <1>5. QED
    BY <1>1, <1>2, <1>3, <1>4, StartOwned, ExecuteOwned DEF Next

-----------------------------------------------------------------------------
(* Theorems *)

\* The inductive invariant holds of the seeder and the service together.
THEOREM SeederInvariance == Spec => []SeedInv
  <1>1. Init => SeedInv
    BY SeedInit
  <1>2. SeedInv /\ [Next]_vars => SeedInv'
    <2> SUFFICES ASSUME SeedInv, [Next]_vars
                 PROVE  SeedInv'
      OBVIOUS
    <2>1. ASSUME NEW s \in Seeders, Start(s)
          PROVE  SeedInv'
      BY <2>1, StartStep
    <2>2. ASSUME NEW s \in Seeders, Execute(s)
          PROVE  SeedInv'
      BY <2>2, ExecuteStep
    <2>3. ASSUME NEW s \in Seeders, Die(s)
          PROVE  SeedInv'
      BY <2>3, FailStep DEF Die
    <2>4. ASSUME NEW e \in Names["users"],
                 Register(e) \/ \E u \in db["users"] : Update(u, e)
          PROVE  SeedInv'
      BY <2>4, RegisterStep, UpdateStep
    <2>5. ASSUME NEW u \in db["users"], Delete(u)
          PROVE  SeedInv'
      BY <2>5, DeleteStep
    <2>6. CASE UNCHANGED vars
      <3>1. UNCHANGED <<db, mail, seeder, runs, writes, mixed>>
        BY <2>6 DEF vars
      <3>2. TypeOK' /\ RolesWhole'
        BY <3>1 DEF SeedInv, TypeOK, RolesWhole
      <3>3. Counted' /\ OneAlone' /\ Overlapped'
        BY <3>1 DEF SeedInv, Counted, OneAlone, Overlapped, AtWork
      <3>4. Progress'
        BY <3>1 DEF SeedInv, Progress
      <3>5. QED
        BY <3>2, <3>3, <3>4 DEF SeedInv
    <2>7. QED
      BY <2>1, <2>2, <2>3, <2>4, <2>5, <2>6 DEF Next
  <1>3. QED
    BY <1>1, <1>2, PTL DEF Spec

\* Every row fits its table and refers to rows that are there, whatever the runs
\* and the service do and wherever a run is cut off (UNIQUE, PRIMARY KEY and
\* FOREIGN KEY of the six tables).
THEOREM SeederTypeCorrect == Spec => []TypeOK
  BY SeederInvariance, PTL DEF SeedInv

\* A run to itself is refused no statement, whatever runs before it left behind
\* (the order of the deletions and insertions of Seed).
THEOREM RerunsGoThrough == Spec => []RerunNeverRefused
  <1>1. SeedInv => RerunNeverRefused
    <2>1. ASSUME SeedInv, NEW s \in Seeders, AtWork(s), seeder[s].alone, seeder[s].quiet
          PROVE  ~Refused(seeder[s])
      <3>1. seeder[s].next \in 1..19
        BY <2>1 DEF SeedInv, Counted
      <3>2. Kept(db, seeder[s])
        BY <2>1 DEF SeedInv, Progress, AtWork
      <3>3. seeder[s].quiet = TRUE
        <4>1. seeder[s] \in Runs
          BY <2>1 DEF SeedInv, TypeOK
        <4>2. seeder[s].quiet \in BOOLEAN
          BY <4>1 DEF Runs
        <4>3. QED
          BY <2>1, <4>2
      <3>4. QED
        BY <3>1, <3>2, <3>3, NothingRefused
    <2>2. QED
      BY <2>1 DEF RerunNeverRefused
  <1>2. QED
    BY <1>1, SeederInvariance, PTL

\* A user who has a role has it with all its permissions at every point where a
\* run may be cut off, for runs that have never overlapped (Seed).
THEOREM RolesAlwaysWhole == Spec => []RolesWhole
  BY SeederInvariance, PTL DEF SeedInv

\* Accounts are there, with their addresses, as Owned says.
THEOREM AccountsOwned == Spec => []Owned
  <1>1. Init => Owned
    <2>1. Init => \A s \in Seeders : seeder[s].state = "off"
      BY DEF Init
    <2>2. QED
      BY <2>1 DEF Owned
  <1>2. QED
    BY <1>1, StepOwned, SeederInvariance, PTL DEF Spec

\* Whatever users the service registers, updates and deletes meanwhile, a run to
\* itself is only ever refused its test user, because a user of the service has
\* the address, or a link of its test user, because the service has deleted it
\* (Seed, Register, UpdateUser, DeleteUser).
THEOREM RefusalsHaveCause == Spec => []RefusalHasCause
  <1>1. SeedInv /\ Owned => RefusalHasCause
    <2>1. ASSUME SeedInv, Owned, NEW s \in Seeders, AtWork(s), seeder[s].alone,
                 Refused(seeder[s])
          PROVE  LET r == seeder[s]
                     i == Insertions(r.run)[r.next - Len(Deletions)]
                 IN  /\ r.next > Len(Deletions)
                     /\ \/ /\ i.table = "users"
                           /\ \E u \in db.users : u[1] > MaxRuns /\ mail[u] = TestEmail
                        \/ /\ i.table \in Referring("users")
                           /\ <<r.run, TestEmail>> \notin db.users
      <3> DEFINE r == seeder[s]
      <3>1. r.next \in 1..19 /\ Kept(db, r) /\ Newcomers(db, r)
        BY <2>1 DEF SeedInv, Counted, Progress, Owned, AtWork
      <3>2. r.next \notin 1..6
        BY <2>1, <3>1, DeletionAllowed, DeletionsAre DEF Refused
      <3>3. PICK j \in 1..13 : r.next = j + 6 /\ r.next - Len(Deletions) = j
        <4>1. r.next - 6 \in 1..13 /\ r.next = (r.next - 6) + 6
          BY <3>1, <3>2
        <4>2. QED
          BY <4>1, DeletionsAre
      <3> DEFINE i == Insertions(r.run)[j]
      <3>4. InsertRefused(i.table, i.row)
        BY <2>1, <3>2, <3>3, DeletionsAre DEF Refused
      <3>5. \/ i.table = "users" /\ AddressTaken(TestEmail)
            \/ i.table \in Referring("users") /\ Row(r.run, TestEmail) \notin db["users"]
        BY <3>1, <3>3, <3>4, InsertionAllowed
      <3>6. ASSUME i.table = "users", AddressTaken(TestEmail)
            PROVE  \E u \in db["users"] : u[1] > MaxRuns /\ mail[u] = TestEmail
        <4>1. PICK u \in db["users"] : mail[u] = TestEmail
          BY <3>6 DEF AddressTaken
        <4>2. \A h \in 1..13 : Insertions(r.run)[h].table = "users" => h = 7
          BY InsertionTables
        <4>3. j = 7 /\ Inserted(r.run, r.next, "users") = {}
          BY <3>3, <3>6, <4>2 DEF Inserted
        <4>4. Emptied("users", r.next)
          BY <3>3, AllEmptied, TablesAre
        <4>5. u[1] > MaxRuns
          BY <3>1, <4>3, <4>4 DEF Newcomers
        <4>6. QED
          BY <4>1, <4>5
      <3>7. r.next > Len(Deletions)
        BY <3>3, DeletionsAre
      <3>8. QED
        BY <3>3, <3>5, <3>6, <3>7 DEF Row
    <2>2. QED
      BY <2>1 DEF RefusalHasCause
  <1>2. QED
    BY <1>1, SeederInvariance, AccountsOwned, PTL

\* A run that reports success has seeded the six tables, and they stay so until
\* the next run whichever users the service registers, updates or deletes; its
\* account has the address of the test user as long as the service writes nothing;
\* for runs that do not overlap (Seed, Register, UpdateUser, DeleteUser).
THEOREM SuccessIsSeeded == Spec => []SuccessMeansSeeded
  <1>1. SeedInv /\ Owned => SuccessMeansSeeded
    <2>1. ASSUME SeedInv, NEW s \in Seeders, seeder[s].state = "done", seeder[s].alone
          PROVE  SeededBy(seeder[s].run)
      <3> DEFINE n == seeder[s].run
                 own(t) == {Insertions(n)[i].row :
                              i \in {j \in 1..Len(Insertions(n)) : Insertions(n)[j].table = t}}
      <3>1. seeder[s].next = 20
        BY <2>1 DEF SeedInv, Counted
      <3>2. Kept(db, seeder[s])
        BY <2>1 DEF SeedInv, Progress
      <3>3. \A t \in Tables : t # "users" => db[t] = Inserted(n, 20, t)
        <4>1. \A t \in Tables : Emptied(t, 20)
          BY AllEmptied
        <4>2. QED
          BY <3>1, <3>2, <4>1 DEF Kept
      <3>4. \A t : own(t) = Inserted(n, 20, t)
        <4>1. TAKE t
        <4>2. {j \in 1..Len(Insertions(n)) : Insertions(n)[j].table = t}
                = {i \in 1..13 : i + 6 < 20 /\ Insertions(n)[i].table = t}
          <5>1. Len(Insertions(n)) = 13
            BY InsertionsAre
          <5>2. \A i \in 1..13 : i + 6 < 20
            OBVIOUS
          <5>3. QED
            BY <5>1, <5>2
        <4>3. QED
          BY <4>2 DEF Inserted
      <3>5. Row(n, TestEmail) \in db["users"]
        <4>1. Link(n, TestEmail, "admin") \in Inserted(n, 20, "user_roles")
          BY HasInserted, InsertionTables, InsertionRows
        <4>2. Link(n, TestEmail, "admin") \in db["user_roles"]
          BY <3>3, <4>1, TablesAre
        <4>3. db["user_roles"] \subseteq db["users"] \X db["roles"]
          BY <2>1, TablesAre, ParentsAre DEF SeedInv, TypeOK
        <4>4. QED
          BY <4>2, <4>3 DEF Link
      <3>6. own("users") \subseteq db["users"]
        <4>1. \A i \in 1..13 : Insertions(n)[i].table = "users" => i = 7
          BY InsertionTables
        <4>2. own("users") \subseteq {Insertions(n)[7].row}
          BY <4>1, InsertionsAre
        <4>3. Insertions(n)[7].row = Row(n, TestEmail)
          BY InsertionRows
        <4>4. QED
          BY <3>5, <4>2, <4>3
      <3> HIDE DEF own
      <3>7. \A t \in Tables : IF t = "users" THEN own(t) \subseteq db[t] ELSE db[t] = own(t)
        BY <3>3, <3>4, <3>6
      <3>8. QED
        BY <3>7 DEF SeededBy, own
    <2>2. ASSUME SeedInv, Owned, NEW s \in Seeders, seeder[s].state = "done",
                 seeder[s].alone, seeder[s].quiet
          PROVE  mail[<<seeder[s].run, TestEmail>>] = TestEmail
      <3>1. seeder[s].next = 20 /\ 20 \in 14..20
        BY <2>2 DEF SeedInv, Counted
      <3>2. Addressed(mail, seeder[s])
        BY <2>2 DEF Owned
      <3>3. QED
        BY <2>2, <3>1, <3>2 DEF Addressed, Row
    <2>3. QED
      BY <2>1, <2>2 DEF SuccessMeansSeeded
  <1>2. QED
    BY <1>1, SeederInvariance, AccountsOwned, PTL
=============================================================================
