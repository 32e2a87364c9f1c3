---------------------------- MODULE ProfileCache ----------------------------
(***************************************************************************)
(* UserService.GetUser, which answers GET /api/users/me from a cache in    *)
(* Redis or fills that cache from four queries, while accounts are         *)
(* renamed and deleted and the seeder empties the tables.  Nothing in the  *)
(* code invalidates an entry: what bounds the life of outdated data is the *)
(* expiration of five minutes, counted from the SET of a fill that may     *)
(* have begun long before.                                                 *)
(***************************************************************************)
EXTENDS RedisStore, FiniteSets

CONSTANTS
  Procs,        \* handler goroutines, each serving one request at a time
  Users,        \* UUIDs of accounts
  Staff,        \* the accounts that have roles and a permission of their own
  Roles,        \* the roles of Staff
  ProfileTtl,   \* the expiration of an entry, in ticks
  Faults,       \* the calls that may fail
  MaxNow,       \* bound: the clock stops here
  MaxRequests,  \* bound: number of requests that arrive
  MaxFailures,  \* bound: number of calls that fail
  MaxWrites,    \* bound: number of renamings and deletions
  MaxWiped      \* bound: number of tables the seeder empties, at most three

\* "get": the GET fails; "read": a query fails; "rows": the connection is lost
\* while rows are read, which nobody notices because rows.Err() is not asked;
\* "set": the SET fails without effect; "lost": it has its effect, but an
\* error is reported.
FaultKinds == {"get", "read", "rows", "set", "lost"}

ASSUME ProfileAssumption ==
  /\ Staff \subseteq Users
  /\ ProfileTtl \in Nat \ {0}
  /\ ProfileTtl % MsTicks = 0
  /\ Faults \subseteq FaultKinds
  /\ {MaxNow, MaxRequests, MaxFailures, MaxWrites} \subseteq Nat
  /\ MaxWiped \in 0..3

VARIABLES
  now,        \* the clock, in ticks
  redis,      \* the live keys of the cache: key -> deadline
  body,       \* what is stored under them: key -> profile
  users,      \* the users table: UUID -> name
  wiped,      \* number of tables the seeder has emptied
  req,        \* the request each process is serving
  arrived,    \* number of requests so far
  failures,   \* number of calls that have failed
  writes,     \* number of renamings and deletions so far
  names,      \* history: the rows there have been
  dated,      \* history: which requests may hold what is no longer true
  unsettled   \* history: when an account last changed or was read by such

vars == <<now, redis, body, users, wiped, req, arrived, failures, writes, names,
          dated, unsettled>>

-----------------------------------------------------------------------------
(* State *)

\* The permission that accounts of Staff have themselves.
Own == {"read-other"}

\* The other columns of a row, by the number of the write they are from.
Names == 0..MaxWrites

Profiles == [name : Names, roles : SUBSET Roles, granted : SUBSET Roles,
             direct : SUBSET Own]

\* A profile before its queries; also what there is of an account that is gone.
Blank == [name |-> -1, roles |-> {}, granted |-> {}, direct |-> {}]

Places == {"idle", "get", "row", "roles", "direct", "granted", "set", "replied"}

\* "redis" is an error of go-redis passed on as it is.
Errors == {"nil", "ErrUserNotFound", "redis"}

Idle == [at |-> "idle", uuid |-> "none", made |-> Blank, err |-> "nil"]

Requests == [at : Places, uuid : Users \cup {"none"},
             made : Profiles \cup {Blank}, err : Errors]

\* Mutant: one key for everybody.
CacheKeyShared(u) == <<"user:me">>

\* fmt.Sprintf("user:me:%s", uuid).
CacheKey(u) == <<"user:me", u>>

\* What the joins with user_roles and user_permissions give: the seeder empties
\* user_roles first and user_permissions next.
RolesOf(u) == IF u \in Staff /\ wiped < 1 THEN Roles ELSE {}
DirectOf(u) == IF u \in Staff /\ wiped < 2 THEN Own ELSE {}

\* The profile of an account as the tables have it.
Current(u) ==
  IF u \in DOMAIN users
  THEN [name |-> users[u], roles |-> RolesOf(u), granted |-> RolesOf(u),
        direct |-> DirectOf(u)]
  ELSE Blank

Rows == {<<u, users[u]>> : u \in DOMAIN users}

AtWork(p) == req[p].at \notin {"idle", "replied"}

TypeOK ==
  /\ now \in Nat
  /\ DOMAIN redis \subseteq {CacheKey(u) : u \in Users}
  /\ \A k \in DOMAIN redis : redis[k] \in Nat
  /\ DOMAIN body = DOMAIN redis
  /\ \A k \in DOMAIN body : body[k] \in Profiles
  /\ DOMAIN users \subseteq Users
  /\ \A u \in DOMAIN users : users[u] \in Names
  /\ wiped \in 0..3
  /\ req \in [Procs -> Requests]
  /\ {arrived, failures, writes} \subseteq Nat
  /\ names \subseteq Users \X Names
  /\ dated \in [Procs -> BOOLEAN]
  /\ unsettled \in [Users -> Nat]

Init ==
  /\ now = 0
  /\ redis = EmptyStore
  /\ body = EmptyStore
  /\ users = [u \in Users |-> 0]
  /\ wiped = 0
  /\ req = [p \in Procs |-> Idle]
  /\ arrived = 0
  /\ failures = 0
  /\ writes = 0
  /\ names = Rows
  /\ dated = [p \in Procs |-> FALSE]
  /\ unsettled = [u \in Users |-> 0]

-----------------------------------------------------------------------------
(* GetUser, for the caller the access token names *)

Become(p, r) == req' = [req EXCEPT ![p] = r]

Answer(r, profile, e) == [r EXCEPT !.at = "replied", !.made = profile, !.err = e]

Fails(kind) == kind \in Faults /\ failures < MaxFailures /\ failures' = failures + 1

Works == UNCHANGED failures

Tables == <<users, wiped, writes>>
Cache == <<redis, body>>

StartMe(p, u) ==
  /\ req[p].at = "idle"
  /\ arrived < MaxRequests
  /\ arrived' = arrived + 1
  /\ Become(p, [Idle EXCEPT !.at = "get", !.uuid = u])
  /\ Works
  /\ UNCHANGED <<now, Cache, Tables>>

\* Mutant: an entry that is read lives on for another five minutes.
GetCachedSliding(p) ==
  LET r == req[p]
      key == CacheKey(r.uuid)
  IN  /\ r.at = "get" /\ Works
      /\ \/ /\ key \in DOMAIN redis
            /\ redis' = Put(redis, key, DeadlineOf(ProfileTtl, now))
            /\ Become(p, Answer(r, body[key], "nil"))
         \/ /\ key \notin DOMAIN redis
            /\ Become(p, [r EXCEPT !.at = "row"])
            /\ UNCHANGED redis
      /\ UNCHANGED <<now, body, Tables, arrived>>

\* RedisService.Get: a miss and an error are the same to GetUser.
GetCached(p) ==
  LET r == req[p]
      key == CacheKey(r.uuid)
  IN  /\ r.at = "get"
      /\ \/ key \in DOMAIN redis /\ Works /\ Become(p, Answer(r, body[key], "nil"))
         \/ /\ (key \notin DOMAIN redis /\ Works) \/ Fails("get")
            /\ Become(p, [r EXCEPT !.at = "row"])
      /\ UNCHANGED <<now, Cache, Tables, arrived>>

\* Mutant: a missing row is no error.
FindRowIgnoresNoRows(p) ==
  LET r == req[p]
  IN  /\ r.at = "row"
      /\ Become(p, [r EXCEPT !.at = "roles", !.made.name = Current(r.uuid).name])
      /\ Works
      /\ UNCHANGED <<now, Cache, Tables, arrived>>

\* The first query of FindByUUID; GetUser turns every error of the four into
\* ErrUserNotFound.
FindRow(p) ==
  LET r == req[p]
  IN  /\ r.at = "row"
      /\ \/ /\ r.uuid \in DOMAIN users /\ Works
            /\ Become(p, [r EXCEPT !.at = "roles", !.made.name = users[r.uuid]])
         \/ /\ (r.uuid \notin DOMAIN users /\ Works) \/ Fails("read")
            /\ Become(p, Answer(r, Blank, "ErrUserNotFound"))
      /\ UNCHANGED <<now, Cache, Tables, arrived>>

\* What a loop over rows collects of them.
Collects(rows, got) == (got = rows /\ Works) \/ (got \in SUBSET rows \ {rows} /\ Fails("rows"))

\* The second, third and fourth query: roles, permissions of the account, and
\* permissions of roles, of which those of a role found before are attached.
FindLinks(p) ==
  LET r == req[p]
  IN  /\ \/ /\ r.at = "roles"
            /\ \E got \in SUBSET Roles :
                 /\ Collects(RolesOf(r.uuid), got)
                 /\ Become(p, [r EXCEPT !.at = "direct", !.made.roles = got])
         \/ /\ r.at = "direct"
            /\ \E got \in SUBSET Own :
                 /\ Collects(DirectOf(r.uuid), got)
                 /\ Become(p, [r EXCEPT !.at = "granted", !.made.direct = got])
         \/ /\ r.at = "granted"
            /\ \E got \in SUBSET Roles :
                 /\ Collects(RolesOf(r.uuid), got)
                 /\ Become(p, [r EXCEPT !.at = "set", !.made.granted = got \cap r.made.roles])
         \/ /\ r.at \in {"roles", "direct", "granted"} /\ Fails("read")
            /\ Become(p, Answer(r, Blank, "ErrUserNotFound"))
      /\ UNCHANGED <<now, Cache, Tables, arrived>>

\* RedisService.Set of the profile and the expiration of GetUser.
SetCached(p) ==
  LET r == req[p]
      key == CacheKey(r.uuid)
  IN  /\ r.at = "set"
      /\ \/ /\ redis' = Put(redis, key, DeadlineOf(ProfileTtl, now))
            /\ body' = Put(body, key, r.made)
            /\ \/ Works /\ Become(p, Answer(r, r.made, "nil"))
               \/ Fails("lost") /\ Become(p, Answer(r, Blank, "redis"))
         \/ /\ Fails("set")
            /\ Become(p, Answer(r, Blank, "redis"))
            /\ UNCHANGED Cache
      /\ UNCHANGED <<now, Tables, arrived>>

Deliver(p) ==
  /\ req[p].at = "replied"
  /\ Become(p, Idle)
  /\ Works
  /\ UNCHANGED <<now, Cache, Tables, arrived>>

-----------------------------------------------------------------------------
(* What goes on meanwhile *)

\* The UPDATE of UserRepository.Update.
Rename(u) ==
  /\ writes < MaxWrites
  /\ writes' = writes + 1
  /\ u \in DOMAIN users
  /\ users' = [users EXCEPT ![u] = writes']
  /\ Works
  /\ UNCHANGED <<now, Cache, wiped, req, arrived>>

\* The DELETE of UserRepository.Delete; foreign keys of user_roles and
\* user_permissions keep an account that has rows there.
Delete(u) ==
  /\ writes < MaxWrites
  /\ writes' = writes + 1
  /\ u \in DOMAIN users
  /\ RolesOf(u) = {} /\ DirectOf(u) = {}
  /\ users' = [v \in DOMAIN users \ {u} |-> users[v]]
  /\ Works
  /\ UNCHANGED <<now, Cache, wiped, req, arrived>>

\* The deletions of the seeder that a profile shows: user_roles,
\* user_permissions and users.  role_permissions, in between, is read only
\* through user_roles.  What the seeder inserts later gives links to none of
\* Users, only to the account it then makes, which has a new UUID.
Wipe ==
  /\ wiped < MaxWiped
  /\ wiped' = wiped + 1
  /\ users' = IF wiped = 2 THEN EmptyStore ELSE users
  /\ Works
  /\ UNCHANGED <<now, Cache, writes, req, arrived>>

Tick ==
  /\ now < MaxNow
  /\ now' = now + 1
  /\ redis' = Purge(redis, now')
  /\ body' = Restrict(body, DOMAIN redis')
  /\ Works
  /\ UNCHANGED <<Tables, req, arrived>>

-----------------------------------------------------------------------------

Serve(p) == GetCached(p) \/ FindRow(p) \/ FindLinks(p) \/ SetCached(p) \/ Deliver(p)

\* A request may hold what is no longer true once its account changes while it
\* is at work, or once it has lost rows.
BecomesDated(p) ==
  LET u == req[p].uuid
      From(x, y) == req[p].at = x /\ req'[p].at = y
  IN  /\ AtWork(p)
      /\ \/ dated[p]
         \/ Current(u)' # Current(u)
         \/ From("roles", "direct") /\ req'[p].made.roles # RolesOf(u)
         \/ From("direct", "granted") /\ req'[p].made.direct # DirectOf(u)
         \/ From("granted", "set") /\ req'[p].made.granted # RolesOf(u)

Observe ==
  /\ names' = names \cup Rows'
  /\ dated' = [p \in Procs |-> AtWork(p)' /\ BecomesDated(p)]
  /\ unsettled' =
       [u \in Users |->
          IF \/ Current(u)' # Current(u)
             \/ \E p \in Procs : req[p].uuid = u /\ BecomesDated(p)
          THEN now' ELSE unsettled[u]]

Next ==
  /\ \/ \E p \in Procs : Serve(p) \/ \E u \in Users : StartMe(p, u)
     \/ \E u \in Users : Rename(u) \/ Delete(u)
     \/ Wipe
     \/ Tick
  /\ Observe

Spec == Init /\ [][Next]_vars

-----------------------------------------------------------------------------
(* Properties *)

\* Whoever asks sees a profile of the own account as it once was: a name the
\* account has had, and roles and permissions it was given, whatever was
\* renamed, deleted or emptied between the queries of a read that others are
\* then answered from (GetUser, FindByUUID).
AnswersWereTrue ==
  \A p \in Procs :
    LET r == req[p]
    IN  r.at = "replied" /\ r.err = "nil"
          => /\ <<r.uuid, r.made.name>> \in names
             /\ r.made.roles # {} \/ r.made.direct # {} => r.uuid \in Staff
             /\ r.made.granted \subseteq r.made.roles

\* How long outdated data can live although nothing invalidates an entry: five
\* minutes, and the rest of a millisecond, after an account has last changed
\* and the last read that overlapped a change or lost rows is over, every
\* profile answered is the one in the tables, and none is answered of a deleted
\* account (GetUser, RedisService).
SettledAnswersCurrent ==
  [][\A p \in Procs :
       LET r == req'[p]
       IN  AtWork(p) /\ r.at = "replied" /\ r.err = "nil"
             => \/ r.made = Current(r.uuid)
                \/ now < unsettled[r.uuid] + ProfileTtl + MsTicks]_vars
=============================================================================
