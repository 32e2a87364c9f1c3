# A TLA+ model of go-starter-template

This directory holds TLA+ specifications of the service in `../src`, the TLC
configurations that check them on small instances, and proofs, checked by TLAPS,
of the properties that matter most for every instance.

| File | What it is |
|---|---|
| `RedisStore.tla` | SET with an expiration, GET and expiry: the part of Redis and go-redis the service uses |
| `AuthService.tla` | login, refresh, logout and guarded routes over the token blacklist |
| `TokenGate.tla` | what the service promises about tokens, as an abstract specification |
| `UserAccounts.tla` | the users table: registration in a transaction, and creating, updating and deleting accounts |
| `Directory.tla` | what the services promise about accounts, as an abstract specification |
| `ProfileCache.tla` | `GetUser` and its cache, while accounts change and the seeder runs |
| `UserSearch.tla` | searching and paging, while the rows change |
| `Seeder.tla` | the seeder, statement by statement, killed, repeated and overlapping |
| `MC*.tla` | the symmetry sets and value sets TLC uses |
| `RedisStoreProofs.tla`, `AuthServiceProofs.tla`, `AuthGateProofs.tla`, `UserAccountsProofs.tla`, `DirectoryProofs.tla`, `ProfileCacheProofs.tla`, `UserSearchProofs.tla`, `SeederProofs.tla` | theorems and their proofs |
| `*.cfg` | one configuration per run, with the run's name |
| `PROJECT.json` | components, runs, source lines of each definition, mutants, findings, hazards, theorems |

## 1. The system

A Go web service (Fiber) with PostgreSQL and Redis. Each HTTP request is served
by a goroutine of its own; with `web.prefork` there are several processes with
the same code. All state that outlives a request is in PostgreSQL, in Redis, in
the tokens the clients hold, or in the counters of the login limiter.

| Component (source under `src/internal`) | State | Operations | Talks to |
|---|---|---|---|
| `JwtService` (`service/jwt_service.go`) | two secrets, two lifetimes | generate and validate access and refresh tokens, hash a token | the clock |
| `BlacklistService` (`service/blacklist_service.go`), `RedisTokenBlacklist` (`repository/token_blacklist_repository.go`) | keys `blacklist:<type>:<hash>` with a TTL in Redis | `IsTokenBlacklisted`, `Add` | JwtService, Redis, the clock |
| `AuthService` (`service/auth_service.go`) | none; two goroutines per refresh and logout share its locals | `Login`, `Register`, `RefreshToken`, `Logout` | all of the above, UserRepository, UnitOfWork |
| `AuthMiddleware` (`middleware/auth_middleware.go`) | none | admit or refuse a request with a bearer token | BlacklistService, JwtService |
| `AuthController` (`controller/auth_controller.go`) | the `refresh_token` cookie of each client | the four routes under `/api/auth` | AuthService, Validation |
| `UnitOfWork`, `getExecutor` (`repository/uow.go`, `repository.go`) | open transactions, each with a connection | `Do` | the pool of `database/db.go` |
| `UserRepository` (`repository/user_repository.go`) | tables `users`, `user_roles`, ... | count, find, search, create, update, delete | PostgreSQL |
| `UserService`, `UserController`, `RedisService` (`service/redis_service.go`) | keys `user:me:<uuid>` in Redis, for five minutes | `GetUser`, `Search`, `CreateUser`, `UpdateUser`, `DeleteUser` | UserRepository, Redis |
| seeder (`../db/seeder/seeder.go`, a program of its own) | the six tables | `Seed`: empty them and fill them again | PostgreSQL |
| login limiter (`route/route.go`) | a count per client address and process | refuse the sixth login of a minute | - |
| validation, error codes, CORS, configuration, logging, monitoring, DTOs, wiring, welcome route | none at run time | - | - |

What makes it hard, and what each part must get right:

* **Tokens.** A token cannot be taken back; it is only *listed* in Redis until
  it would have expired. The lookup, the validation, the computation of the TTL
  and the SET happen at different instants, Redis counts milliseconds and JWTs
  count seconds, and any call may fail after it took effect. *Correct* means: a
  token that was retired with success never passes a later check, an entry
  never ends before its token, entries do not pile up, a failure of Redis
  neither admits nor expels anybody wrongly, every request is answered.
* **Concurrent requests of one client.** Refresh is check-then-act on the
  blacklist, and its two goroutines share a variable.
* **Accounts.** Every service counts the accounts of an address and writes
  later, without a lock; registration does so in a READ COMMITTED transaction.
  *Correct* means: one address, one account; a failed registration leaves
  nothing; a conflict is reported only if somebody had the address; what is
  deleted stays deleted; connections come back to the pool, also after a panic.
* **Profiles.** The cache of `GetUser` is never invalidated, a read that began
  before a change may fill it after that change, the four queries of a read are
  no transaction, and a read that lost rows does not notice. *Correct* means:
  nobody is shown what was never true, and outdated data does not live longer
  than the expiration.
* **Paging.** Each page is a search of its own, each search two statements, and
  nobody checks the numbers a client sends. *Correct* means: a client that pages
  to the end has missed nobody who stayed and was shown nobody twice, and the
  totals agree with the pages, under conditions worth knowing.
* **Seeding.** Thirty-seven statements without a transaction, next to a service
  that goes on writing users. *Correct* means: success is the truth, a run is
  refused only for a reason, and no failure needs to be repaired by hand.

`PROJECT.json` lists each hazard at its line, with the properties that cover it.

## 2. Plan

1. *(done)* `RedisStore`, `AuthService`, `TokenGate`: the tokens.
2. *(done)* Proofs of their types, safety and refinement.
3. *(done)* `UserAccounts` with the transaction and the pool, and the proof of
   `EmailsUnique`.
4. *(done)* `Directory`, which `UserAccounts` implements; proofs of the
   refinement and of every safety property of the accounts.
5. *(done)* `ProfileCache`: how wrong and how old an answer of `GetUser` can be,
   and proofs of both.
6. *(done)* `UserSearch`: the arithmetic of pages on integers that wrap around,
   and what a client sees that pages through changing rows.
7. *(done)* `Seeder`.
8. *(done)* Proofs of every other safety property: of the tokens, of paging and
   of the seeder; and that accounts never wait for one another in a circle.
9. Next: what failures can and cannot do to a refresh (which tokens are spent
   once it has failed at each of its steps), and who can still see a profile
   after its account is gone.

Two modules of an earlier plan were dropped. The login limiter counts inside
Fiber; the repository only gives it a maximum, a window and a key, so a model
would be one of Fiber. A composition of tokens with accounts would have nothing
to decide: a refresh or a guarded route never asks whether the account still
exists, so that a deleted user keeps getting tokens is true of every refresh.

## 3. Tokens: `RedisStore`, `AuthService`, `TokenGate`

**State.** `now` is the clock; `redis` maps the live keys to deadlines, which is
what Redis keeps; `req[p]` is the record of the request that goroutine `p`
serves: where it is (`at`), what it was shown (`shown`), the locals of the
handler (`who`, `made`, `err`), the state of its errgroup (`slot`, `egErr`) and
its response. `handed` holds the tokens clients have. `serial` numbers the
requests and stands for the random UUIDs they draw, each at most one. `retired`
and the field `late` are history variables: no guard reads them.

A token is what identifies it: the secret that signs it (`kind`), the user, the
expiry in whole seconds, and for a refresh token its random ID. The issue
instant is the expiry minus a constant and left out. A hash stands for its token
(SHA-256 is taken to be injective), and the two secrets differ.

**Actions.** One per step another request can observe or disturb:

| Code | Actions |
|---|---|
| `AuthController.Login`, `AuthService.Login` | `StartLogin`, `LoginBadRequest`, `FindUser`, `LoginSignAccess`, `LoginSignRefresh` |
| `AuthMiddleware` | `StartGuard`, `GuardBadHeader`, `IsTokenBlacklisted`, `ValidateAccessToken` |
| `AuthController.RefreshToken`, `AuthService.RefreshToken` | `StartRefresh`, `RefreshNoCookie`, `IsTokenBlacklisted`, `ValidateRefreshToken`, `Generate` and `CheckGenerated` per goroutine, `AwaitGenerated`, then `Add` below, `FinishRefresh` |
| `AuthController.Logout`, `AuthService.Logout` | `StartLogout`, `LogoutMissing`, `Add` per goroutine, `FinishLogout` |
| `BlacklistService.Add` | `ParseTokenClaims`, `CalculateTtl`, `StoreEntry` |
| the network, the clock, Redis | `Deliver`, `Tick` (Redis drops what is past its deadline) |

`Generate` and `CheckGenerated` are the assignment and the test in
`if accessToken, err = ...; err != nil`. Both goroutines assign the `err` of the
enclosing function, a data race; the model has each write and each read take
effect at once, in any order. The contexts of the errgroups need no state:
`RedisTokenBlacklist` uses a background context and signing ignores its context.

`Faults` names the calls that may fail: a GET, a SET without effect, a SET whose
reply is lost, either signature. `Foreign` lets clients send no token, a bad
body or a bad header (for a bad body, `ErrBadRequest` stands for
`ValidationError` too), strings that are no tokens, and tokens as the other type.

**Not modelled here.** The accounts (`FindUser` succeeds or fails freely); the
retries of go-redis and a SET that is applied after its client gave up; eviction
or loss of data in Redis; clocks of Redis and application that drift apart;
lifetimes that are not whole seconds, which the configuration cannot express.

**Abstract specification.** `TokenGate` has keys that die and stay dead, and
clients that enter with a key and are admitted or refused; one that enters with
a dead key is refused. The mapping (`AskOf`, `DeadKeys`) takes a guarded or
refresh request to its client's ask, and the spent keys to the dead ones.

## 4. Accounts: `UserAccounts`

**State.** `users` is the committed table as a function from UUIDs to addresses
(names, passwords and dates decide nothing); `open` the transactions that hold a
connection; `req[p]` the request of goroutine `p` with the address it asks for;
`serial` as above. `seen[p]` holds the rows there have been while `p` serves its
request, `removed` the accounts whose deletion succeeded; both are history.

**Actions.** Every SQL statement is a step: `CountByEmail`, `FindByUUID`,
`InsertUser`, `UpdateUser`, `DeleteUser`, `BeginTx`, `Commit`, `Rollback`, with
`HashPassword` between count and insert. `StartRegister`, `StartCreate`,
`StartUpdate`, `StartDelete` and `BadRequest` are the controllers. Register
runs in a transaction, so its insert is not visible before `Commit`, but keeps
the address: PostgreSQL lets a second writer of an address wait for the first
(`Reserved`), and refuses a committed duplicate (`Violates`). `GetExecutor`
decides whether a statement needs a free connection (`Connected`).

`FindByUUID` is one step although it runs four queries: the three others read
role and permission tables, which an update does not use (`ProfileCache` has all
four). Accounts in `Seeded`
have roles, so the foreign key of `user_roles` makes their deletion fail;
accounts in `Registered` have none. A panic is modelled while the password is
hashed; one anywhere inside the callback has the same effect. Create and update
call the body parser and no validator, so `BadRequest` is all that refuses them.
An INSERT outside a transaction that waits for an uncommitted row holds its
connection in the meantime; `InsertUser` takes the connection and the row at
once, which loses nothing the properties see, because the transaction waited for
has its own connection and needs no other.

`ConflictMeansTaken` distinguishes whose row an update has met. An own row counts
only if the account has had the requested address *and* another one while the
request was served: another update has overtaken it between its `FindByUUID` and
its `CountByEmail`. That can happen, and the client is then refused its own
address.

`CancelContext` is external: when a request is over, the tracing middleware
(`otelfiber`, installed in `config/web/fiber.go`) cancels its context, and
`database/sql` rolls back a transaction still open in it. This is the only
thing that ends the transaction of a registration that panicked.

**Abstract specification.** `Directory` has accounts with one address each,
clients that ask to add, move or remove one, and single steps that do so and
tell the client, or refuse and change nothing. A removed account never comes
back. The promise has one honest gap: a move of an account that was removed
meanwhile changes nothing and is told "done" (the run `accounts_vanished`).
`AskOf` maps a request to what its client asks and has been told: the step that
takes effect is the one that answers, be it `InsertUser`, `Commit`, `UpdateUser`
or `DeleteUser`; all steps before it are stutters. With lost answers or panics
the services do not implement the directory, and the theorem excludes them.

## 5. Profiles: `ProfileCache`

**State.** `redis` and `body` are the cache (deadlines and what is stored),
`users` the table with the name of each account, `wiped` how many of the tables
that decide what a profile shows the seeder has emptied, `req[p]` the request of a goroutine with the profile it has
`made` so far. A name is the number of the write it is from, so two instants of
an account differ; the roles and permissions of `Staff` are those the seeder
gives, and only emptying tables takes them away: no other code writes them but
the insertions of the seeder, which give links to the account it has just made
and to none of `Users`, so `Wipe` models its deletions only. A role's permissions are one group: `granted` holds the roles that came
with theirs.

| Code | Actions |
|---|---|
| `UserController.Me` | `StartMe` |
| `GetUser`, `RedisService.Get` | `GetCached`: a hit, or a miss, or an error that counts as a miss |
| `FindByUUID` | `FindRow`, then `FindLinks` three times, each query a step; `Collects` may lose rows |
| `RedisService.Set`, the rest of `GetUser` | `SetCached`: stored, refused, or stored and reported as failed |
| `Update`, `Delete`, the seeder, the clock | `Rename`, `Delete`, `Wipe`, `Tick` |

**History.** `names` has every row there has been. `dated` marks a read that was
at work when its account changed, or that has lost rows; `unsettled[u]` is when
`u` last changed or was last being read by such. `SettledAnswersCurrent` says
that what is answered later than five minutes (and the rest of a millisecond)
after that instant is what the tables hold. No fixed time after the *change*
would be right: the read that fills the cache last may have begun before it and
take as long as it likes.

## 6. Paging: `UserSearch`

**State.** `users` holds the rows the filter matches with their `created_at`;
`req` the one request of a client; `walk` what the client has seen and what has
disturbed it. The filter is a choice of rows, so a renaming is a row that appears
or vanishes. Integers have the width of `MaxInt` and wrap around (`Wrap`).

**Actions.** `FirstPage`, `NextPage` (a client that pages on while the metadata
says there is more) and `Look` (any page and size) begin a request, with the
defaults of `SetDefault`; `BadQuery` is a query string that does not parse.
`CountRows` and `FetchPage` are the two statements of `Search`, and `FetchPage`
includes the arithmetic of `UserController.List`. `Newest` is
`ORDER BY created_at DESC` with `OFFSET` and `LIMIT`: rows of equal age come in
any order. `Appear` and `Vanish` are the writes of others, at any step.

What the properties had to exclude is worth knowing, and none of it contradicts
a document, so there is no finding: rows of equal age may be skipped or repeated
from page to page; a connection lost while rows are read cuts a page short
without an error (`rows.Err()` is not asked); the limits in the tags of
`SearchUserRequest` are never checked, and for a huge page `(page - 1) * size`
wraps around and may answer with somebody else's page.

## 7. The seeder: `Seeder`

**State.** `db` has the six tables as sets of rows. A row of `users`, `roles` or
`permissions` is a random UUID, which the number of the run that drew it (or of
the service's write) and a name stand for; a name of a role or permission never
changes, the address of a user does, and `mail` holds it. A row of a link table
is a pair of such rows. `seeder[s]` is the run of process `s` with its next
statement.

**Actions.** `Start`; `Execute`, one statement: carried out, or refused by a key
of the schema (`InsertRefused`, `DeleteRefused`), which ends the run
(`log.Fatalf`); `Die`, between any two statements; and the service at work on
`users`: `Register` (a new account), `Update` (another address for any account,
also one with roles, also one the seeder has made) and `Delete` (of an account
without roles or permissions). Each of the three is the statement that takes
effect; the reads before it are those of `UserAccounts`. `Deletions` and
`Insertions` are the statements in the order of the source, one permission
standing for each group of four.

Two runs that overlap can both be refused, or one can report success over what
the other has deleted; `SuccessMeansSeeded` is therefore stated of runs alone.
Such a run has success only if its roles, permissions and links are the ones that
are there, and the account it has made; that this account is `test@test.com` is
true as long as the service writes nothing, because `PUT /api/users/:uuid` may
rename it, while the run is at work or later, and nobody notices.

What runs leave behind never keeps a later run from its end
(`RerunNeverRefused`); only what the service does during a run can, and
`RefusalHasCause` says how: the test user is refused if somebody was given its
address after the users had been deleted, by registration or by update, and its
links are refused if the account was deleted before it had any.

## 8. Runs

Runs that pass:

| Run | Instance | Shows |
|---|---|---|
| `auth_core` | 2 goroutines, 1 user, 3 requests, two ticks per millisecond and two milliseconds per second, lifetimes 1 s and 2 s, clock to 1.5 s | `RetiredKeysSpent`, `NoLateAdmission`, `EntriesOutliveTokens`, `RefreshTokenFresh`, `ClearedCookieIsSpent`, `ImplementsTokenGate`, types |
| `auth_faults` | 1 goroutine (and the two inside its refresh or logout), 3 requests, whole seconds, clock to 2 s, every fault, foreign strings | `RetiredKeysSpent`, `NoLateAdmission`, `EntriesExpire`, `RefusedOnlyIfSpent`, `EveryRequestAnswered` |
| `accounts_core` | 2 goroutines, 3 addresses, a seeded and a registered account, pool of 2, 4 requests, failing statements, BEGIN and COMMIT | `EmailsUnique`, `FailedLeavesNoRow`, `ConflictMeansTaken`, `OpenMeansAtWork`, `ImplementsDirectory`, types |
| `accounts_live` | pool of 1, panics, failing writes and commits, lost answers, 3 requests | `DeletedStaysDeleted`, `NoCircularWait`, `EveryRequestAnswered`, `TransactionsEnd` |
| `profile` | 2 goroutines, a seeded and a plain account, expiration of 1 tick, clock to 2, 3 requests, 1 failure of any kind, 1 renaming or deletion, 3 tables emptied | `AnswersWereTrue`, `SettledAnswersCurrent`, types |
| `search` | 3 accounts, 3 ages, pages -15, -1, 0, 2, 17 and sizes -2, 0, 1, 2, 4, 31 with a `MaxInt` of 31, 4 requests, 2 changes | `WalkMissesNone`, `WalkRepeatsNone`, `PagesAsAnnounced`, `NegativeRefused`, types |
| `seeder` | 2 processes, 3 runs, 2 registrations, updates or deletions | `SuccessMeansSeeded`, `RerunNeverRefused`, `RefusalHasCause`, `RolesWhole`, types |

Runs that find a disagreement between the code and what the repository says:

| Run | What happens |
|---|---|
| `auth_race` | A refresh passes the lookup (`auth_service.go:138`); a logout, or another refresh, with the same token succeeds; the first refresh hands out a new pair. |
| `auth_relogin` | Access tokens carry no ID (`jwt_service.go:65`): login, logout and login in one second yield the token that was just blacklisted. |
| `auth_err` | The shared `err` (`auth_service.go:152`): a refresh whose access token could not be signed succeeds, with an empty access token. |
| `accounts_panic` | `Register` recovers and returns `nil, nil` (`auth_service.go:76`): success without an account. |
| `accounts_vanished` | `UpdateUser` (`user_service.go:160`) answers success for an account deleted meanwhile. |

**Bounds, and why they are enough.** `MaxRequests` bounds arrivals and `MaxNow`
the clock; both occur in guards only. Three requests are a login, and two that
race with its tokens. The clock of `auth_core` is finer than the milliseconds
Redis counts, as the code's is, and reaches past the life of an access token;
that of `auth_faults` reaches the end of a refresh token and of every entry. The
fallback time of a day lies between the lifetimes the configuration suggests (15
minutes and seven days); `auth_faults` has it shorter than a refresh token
lives, the other runs longer.
Users do not interact, so one is enough for what is checked. For accounts, two
requests race, with a third and fourth that set the scene or look at the
outcome; three addresses are one each for the two accounts and a free one. A
pool of 1 is the tightest there can be.

For profiles, two reads race and a third looks at what they left, after one
change and one failure (`MaxFailures`, `MaxWrites`); `MaxWiped` lets the seeder
empty all three tables that decide what a profile shows; the clock passes the end of an entry
that was filled late. The proofs of section 9 need none of these bounds. For
searches, three rows make up to three pages, four requests walk through them
with one to spare; two changes add and drop; the pages and sizes lie at, next to and
far from the limits, and two of them make the offset wrap around to 0. For the
seeder, a third run follows two that overlap, and two writes of the service are
enough to register an account and give it the address of the test user, or to
rename the test user and delete or replace it.

Symmetry (`Interchangeable`) permutes goroutines and seeders, addresses, and the
accounts of a search; runs of liveness properties do not use it. Deadlock
is not checked, because every instance stops when its requests are used up;
that no request is stuck is what `EveryRequestAnswered` says.

Each property of each passing run has a mutant in `PROJECT.json`: an operator
marked "Mutant" in its module, a plausible bug of the code that breaks the
property under the run's own configuration.

**Fairness.** `FairSpec` assumes weak fairness for each goroutine: the Go runtime
schedules it, and Redis and PostgreSQL calls return, with an error if need be
(go-redis has timeouts). In `UserAccounts` it also assumes that `database/sql`
reacts to a cancelled context. Weak fairness is enough for a goroutine waiting
for a connection because arrivals are bounded: the pool is contended only
finitely often. Nothing is assumed of `Tick` or of arrivals. `NoCircularWait` is
the part of this argument that needs no fairness, and it is proved: a request
waits for a connection (`WaitsForConnection`) or for the row of a registration
(`WaitsForRow`), and what is waited for can always go on or be ended.

## 9. Theorems

All are proved for every value of the constants that satisfies the named
assumptions (`AuthAssumption`, `FaultsAssumption`, `MsTicksAssumption`,
`AccountsAssumption`, `ProfileAssumption`, `SearchAssumption`,
`SeederAssumption`), which TLC evaluates in the runs.

* `AuthServiceProofs!TypeCorrect`: `Spec => []TypeOK`.
* `AuthServiceProofs!Invariance`: `Spec => []IInv`. `IInv` joins `TypeOK`,
  `EntriesOutliveTokens`, `RetiredKeysSpent` and a statement about each request
  in progress. `RetiredKeysSpent` is not inductive: that a logout may retire its
  tokens rests on what its goroutines have done (a slot that is done without an
  error has left its key spent), and that a key stays spent rests on the entry
  outliving the token. `NoLateAdmission` needs that a request which arrived with
  a spent key and got past the lookup has an expired or foreign token.
* From it: `RetiredTokensStaySpent`, `SpentTokensRefused`, `EntriesCoverTokens`.
  The arithmetic is in `RedisStoreProofs`: whole milliseconds rounded down, a
  deadline inclusive of its millisecond, and an expiry that is a whole second
  together lose no coverage (`DeadlineCovers`). `SpentForever` is the lemma that
  a spent key stays spent through every step.
* `AuthServiceProofs!BlacklistStaysBounded`. `EntriesExpire` speaks of Redis, but
  an entry gets its deadline from a TTL that was computed earlier, from a token
  signed earlier still. `NothingLasts` bounds all three at once, in every request
  and every client's hands, by the longest lifetime counted from now (`Lasting`);
  time only relaxes the bound. Every handler step is summarised by `Carries`:
  tokens are moved or signed, never made up.
* `AuthServiceProofs!IdsStayUnique`: `Spec => []IdsUnique`. Each ID was drawn by
  one request, is in no other request and in no client's token until it is
  delivered, and Redis lists nothing but what clients have shown.
* `AuthServiceProofs!AnswersGrounded`: `Spec => []AllGrounded`. For each place of
  the handlers and each state of the two goroutines, what the request must have
  made by then unless a signature can fail (`Identified`), and that a refusal or
  a cleared cookie has a spent key behind it (`Justified`).
* From these: `RefusalsHaveReasons` (whatever fails); `ClearedCookiesSpent` (if
  nothing fails: each error of a refresh clears the cookie, also one of Redis);
  `RefreshTokensAreNew` (if refresh tokens can be signed: two refreshes whose
  signatures fail at the wrong instant both succeed with an empty token);
  `RefreshReturnsBoth` (if both can be signed), which delimits what the run
  `auth_err` finds.
* `AuthGateProofs!Refinement`: `Spec => ImplementsTokenGate`, a lemma per kind of
  step: arrivals enter the gate, answers admit or refuse, deliveries leave, and
  all others change nothing but, perhaps, which keys are dead.
* `UserAccountsProofs!TypeCorrect`, `Invariance`, `UniqueEmails`. `EmailsUnique`
  alone is not inductive. `IInv` adds the shape of requests (only a registration
  commits), that requests in service have different numbers (so that `Reserved`
  notices the rows of *other* requests), and that two uncommitted rows never have
  one address. `TableInv` is the heart: a step writes one row whose address is
  free, drops one, or leaves the table alone.

* `DirectoryProofs!AccountsInvariance`: `Spec => []AccountsInv`, which joins the
  `IInv` above with where a request can be and with which error (`Placed`), what
  it has learnt of the table (`Informed`: who creates an account is the only one
  to know it before it is there, who changes one has found it, who is told of a
  conflict has met one), which UUIDs there can be, and which transactions are
  open (`OpenInv`). Each step of a handler comes to one of four outcomes
  (`Outcome`): it goes on, is refused, is done, or leaves; the invariant and the
  refinement are proved from the outcomes, not from the actions.
* From it: `DeletedForGood` (whatever fails), `ConflictsReal` (whatever fails),
  `FailuresLeaveNothing` (if no answer is lost: a commit whose answer is lost
  leaves a row, and the client is told of a failure), `ConnectionsReturned` (if
  nothing panics), and `AccountsRefinement`: `Spec => ImplementsDirectory` (if
  neither happens).
* `DirectoryProofs!SuccessHasEffect` (if nothing panics): `Effective` says what
  each answer of success may be relied on for, also if answers of the database
  are lost. It delimits what two of the runs of section 8 find: a panic is the
  only way to register without an account (`RegistrationsStored`), a deletion
  the only way to update without effect.
* `DirectoryProofs!NobodyWaitsInACircle`, for every pool and whatever fails. The
  connections that are held between two statements are those of registrations
  inside their transactions (`Holders`, `OpenInv`), which take no second one; a
  registration waited for has inserted its row and only commits.
* `ProfileCacheProofs!ProfileInvariance`: `Spec => []PInv`. What a read holds was
  true at every stage (`Stage`); a read that is not dated holds what the tables
  hold (`Fresh`); an entry that is not current ends five minutes after the
  instant its account was last unsettled (`EntryInv`); a dated read keeps its
  account unsettled now (`SettleInv`). From it `TruthOfAnswers`,
  `SettledIsCurrent` and `ProfileTypes`. The lemma `ExpiryBounds` turns a
  deadline in whole milliseconds into the bound in ticks, for every `MsTicks`.

* `UserSearchProofs!SearchInvariance`: `Spec => []SInv`. The place of a row is the
  number of rows that are no older (`Place`). A walk that has read `Reached` rows
  has seen everybody with a place up to there (`UnseenBehind`: rows that are
  added move others back, so nobody slips through) and nobody beyond
  (`SeenWithin`: rows that go move others forward, so nobody comes again). The
  page at an offset is exactly the rows with the places behind it, which is an
  argument about cardinalities. `CountFresh` and `TotalPageExact` carry the
  arithmetic of pages; `WrapExact` and `OffsetExact` say when integers that wrap
  around are exact. From it `SearchTypeCorrect`, `WalksMissNone`,
  `WalksRepeatNone`, `AnnouncedPagesRight` and `NegativePagesRefused`.
* `SeederProofs!SeederInvariance`: `Spec => []SeedInv`. A run to itself finds, in
  each table it has emptied, just the rows it has put there since (`Kept`), but
  for users the service has written. From that, each of its deletions finds
  nothing that refers to what it deletes, and each insertion finds the rows it
  refers to and no row of its name. `Overlapped` connects runs that never
  overlapped with runs that are alone. From it `SeederTypeCorrect` (the schema
  holds whatever overlaps), `RerunsGoThrough` and `RolesAlwaysWhole`.
* `SeederProofs!AccountsOwned`: `Spec => []Owned`, about a service that writes. A
  run to itself that has emptied `users` finds there its own account and
  accounts of the service only (`Newcomers`), and until the service writes its
  own account has the address it was made with (`Addressed`). From it and `SeedInv`,
  `RefusalsHaveCause` and `SuccessIsSeeded`.

Assumptions on `Faults` are hypotheses of single theorems, and the others hold
whatever fails; with the faults that are excluded those properties are false.

Every safety property of the passing runs is proved. Only model-checked are the
liveness properties (`EveryRequestAnswered` of tokens and of accounts,
`TransactionsEnd`): liveness under fairness and ENABLED are out of reach of the
prover. No module uses RECURSIVE operators.

## 10. Not modelled

The login limiter is Fiber's (section 2). The in-memory `TokenBlacklist` is
constructed nowhere. Validation messages, error codes and their HTTP status,
CORS, configuration, logging, monitoring, DTOs, wiring and the welcome route hold
no state that changes while the service runs; where their verdict matters, a
request may be refused. The load scripts are run by hand and are no part of the
service. Roles given on creating or updating a user are accepted by the request
types and used by no code. Of PostgreSQL, only what the statements of this
repository rely on is modelled: unique and foreign keys, one snapshot per
statement, and a second writer waiting for the first.
