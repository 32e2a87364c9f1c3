------------------------- MODULE ProfileCacheProofs -------------------------
(***************************************************************************)
(* Proofs about ProfileCache: every profile answered was true once, and    *)
(* outdated data is gone five minutes after an account has settled, for    *)
(* any number of requests, accounts and failures.                          *)
(***************************************************************************)
EXTENDS ProfileCache, RedisStoreProofs

\* What AnswersWereTrue says of a profile m answered of account u.
WasTrue(u, m) ==
  /\ <<u, m.name>> \in names
  /\ m.roles # {} \/ m.direct # {} => u \in Staff
  /\ m.granted \subseteq m.roles

\* How far a read has come.
Stage(p) ==
  LET r == req[p]
  IN  /\ r.at # "idle" => r.uuid \in Users
      /\ r.at \in {"get", "row"} => r.made = Blank
      /\ r.at \in {"roles", "direct", "granted", "set"} =>
           r.made \in Profiles /\ WasTrue(r.uuid, r.made)
      /\ r.at \in {"roles", "direct"} => r.made.granted = {}
      /\ r.at = "replied" /\ r.err = "nil" => WasTrue(r.uuid, r.made)

\* A read that is not dated has collected what the tables still hold.
Fresh(p) ==
  LET r == req[p]
      current == Current(r.uuid)
  IN  AtWork(p) /\ ~dated[p] =>
        /\ r.at \in {"roles", "direct", "granted", "set"} => r.made.name = current.name
        /\ r.at \in {"direct", "granted", "set"} => r.made.roles = current.roles
        /\ r.at \in {"granted", "set"} => r.made.direct = current.direct
        /\ r.at = "set" => r.made.granted = current.granted

Expiry(t) == DeadlineOf(ProfileTtl, t)

\* An entry that is not current ends in time.
EntryInv(u) ==
  LET key == CacheKey(u)
  IN  key \in DOMAIN redis =>
        /\ WasTrue(u, body[key])
        /\ Alive(redis[key], now) /\ redis[key] <= Expiry(now)
        /\ body[key] = Current(u) \/ redis[key] <= Expiry(unsettled[u])

\* A dated read keeps its account unsettled.
SettleInv ==
  /\ \A u \in Users : unsettled[u] <= now
  /\ \A p \in Procs : dated[p] => AtWork(p) /\ unsettled[req[p].uuid] = now

PInv ==
  /\ TypeOK
  /\ \A p \in Procs : Stage(p) /\ Fresh(p)
  /\ \A u \in Users : EntryInv(u)
  /\ Rows \subseteq names
  /\ SettleInv

-----------------------------------------------------------------------------
(* Time *)

LEMMA ExpiryType ==
  ASSUME NEW t \in Nat
  PROVE  Expiry(t) \in Nat /\ Expiry(t) = MillisOf(t) + MillisOf(ProfileTtl)
         /\ MillisOf(t) \in Nat /\ MillisOf(ProfileTtl) \in Nat
<1>1. MsTicks \in Nat \ {0} /\ ProfileTtl \in Nat \ {0} /\ ProfileTtl % MsTicks = 0
  BY MsTicksAssumption, ProfileAssumption
<1>2. MillisOf(t) \in Nat /\ MillisOf(ProfileTtl) \in Nat
  BY <1>1, MillisOfType
<1>3. ProfileTtl >= MsTicks
  BY <1>1
<1>4. Expiry(t) = MillisOf(t) + MillisOf(ProfileTtl)
  BY <1>1, <1>2, <1>3 DEF Expiry, DeadlineOf, WireTtl
<1>5. QED
  BY <1>2, <1>4

LEMMA ExpiryMonotone ==
  ASSUME NEW s \in Nat, NEW t \in Nat, s <= t
  PROVE  Expiry(s) <= Expiry(t)
<1>1. MsTicks \in Nat \ {0}
  BY MsTicksAssumption
<1>2. PICK a \in Nat : a = MillisOf(s) /\ MsTicks * a <= s
  BY <1>1, Division DEF MillisOf
<1>3. PICK b \in Nat : b = MillisOf(t) /\ t < MsTicks * b + MsTicks
  BY <1>1, Division DEF MillisOf
<1>4. MsTicks * a < MsTicks * (b + 1)
  BY <1>1, <1>2, <1>3
<1>5. a < b + 1
  BY <1>1, <1>4
<1>6. QED
  BY <1>2, <1>3, <1>5, ExpiryType

\* Who finds an entry that was good until an instant asks soon after it.
LEMMA ExpiryBounds ==
  ASSUME NEW t \in Nat, NEW s \in Nat, NEW d \in Nat,
         Alive(d, t), d <= Expiry(s)
  PROVE  t < s + ProfileTtl + MsTicks
<1>1. MsTicks \in Nat \ {0} /\ ProfileTtl \in Nat
  BY MsTicksAssumption, ProfileAssumption
<1>2. PICK a \in Nat : a = MillisOf(s) /\ MsTicks * a <= s
  BY <1>1, Division DEF MillisOf
<1>3. PICK b \in Nat : b = MillisOf(t) /\ t < MsTicks * b + MsTicks
  BY <1>1, Division DEF MillisOf
<1>4. PICK c \in Nat : c = MillisOf(ProfileTtl) /\ MsTicks * c <= ProfileTtl
  BY <1>1, Division DEF MillisOf
<1>5. b <= a + c
  BY <1>2, <1>3, <1>4, ExpiryType DEF Alive, NoExpiry
<1>6. MsTicks * b <= MsTicks * a + MsTicks * c
  BY <1>1, <1>5
<1>7. QED
  BY <1>1, <1>2, <1>3, <1>4, <1>6

-----------------------------------------------------------------------------
(* Records *)

LEMMA KeysApart ==
  ASSUME NEW u, NEW v, CacheKey(u) = CacheKey(v)
  PROVE  u = v
BY DEF CacheKey

LEMMA CurrentType ==
  ASSUME TypeOK, NEW u \in Users
  PROVE  /\ Current(u) \in Profiles \cup {Blank}
         /\ Current(u).name \in Names <=> u \in DOMAIN users
         /\ u \in DOMAIN users => /\ Current(u).name = users[u]
                                  /\ Current(u).roles = RolesOf(u)
                                  /\ Current(u).granted = RolesOf(u)
                                  /\ Current(u).direct = DirectOf(u)
         /\ RolesOf(u) \subseteq Roles /\ DirectOf(u) \subseteq Own
         /\ RolesOf(u) # {} \/ DirectOf(u) # {} => u \in Staff
<1>1. RolesOf(u) \subseteq Roles /\ DirectOf(u) \subseteq Own
      /\ (RolesOf(u) # {} \/ DirectOf(u) # {} => u \in Staff)
  BY DEF RolesOf, DirectOf
<1>2. -1 \notin Names
  BY ProfileAssumption DEF Names
<1>3. QED
  BY <1>1, <1>2 DEF Current, Profiles, Blank, TypeOK

LEMMA MoveFields ==
  ASSUME NEW r \in Requests, NEW x \in Places
  PROVE  LET n == [r EXCEPT !.at = x]
         IN  n \in Requests /\ n.at = x /\ n.uuid = r.uuid /\ n.made = r.made
BY DEF Requests

LEMMA AnswerFields ==
  ASSUME NEW r \in Requests, NEW m \in Profiles \cup {Blank}, NEW e \in Errors
  PROVE  LET n == Answer(r, m, e)
         IN  n \in Requests /\ n.at = "replied" /\ n.uuid = r.uuid /\ n.made = m /\ n.err = e
<1>1. "replied" \in Places
  BY DEF Places
<1>2. QED
  BY <1>1 DEF Requests, Answer

\* A request as a record whose profile is one of a set E.
LEMMA NestedFields ==
  ASSUME NEW A, NEW B, NEW E, NEW D, NEW r \in [at : A, uuid : B, made : E, err : D],
         NEW x \in A, NEW v
  PROVE  /\ LET n == [r EXCEPT !.at = x, !.made.name = v]
                m == [r.made EXCEPT !.name = v]
            IN  /\ n.at = x /\ n.uuid = r.uuid /\ n.made = m
                /\ m \in E => n \in [at : A, uuid : B, made : E, err : D]
         /\ LET n == [r EXCEPT !.at = x, !.made.roles = v]
                m == [r.made EXCEPT !.roles = v]
            IN  /\ n.at = x /\ n.uuid = r.uuid /\ n.made = m
                /\ m \in E => n \in [at : A, uuid : B, made : E, err : D]
         /\ LET n == [r EXCEPT !.at = x, !.made.direct = v]
                m == [r.made EXCEPT !.direct = v]
            IN  /\ n.at = x /\ n.uuid = r.uuid /\ n.made = m
                /\ m \in E => n \in [at : A, uuid : B, made : E, err : D]
         /\ LET n == [r EXCEPT !.at = x, !.made.granted = v]
                m == [r.made EXCEPT !.granted = v]
            IN  /\ n.at = x /\ n.uuid = r.uuid /\ n.made = m
                /\ m \in E => n \in [at : A, uuid : B, made : E, err : D]
OBVIOUS

LEMMA BlankNamed ==
  ASSUME NEW v \in Names
  PROVE  LET m == [Blank EXCEPT !.name = v]
         IN  /\ m \in Profiles
             /\ m.name = v /\ m.roles = {} /\ m.direct = {} /\ m.granted = {}
BY DEF Blank, Profiles

LEMMA ProfileFields ==
  ASSUME NEW m \in Profiles
  PROVE  /\ \A v \in SUBSET Roles :
              LET n == [m EXCEPT !.roles = v]
              IN  /\ n \in Profiles
                  /\ n.name = m.name /\ n.roles = v /\ n.direct = m.direct
                  /\ n.granted = m.granted
         /\ \A v \in SUBSET Own :
              LET n == [m EXCEPT !.direct = v]
              IN  /\ n \in Profiles
                  /\ n.name = m.name /\ n.roles = m.roles /\ n.direct = v
                  /\ n.granted = m.granted
         /\ \A v \in SUBSET Roles :
              LET n == [m EXCEPT !.granted = v]
              IN  /\ n \in Profiles
                  /\ n.name = m.name /\ n.roles = m.roles /\ n.direct = m.direct
                  /\ n.granted = v
BY DEF Profiles

LEMMA SameProfile ==
  ASSUME NEW m \in Profiles, NEW n \in Profiles, m.name = n.name, m.roles = n.roles,
         m.direct = n.direct, m.granted = n.granted
  PROVE  m = n
BY DEF Profiles

-----------------------------------------------------------------------------
(* What an observer notes of a step *)

\* The step is one of process p alone, or of the environment if p is none.
Others(p) == \A q \in Procs \ {p} : req'[q] = req[q]

\* What is the same while the tables are.
LEMMA SameTables ==
  ASSUME UNCHANGED Tables, NEW u
  PROVE  /\ Current(u)' = Current(u)
         /\ RolesOf(u)' = RolesOf(u) /\ DirectOf(u)' = DirectOf(u)
         /\ Rows' = Rows
BY DEF Tables, Current, RolesOf, DirectOf, Rows

LEMMA NamesGrow ==
  ASSUME Observe
  PROVE  /\ names \subseteq names' /\ Rows' \subseteq names'
         /\ \A u, m : WasTrue(u, m) => WasTrue(u, m)'
BY DEF Observe, WasTrue

\* An account that has changed, or of which a dated read is at work, is
\* unsettled as of the step.
LEMMA Unsettling ==
  ASSUME Observe, SettleInv, TypeOK, now' \in Nat, now <= now', NEW u \in Users
  PROVE  /\ unsettled'[u] \in Nat /\ unsettled[u] \in Nat
         /\ unsettled[u] <= unsettled'[u] /\ unsettled'[u] <= now'
         /\ Current(u)' # Current(u) => unsettled'[u] = now'
         /\ \A p \in Procs : req[p].uuid = u /\ BecomesDated(p) => unsettled'[u] = now'
<1>1. unsettled[u] \in Nat /\ unsettled[u] <= now /\ now \in Nat
  BY DEF SettleInv, TypeOK
<1>2. \/ unsettled'[u] = now'
      \/ /\ unsettled'[u] = unsettled[u]
         /\ ~(Current(u)' # Current(u))
         /\ \A p \in Procs : ~(req[p].uuid = u /\ BecomesDated(p))
  BY DEF Observe
<1>3. QED
  BY <1>1, <1>2

LEMMA ObservedTypes ==
  ASSUME Observe, SettleInv, TypeOK, now' \in Nat, now <= now',
         DOMAIN users' \subseteq Users, \A u \in DOMAIN users' : users'[u] \in Names
  PROVE  /\ names' \subseteq Users \X Names
         /\ dated' \in [Procs -> BOOLEAN]
         /\ unsettled' \in [Users -> Nat]
<1>1. names' \subseteq Users \X Names
  BY DEF Observe, TypeOK, Rows
<1>2. dated' \in [Procs -> BOOLEAN]
  BY DEF Observe
<1>3. unsettled' \in [Users -> Nat]
  BY DEF Observe, TypeOK
<1>4. QED
  BY <1>1, <1>2, <1>3

\* A process whose request is as it was, and at work on nothing dated, sees
\* the account as it was.
LEMMA StaysFresh ==
  ASSUME Observe, NEW p \in Procs, req'[p] = req[p], Stage(p), Fresh(p)
  PROVE  Stage(p)' /\ Fresh(p)'
<1>1. Stage(p)'
  BY NamesGrow DEF Stage
<1>2. ASSUME AtWork(p)', ~dated'[p]
      PROVE  AtWork(p) /\ ~dated[p] /\ Current(req[p].uuid)' = Current(req[p].uuid)
  BY <1>2 DEF Observe, BecomesDated, AtWork
<1>3. Fresh(p)'
  BY <1>2 DEF Fresh
<1>4. QED
  BY <1>1, <1>3

\* A read at work that is not dated after a step of its own: the account is as
\* it was, and what the step collected is what the tables hold.
LEMMA StaysCurrent ==
  ASSUME Observe, NEW p \in Procs, AtWork(p), AtWork(p)', ~dated'[p]
  PROVE  LET u == req[p].uuid
             n == req'[p]
         IN  /\ ~dated[p] /\ Current(u)' = Current(u)
             /\ req[p].at = "roles" /\ n.at = "direct" => n.made.roles = RolesOf(u)
             /\ req[p].at = "direct" /\ n.at = "granted" => n.made.direct = DirectOf(u)
             /\ req[p].at = "granted" /\ n.at = "set" => n.made.granted = RolesOf(u)
<1>1. ~BecomesDated(p)
  BY DEF Observe
<1>2. QED
  BY <1>1 DEF BecomesDated

-----------------------------------------------------------------------------
(* Steps of a process *)

\* What SettledAnswersCurrent says of a step of process p.
Settled(p) ==
  LET r == req'[p]
  IN  AtWork(p) /\ r.at = "replied" /\ r.err = "nil"
        => \/ r.made = Current(r.uuid)
           \/ now < unsettled[r.uuid] + ProfileTtl + MsTicks

\* What every step of a process does to its own request.
Stepped(p) ==
  /\ req' \in [Procs -> Requests]
  /\ Others(p)
  /\ Stage(p)' /\ Fresh(p)'
  /\ AtWork(p) /\ AtWork(p)' => req'[p].uuid = req[p].uuid
  /\ Settled(p)

LEMMA Becoming ==
  ASSUME req \in [Procs -> Requests], NEW p \in Procs, NEW n \in Requests, Become(p, n)
  PROVE  req' \in [Procs -> Requests] /\ req'[p] = n /\ Others(p)
BY DEF Become, Others

\* An answer of a profile that was true.
LEMMA Answering ==
  ASSUME PInv, Observe, NEW p \in Procs, NEW m \in Profiles \cup {Blank}, NEW e \in Errors,
         AtWork(p), Become(p, Answer(req[p], m, e)),
         e = "nil" => /\ WasTrue(req[p].uuid, m)
                      /\ \/ m = Current(req[p].uuid)
                         \/ now < unsettled[req[p].uuid] + ProfileTtl + MsTicks
  PROVE  Stepped(p)
<1> DEFINE r == req[p]
           n == Answer(r, m, e)
<1>1. r \in Requests /\ req \in [Procs -> Requests]
  BY DEF PInv, TypeOK
<1>2. n \in Requests /\ n.at = "replied" /\ n.uuid = r.uuid /\ n.made = m /\ n.err = e
  BY <1>1, AnswerFields
<1> HIDE DEF n
<1>3. req' \in [Procs -> Requests] /\ req'[p] = n /\ Others(p)
  BY <1>1, <1>2, Becoming DEF n
<1>4. r.uuid \in Users
  BY DEF PInv, Stage, AtWork
<1>5. Stage(p)'
  BY <1>2, <1>3, <1>4, NamesGrow DEF Stage
<1>6. ~AtWork(p)'
  BY <1>2, <1>3 DEF AtWork
<1>7. Settled(p)
  BY <1>2, <1>3 DEF Settled
<1>8. QED
  BY <1>3, <1>5, <1>6, <1>7 DEF Stepped, Fresh

LEMMA StartMeStep ==
  ASSUME PInv, Observe, NEW p \in Procs, NEW u \in Users, StartMe(p, u)
  PROVE  Stepped(p)
<1> DEFINE n == [Idle EXCEPT !.at = "get", !.uuid = u]
<1>1. /\ n \in Requests
      /\ n.at = "get" /\ n.uuid = u /\ n.made = Blank
  BY DEF Idle, Requests, Places, Errors
<1> HIDE DEF n
<1>2. req' \in [Procs -> Requests] /\ req'[p] = n /\ Others(p)
  BY <1>1, Becoming DEF StartMe, PInv, TypeOK, n
<1>3. Stage(p)'
  BY <1>1, <1>2 DEF Stage
<1>4. Fresh(p)'
  BY <1>1, <1>2 DEF Fresh
<1>5. ~AtWork(p) /\ req'[p].at # "replied"
  BY <1>1, <1>2 DEF StartMe, AtWork
<1>6. QED
  BY <1>2, <1>3, <1>4, <1>5 DEF Stepped, Settled

LEMMA DeliverStep ==
  ASSUME PInv, Observe, NEW p \in Procs, Deliver(p)
  PROVE  Stepped(p)
<1>1. Idle \in Requests /\ Idle.at = "idle"
  BY DEF Idle, Requests, Places, Errors
<1>2. req' \in [Procs -> Requests] /\ req'[p] = Idle /\ Others(p)
  BY <1>1, Becoming DEF Deliver, PInv, TypeOK
<1>3. Stage(p)' /\ Fresh(p)'
  BY <1>1, <1>2 DEF Stage, Fresh, AtWork
<1>4. ~AtWork(p) /\ req'[p].at # "replied"
  BY <1>1, <1>2 DEF Deliver, AtWork
<1>5. QED
  BY <1>2, <1>3, <1>4 DEF Stepped, Settled

\* A step to the next query.
LEMMA Going ==
  ASSUME PInv, Observe, NEW p \in Procs, NEW n \in Requests,
         AtWork(p), Become(p, n), n.uuid = req[p].uuid, n.at \notin {"idle", "replied"},
         Stage(p)', ~dated'[p] => Fresh(p)'
  PROVE  Stepped(p)
<1>1. req' \in [Procs -> Requests] /\ req'[p] = n /\ Others(p)
  BY Becoming DEF PInv, TypeOK
<1>2. QED
  BY <1>1 DEF Stepped, Settled, Fresh

LEMMA GetCachedStep ==
  ASSUME PInv, Observe, NEW p \in Procs, GetCached(p)
  PROVE  Stepped(p)
<1> DEFINE r == req[p]
           key == CacheKey(r.uuid)
<1>1. r \in Requests /\ r.at = "get" /\ AtWork(p) /\ r.uuid \in Users
  BY DEF GetCached, PInv, TypeOK, AtWork, Stage
<1>2. CASE key \in DOMAIN redis /\ Become(p, Answer(r, body[key], "nil"))
  <2>1. body[key] \in Profiles /\ "nil" \in Errors /\ now \in Nat
        /\ unsettled[r.uuid] \in Nat /\ redis[key] \in Nat
    BY <1>1, <1>2 DEF PInv, TypeOK, Errors
  <2>2. /\ WasTrue(r.uuid, body[key]) /\ Alive(redis[key], now)
        /\ body[key] = Current(r.uuid) \/ redis[key] <= Expiry(unsettled[r.uuid])
    BY <1>1, <1>2 DEF PInv, EntryInv
  <2>3. \/ body[key] = Current(r.uuid)
        \/ now < unsettled[r.uuid] + ProfileTtl + MsTicks
    BY <2>1, <2>2, ExpiryBounds
  <2>4. QED
    BY <1>1, <1>2, <2>1, <2>2, <2>3, Answering
<1>3. CASE Become(p, [r EXCEPT !.at = "row"])
  <2> DEFINE n == [r EXCEPT !.at = "row"]
  <2>1. n \in Requests /\ n.at = "row" /\ n.uuid = r.uuid /\ n.made = r.made
    BY <1>1, MoveFields DEF Places
  <2> HIDE DEF n
  <2>2. req'[p] = n
    BY <1>3, <2>1, Becoming DEF PInv, TypeOK, n
  <2>3. r.made = Blank
    BY <1>1 DEF PInv, Stage
  <2>4. Stage(p)' /\ Fresh(p)'
    BY <1>1, <2>1, <2>2, <2>3 DEF Stage, Fresh
  <2>5. QED
    BY <1>1, <1>3, <2>1, <2>4, Going DEF n
<1>4. QED
  BY <1>2, <1>3 DEF GetCached

\* The end of a read that failed.
LEMMA Failing ==
  ASSUME PInv, Observe, NEW p \in Procs, AtWork(p), NEW e \in Errors \ {"nil"},
         Become(p, Answer(req[p], Blank, e))
  PROVE  Stepped(p)
BY Answering

LEMMA FindRowStep ==
  ASSUME PInv, Observe, NEW p \in Procs, FindRow(p)
  PROVE  Stepped(p)
<1> DEFINE r == req[p]
           u == r.uuid
<1>1. r \in Requests /\ r.at = "row" /\ AtWork(p) /\ u \in Users /\ r.made = Blank
  BY DEF FindRow, PInv, TypeOK, AtWork, Stage
<1>2. CASE u \in DOMAIN users
           /\ Become(p, [r EXCEPT !.at = "roles", !.made.name = users[u]])
  <2> DEFINE m == [r.made EXCEPT !.name = users[u]]
             n == [r EXCEPT !.at = "roles", !.made.name = users[u]]
  <2>1. users[u] \in Names /\ "roles" \in Places
    BY <1>2 DEF PInv, TypeOK, Places
  <2>2. /\ m \in Profiles
        /\ m.name = users[u] /\ m.roles = {} /\ m.direct = {} /\ m.granted = {}
    BY <1>1, <2>1, BlankNamed
  <2>3. n \in Requests /\ n.at = "roles" /\ n.uuid = u /\ n.made = m
    BY <1>1, <2>1, <2>2, NestedFields DEF Requests
  <2> HIDE DEF m, n
  <2>4. req'[p] = n
    BY <1>2, <2>3, Becoming DEF PInv, TypeOK, n
  <2>5. /\ <<u, m.name>> \in names'
        /\ m.roles # {} \/ m.direct # {} => u \in Staff
        /\ m.granted \subseteq m.roles
    <3>1. <<u, users[u]>> \in names
      BY <1>2 DEF PInv, Rows
    <3>2. WasTrue(u, m)
      BY <2>2, <3>1 DEF WasTrue
    <3>3. QED
      BY <3>2, NamesGrow DEF WasTrue
  <2>6. Stage(p)'
    BY <1>1, <2>2, <2>3, <2>4, <2>5 DEF Stage, WasTrue
  <2>7. ASSUME ~dated'[p]
        PROVE  Fresh(p)'
    <3>1. AtWork(p)'
      BY <2>3, <2>4 DEF AtWork
    <3>2. Current(u)' = Current(u)
      BY <1>1, <2>7, <3>1, StaysCurrent
    <3>3. Current(u).name = users[u]
      BY <1>1, <1>2, CurrentType DEF PInv
    <3>4. QED
      BY <2>2, <2>3, <2>4, <3>2, <3>3 DEF Fresh
  <2>8. QED
    BY <1>1, <1>2, <2>3, <2>6, <2>7, Going DEF n
<1>3. CASE Become(p, Answer(r, Blank, "ErrUserNotFound"))
  BY <1>1, <1>3, Failing DEF Errors
<1>4. QED
  BY <1>2, <1>3 DEF FindRow

\* A profile that a fresh read is at is one of an account that is there.
LEMMA FreshIsThere ==
  ASSUME PInv, NEW p \in Procs, req[p].at \in {"roles", "direct", "granted", "set"}, ~dated[p]
  PROVE  LET u == req[p].uuid
         IN  /\ u \in DOMAIN users
             /\ Current(u).roles = RolesOf(u) /\ Current(u).granted = RolesOf(u)
             /\ Current(u).direct = DirectOf(u)
<1> DEFINE u == req[p].uuid
<1>1. u \in Users /\ req[p].made \in Profiles /\ AtWork(p)
  BY DEF PInv, Stage, AtWork
<1>2. req[p].made.name \in Names
  BY <1>1 DEF Profiles
<1>3. req[p].made.name = Current(u).name
  BY <1>1 DEF PInv, Fresh
<1>4. QED
  BY <1>1, <1>2, <1>3, CurrentType DEF PInv

LEMMA CollectsSome ==
  ASSUME NEW rows, NEW got, Collects(rows, got)
  PROVE  got \subseteq rows
BY DEF Collects

LEMMA FindLinksStep ==
  ASSUME PInv, Observe, NEW p \in Procs, FindLinks(p)
  PROVE  Stepped(p)
<1> DEFINE r == req[p]
           u == r.uuid
<1>1. /\ r \in Requests /\ r.at \in {"roles", "direct", "granted"} /\ AtWork(p)
      /\ u \in Users /\ r.made \in Profiles /\ WasTrue(u, r.made)
  BY DEF FindLinks, PInv, TypeOK, AtWork, Stage
<1>2. /\ RolesOf(u) \subseteq Roles /\ DirectOf(u) \subseteq Own
      /\ RolesOf(u) # {} \/ DirectOf(u) # {} => u \in Staff
  BY <1>1, CurrentType DEF PInv
<1>3. /\ r.made.name = Current(u).name \/ dated[p]
      /\ r.at \in {"direct", "granted"} => r.made.roles = Current(u).roles \/ dated[p]
      /\ r.at = "granted" => r.made.direct = Current(u).direct \/ dated[p]
  BY <1>1 DEF PInv, Fresh
<1>4. ASSUME NEW n \in Requests, req'[p] = n, n.uuid = u, AtWork(p)', ~dated'[p]
      PROVE  /\ Current(u)' = Current(u) /\ ~dated[p]
             /\ Current(u).roles = RolesOf(u) /\ Current(u).granted = RolesOf(u)
             /\ Current(u).direct = DirectOf(u)
  BY <1>1, <1>4, StaysCurrent, FreshIsThere
<1>5. ASSUME NEW got \in SUBSET Roles, r.at = "roles", Collects(RolesOf(u), got),
             Become(p, [r EXCEPT !.at = "direct", !.made.roles = got])
      PROVE  Stepped(p)
  <2> DEFINE m == [r.made EXCEPT !.roles = got]
             n == [r EXCEPT !.at = "direct", !.made.roles = got]
  <2>1. /\ m \in Profiles
        /\ m.name = r.made.name /\ m.roles = got /\ m.direct = r.made.direct
        /\ m.granted = r.made.granted
    BY <1>1, ProfileFields
  <2>2. n \in Requests /\ n.at = "direct" /\ n.uuid = u /\ n.made = m
    BY <1>1, <2>1, NestedFields DEF Requests, Places
  <2> HIDE DEF m, n
  <2>3. req'[p] = n
    BY <1>5, <2>2, Becoming DEF PInv, TypeOK, n
  <2>4. r.made.granted = {}
    BY <1>5 DEF PInv, Stage
  <2>5. /\ <<u, m.name>> \in names'
        /\ m.roles # {} \/ m.direct # {} => u \in Staff
        /\ m.granted \subseteq m.roles
    <3>1. got # {} => u \in Staff
      BY <1>2, <1>5, CollectsSome
    <3>2. WasTrue(u, m)
      BY <1>1, <2>1, <2>4, <3>1 DEF WasTrue
    <3>3. QED
      BY <3>2, NamesGrow DEF WasTrue
  <2>6. Stage(p)'
    BY <1>1, <2>1, <2>2, <2>3, <2>4, <2>5 DEF Stage, WasTrue
  <2>7. ASSUME ~dated'[p]
        PROVE  Fresh(p)'
    <3>1. AtWork(p)'
      BY <2>2, <2>3 DEF AtWork
    <3>2. got = RolesOf(u)
      BY <1>1, <1>5, <2>1, <2>2, <2>3, <2>7, <3>1, StaysCurrent
    <3>3. QED
      BY <1>3, <1>4, <2>1, <2>2, <2>3, <2>7, <3>1, <3>2 DEF Fresh
  <2>8. QED
    BY <1>1, <1>5, <2>2, <2>6, <2>7, Going DEF n
<1>6. ASSUME NEW got \in SUBSET Own, r.at = "direct", Collects(DirectOf(u), got),
             Become(p, [r EXCEPT !.at = "granted", !.made.direct = got])
      PROVE  Stepped(p)
  <2> DEFINE m == [r.made EXCEPT !.direct = got]
             n == [r EXCEPT !.at = "granted", !.made.direct = got]
  <2>1. /\ m \in Profiles
        /\ m.name = r.made.name /\ m.roles = r.made.roles /\ m.direct = got
        /\ m.granted = r.made.granted
    BY <1>1, ProfileFields
  <2>2. n \in Requests /\ n.at = "granted" /\ n.uuid = u /\ n.made = m
    BY <1>1, <2>1, NestedFields DEF Requests, Places
  <2> HIDE DEF m, n
  <2>3. req'[p] = n
    BY <1>6, <2>2, Becoming DEF PInv, TypeOK, n
  <2>4. /\ <<u, m.name>> \in names'
        /\ m.roles # {} \/ m.direct # {} => u \in Staff
        /\ m.granted \subseteq m.roles
    <3>1. got # {} => u \in Staff
      BY <1>2, <1>6, CollectsSome
    <3>2. WasTrue(u, m)
      BY <1>1, <2>1, <3>1 DEF WasTrue
    <3>3. QED
      BY <3>2, NamesGrow DEF WasTrue
  <2>5. Stage(p)'
    BY <1>1, <2>1, <2>2, <2>3, <2>4 DEF Stage, WasTrue
  <2>6. ASSUME ~dated'[p]
        PROVE  Fresh(p)'
    <3>1. AtWork(p)'
      BY <2>2, <2>3 DEF AtWork
    <3>2. got = DirectOf(u)
      BY <1>1, <1>6, <2>1, <2>2, <2>3, <2>6, <3>1, StaysCurrent
    <3>3. QED
      BY <1>3, <1>4, <1>6, <2>1, <2>2, <2>3, <2>6, <3>1, <3>2 DEF Fresh
  <2>7. QED
    BY <1>1, <1>6, <2>2, <2>5, <2>6, Going DEF n
<1>7. ASSUME NEW got \in SUBSET Roles, r.at = "granted",
             Become(p, [r EXCEPT !.at = "set", !.made.granted = got \cap r.made.roles])
      PROVE  Stepped(p)
  <2> DEFINE kept == got \cap r.made.roles
             m == [r.made EXCEPT !.granted = kept]
             n == [r EXCEPT !.at = "set", !.made.granted = kept]
  <2>0. kept \in SUBSET Roles
    OBVIOUS
  <2>1. /\ m \in Profiles
        /\ m.name = r.made.name /\ m.roles = r.made.roles /\ m.direct = r.made.direct
        /\ m.granted = kept
    BY <1>1, <2>0, ProfileFields
  <2>2. n \in Requests /\ n.at = "set" /\ n.uuid = u /\ n.made = m
    BY <1>1, <2>1, NestedFields DEF Requests, Places
  <2> HIDE DEF m, n
  <2>3. req'[p] = n
    BY <1>7, <2>2, Becoming DEF PInv, TypeOK, n
  <2>4. /\ <<u, m.name>> \in names'
        /\ m.roles # {} \/ m.direct # {} => u \in Staff
        /\ m.granted \subseteq m.roles
    <3>1. WasTrue(u, m)
      BY <1>1, <2>1 DEF WasTrue
    <3>2. QED
      BY <3>1, NamesGrow DEF WasTrue
  <2>5. Stage(p)'
    BY <1>1, <2>1, <2>2, <2>3, <2>4 DEF Stage, WasTrue
  <2>6. ASSUME ~dated'[p]
        PROVE  Fresh(p)'
    <3>1. AtWork(p)'
      BY <2>2, <2>3 DEF AtWork
    <3>2. m.granted = RolesOf(u)
      BY <1>1, <1>7, <2>2, <2>3, <2>6, <3>1, StaysCurrent
    <3>3. QED
      BY <1>3, <1>4, <1>7, <2>1, <2>2, <2>3, <2>6, <3>1, <3>2 DEF Fresh
  <2>7. QED
    BY <1>1, <1>7, <2>2, <2>5, <2>6, Going DEF n
<1>8. CASE Become(p, Answer(r, Blank, "ErrUserNotFound"))
  BY <1>1, <1>8, Failing DEF Errors
<1>9. QED
  BY <1>5, <1>6, <1>7, <1>8 DEF FindLinks

\* A fresh read stores what the tables hold.
LEMMA FreshIsCurrent ==
  ASSUME PInv, NEW p \in Procs, req[p].at = "set", ~dated[p]
  PROVE  req[p].made = Current(req[p].uuid)
<1> DEFINE r == req[p]
           u == r.uuid
<1>1. u \in Users /\ r.made \in Profiles /\ AtWork(p) /\ u \in DOMAIN users
  BY FreshIsThere DEF PInv, Stage, AtWork
<1>2. /\ r.made.name = Current(u).name /\ r.made.roles = Current(u).roles
      /\ r.made.direct = Current(u).direct /\ r.made.granted = Current(u).granted
  BY <1>1 DEF PInv, Fresh
<1>3. Current(u) \in Profiles
  BY <1>1, CurrentType DEF PInv, TypeOK, Current, Profiles
<1>4. QED
  BY <1>1, <1>2, <1>3, SameProfile

LEMMA SetCachedStep ==
  ASSUME PInv, Observe, NEW p \in Procs, SetCached(p)
  PROVE  Stepped(p)
<1> DEFINE r == req[p]
           u == r.uuid
<1>1. r \in Requests /\ r.at = "set" /\ AtWork(p) /\ u \in Users
      /\ r.made \in Profiles /\ WasTrue(u, r.made)
  BY DEF SetCached, PInv, TypeOK, AtWork, Stage
<1>2. CASE Become(p, Answer(r, r.made, "nil"))
  <2>1. CASE dated[p]
    <3>1. unsettled[u] = now /\ now \in Nat
      BY <1>1, <2>1 DEF PInv, SettleInv, TypeOK
    <3>2. now < unsettled[u] + ProfileTtl + MsTicks
      BY <3>1, MsTicksAssumption, ProfileAssumption
    <3>3. QED
      BY <1>1, <1>2, <3>2, Answering DEF Errors
  <2>2. CASE ~dated[p]
    <3>1. r.made = Current(u)
      BY <1>1, <2>2, FreshIsCurrent
    <3>2. QED
      BY <1>1, <1>2, <3>1, Answering DEF Errors
  <2>3. QED
    BY <2>1, <2>2
<1>3. CASE Become(p, Answer(r, Blank, "redis"))
  BY <1>1, <1>3, Failing DEF Errors
<1>4. QED
  BY <1>2, <1>3 DEF SetCached

LEMMA ProcessStep ==
  ASSUME PInv, Observe, NEW p \in Procs, Serve(p) \/ \E u \in Users : StartMe(p, u)
  PROVE  Stepped(p)
BY GetCachedStep, FindRowStep, FindLinksStep, SetCachedStep, DeliverStep, StartMeStep DEF Serve

-----------------------------------------------------------------------------
(* Entries of the cache *)

\* An entry that stays is as good as it was.
LEMMA KeepsEntry ==
  ASSUME PInv, Observe, NEW u \in Users, now' \in Nat, now <= now',
         LET key == CacheKey(u)
         IN  key \in DOMAIN redis' =>
               /\ key \in DOMAIN redis
               /\ redis'[key] = redis[key] /\ body'[key] = body[key]
               /\ Alive(redis[key], now')
  PROVE  EntryInv(u)'
<1> DEFINE key == CacheKey(u)
<1> SUFFICES ASSUME key \in DOMAIN redis'
             PROVE  EntryInv(u)'
  BY DEF EntryInv
<1>1. /\ key \in DOMAIN redis /\ redis'[key] = redis[key] /\ body'[key] = body[key]
      /\ Alive(redis[key], now') /\ redis[key] \in Nat /\ now \in Nat
  BY DEF PInv, TypeOK
<1>2. /\ WasTrue(u, body[key]) /\ redis[key] <= Expiry(now)
      /\ body[key] = Current(u) \/ redis[key] <= Expiry(unsettled[u])
  BY <1>1 DEF PInv, EntryInv
<1>3. /\ <<u, body[key].name>> \in names'
      /\ body[key].roles # {} \/ body[key].direct # {} => u \in Staff
      /\ body[key].granted \subseteq body[key].roles
  BY <1>2, NamesGrow DEF WasTrue
<1>4. /\ unsettled'[u] \in Nat /\ unsettled[u] \in Nat /\ unsettled[u] <= unsettled'[u]
      /\ Current(u)' # Current(u) => unsettled'[u] = now'
  BY Unsettling DEF PInv
<1>5. Expiry(now) <= Expiry(now') /\ Expiry(unsettled[u]) <= Expiry(unsettled'[u])
      /\ Expiry(now) \in Int /\ Expiry(now') \in Int
      /\ Expiry(unsettled[u]) \in Int /\ Expiry(unsettled'[u]) \in Int
  BY <1>1, <1>4, ExpiryMonotone, ExpiryType
<1>6. redis[key] <= Expiry(now')
  BY <1>1, <1>2, <1>5
<1>7. body[key] = Current(u)' \/ redis[key] <= Expiry(unsettled'[u])
  <2>1. CASE Current(u)' # Current(u)
    BY <1>4, <1>6, <2>1
  <2>2. CASE Current(u)' = Current(u)
    BY <1>1, <1>2, <1>5, <2>2
  <2>3. QED
    BY <2>1, <2>2
<1>8. Expiry(unsettled[u])' = Expiry(unsettled'[u]) /\ Expiry(now)' = Expiry(now')
  BY DEF Expiry, DeadlineOf
<1>9. QED
  BY <1>1, <1>3, <1>6, <1>7, <1>8 DEF EntryInv, WasTrue

\* A deadline of the cache that has just been set.
LEMMA NewlyAlive ==
  ASSUME NEW t \in Nat
  PROVE  Alive(Expiry(t), t)
BY ExpiryType DEF Alive

LEMMA SetCachedEntry ==
  ASSUME PInv, Observe, NEW p \in Procs, SetCached(p), NEW u \in Users
  PROVE  EntryInv(u)'
<1> DEFINE r == req[p]
           key == CacheKey(r.uuid)
<1>1. r \in Requests /\ r.at = "set" /\ AtWork(p) /\ r.uuid \in Users
      /\ r.made \in Profiles /\ WasTrue(r.uuid, r.made)
  BY DEF SetCached, PInv, TypeOK, AtWork, Stage
<1>2. now' = now /\ now \in Nat /\ UNCHANGED Tables
  BY DEF SetCached, PInv, TypeOK
<1>3. CASE UNCHANGED Cache
  <2>1. redis' = redis /\ body' = body
    BY <1>3 DEF Cache
  <2>2. CacheKey(u) \in DOMAIN redis => Alive(redis[CacheKey(u)], now)
    BY DEF PInv, EntryInv
  <2>3. QED
    BY <1>2, <2>1, <2>2, KeepsEntry
<1>4. CASE redis' = Put(redis, key, Expiry(now)) /\ body' = Put(body, key, r.made)
  <2>1. CASE u # r.uuid
    <3>1. CacheKey(u) # key
      BY <2>1, KeysApart
    <3>2. CacheKey(u) \in DOMAIN redis' =>
            /\ CacheKey(u) \in DOMAIN redis
            /\ redis'[CacheKey(u)] = redis[CacheKey(u)]
            /\ body'[CacheKey(u)] = body[CacheKey(u)]
      BY <1>4, <3>1 DEF Put, PInv, TypeOK
    <3>3. CacheKey(u) \in DOMAIN redis => Alive(redis[CacheKey(u)], now)
      BY DEF PInv, EntryInv
    <3>4. QED
      BY <1>2, <3>2, <3>3, KeepsEntry
  <2>2. CASE u = r.uuid
    <3>1. redis'[key] = Expiry(now) /\ body'[key] = r.made
      BY <1>4 DEF Put
    <3>2. Alive(Expiry(now), now) /\ Expiry(now) \in Nat
      BY <1>2, NewlyAlive, ExpiryType
    <3>3. <<u, r.made.name>> \in names'
      BY <1>1, <2>2, NamesGrow DEF WasTrue
    <3>4. r.made = Current(u)' \/ unsettled'[u] = now
      <4>1. CASE dated[p]
        <5>1. BecomesDated(p)
          BY <1>1, <4>1 DEF BecomesDated
        <5>2. QED
          BY <1>2, <2>2, <5>1, Unsettling DEF PInv
      <4>2. CASE ~dated[p]
        <5>1. r.made = Current(u)
          BY <1>1, <2>2, <4>2, FreshIsCurrent
        <5>2. QED
          BY <1>2, <5>1, SameTables
      <4>3. QED
        BY <4>1, <4>2
    <3>5. Expiry(unsettled[u])' = Expiry(unsettled'[u]) /\ Expiry(now)' = Expiry(now')
      BY DEF Expiry, DeadlineOf
    <3>6. Expiry(now) <= Expiry(now')
      BY <1>2, <3>2
    <3>7. QED
      BY <1>1, <1>2, <2>2, <3>1, <3>2, <3>3, <3>4, <3>5, <3>6 DEF EntryInv, WasTrue
  <2>3. QED
    BY <2>1, <2>2
<1>5. QED
  BY <1>3, <1>4 DEF SetCached, Expiry

LEMMA TickEntry ==
  ASSUME PInv, Observe, Tick, NEW u \in Users
  PROVE  EntryInv(u)'
<1> DEFINE key == CacheKey(u)
<1>1. now \in Nat /\ now' = now + 1
  BY DEF Tick, PInv, TypeOK
<1>2. DOMAIN redis' = {k \in DOMAIN redis : Alive(redis[k], now')}
  BY DEF Tick, Purge, Restrict
<1>3. \A k \in DOMAIN redis' : redis'[k] = redis[k] /\ Alive(redis[k], now')
  BY <1>2 DEF Tick, Purge, Restrict
<1>4. \A k \in DOMAIN redis' : body'[k] = body[k]
  BY <1>2 DEF Tick, Restrict
<1>5. QED
  BY <1>1, <1>2, <1>3, <1>4, KeepsEntry

-----------------------------------------------------------------------------
(* Types *)

\* What a step of a process leaves alone, and its counters.
LEMMA ProcessFrame ==
  ASSUME TypeOK, NEW p \in Procs, Serve(p) \/ \E u \in Users : StartMe(p, u)
  PROVE  /\ now' = now /\ now' \in Nat /\ now <= now' /\ UNCHANGED Tables
         /\ arrived' \in Nat /\ failures' \in Nat
<1>1. arrived \in Nat /\ failures \in Nat /\ now \in Nat
  BY DEF TypeOK
<1>2. now' = now /\ UNCHANGED Tables /\ (arrived' = arrived \/ arrived' = arrived + 1)
  BY DEF Serve, StartMe, GetCached, FindRow, FindLinks, SetCached, Deliver
<1>3. failures' = failures \/ failures' = failures + 1
  <2>1. CASE \E u \in Users : StartMe(p, u)
    BY <2>1 DEF StartMe, Works
  <2>2. CASE GetCached(p)
    BY <2>2 DEF GetCached, Works, Fails
  <2>3. CASE FindRow(p)
    BY <2>3 DEF FindRow, Works, Fails
  <2>4. CASE FindLinks(p)
    BY <2>4 DEF FindLinks, Works, Fails, Collects
  <2>5. CASE SetCached(p)
    BY <2>5 DEF SetCached, Works, Fails
  <2>6. CASE Deliver(p)
    BY <2>6 DEF Deliver, Works
  <2>7. QED
    BY <2>1, <2>2, <2>3, <2>4, <2>5, <2>6 DEF Serve
<1>4. QED
  BY <1>1, <1>2, <1>3

LEMMA ProcessTypes ==
  ASSUME PInv, Observe, NEW p \in Procs, Serve(p) \/ \E u \in Users : StartMe(p, u)
  PROVE  TypeOK'
<1>1. Stepped(p)
  BY ProcessStep
<1>2. /\ now' = now /\ now' \in Nat /\ now <= now' /\ UNCHANGED Tables
      /\ arrived' \in Nat /\ failures' \in Nat
  BY ProcessFrame DEF PInv
<1>3. users' = users /\ wiped' = wiped /\ writes' = writes
  BY <1>2 DEF Tables
<1>4. /\ DOMAIN redis' \subseteq {CacheKey(u) : u \in Users}
      /\ \A k \in DOMAIN redis' : redis'[k] \in Nat
      /\ DOMAIN body' = DOMAIN redis'
      /\ \A k \in DOMAIN body' : body'[k] \in Profiles
  <2>1. CASE UNCHANGED Cache
    BY <2>1 DEF Cache, PInv, TypeOK
  <2>2. CASE SetCached(p) /\ ~UNCHANGED Cache
    <3> DEFINE r == req[p]
               key == CacheKey(r.uuid)
    <3>1. redis' = Put(redis, key, Expiry(now)) /\ body' = Put(body, key, r.made)
      BY <2>2 DEF SetCached, Expiry
    <3>2. r.uuid \in Users /\ r.made \in Profiles /\ Expiry(now) \in Nat
      BY <2>2, ExpiryType DEF SetCached, PInv, TypeOK, Stage
    <3>3. key \in {CacheKey(u) : u \in Users}
      BY <3>2
    <3> HIDE DEF key, r
    <3>4. QED
      BY <3>1, <3>2, <3>3 DEF Put, PInv, TypeOK
  <2>3. QED
    BY <2>1, <2>2 DEF Serve, StartMe, GetCached, FindRow, FindLinks, Deliver
<1>5. /\ names' \subseteq Users \X Names /\ dated' \in [Procs -> BOOLEAN]
      /\ unsettled' \in [Users -> Nat]
  BY <1>2, <1>3, ObservedTypes DEF PInv, TypeOK
<1>6. QED
  BY <1>1, <1>2, <1>3, <1>4, <1>5 DEF TypeOK, PInv, Stepped

\* What else happens touches no request.
Meanwhile == (\E u \in Users : Rename(u) \/ Delete(u)) \/ Wipe \/ Tick

LEMMA MeanwhileTypes ==
  ASSUME PInv, Observe, Meanwhile
  PROVE  TypeOK' /\ req' = req /\ now <= now'
<1>1. req' = req /\ UNCHANGED <<arrived, failures>>
  BY DEF Meanwhile, Rename, Delete, Wipe, Tick, Works
<1>2. now' \in Nat /\ now <= now' /\ writes' \in Nat /\ wiped' \in 0..3
  <2>1. CASE Tick
    BY <2>1 DEF Tick, Tables, PInv, TypeOK
  <2>2. CASE Wipe
    <3>1. MaxWiped \in 0..3 /\ wiped \in 0..3 /\ wiped < MaxWiped /\ wiped' = wiped + 1
      BY <2>2, ProfileAssumption DEF Wipe, PInv, TypeOK
    <3>2. QED
      BY <2>2, <3>1 DEF Wipe, PInv, TypeOK
  <2>3. CASE \E u \in Users : Rename(u) \/ Delete(u)
    BY <2>3 DEF Rename, Delete, PInv, TypeOK
  <2>4. QED
    BY <2>1, <2>2, <2>3 DEF Meanwhile
<1>3. DOMAIN users' \subseteq Users /\ \A u \in DOMAIN users' : users'[u] \in Names
  <2>1. CASE Tick
    BY <2>1 DEF Tick, Tables, PInv, TypeOK
  <2>2. CASE Wipe
    BY <2>2 DEF Wipe, EmptyStore, PInv, TypeOK
  <2>3. ASSUME NEW u \in Users, Rename(u)
        PROVE  DOMAIN users' \subseteq Users /\ \A v \in DOMAIN users' : users'[v] \in Names
    <3>1. writes' \in Names
      BY <2>3, ProfileAssumption DEF Rename, Names, PInv, TypeOK
    <3>2. QED
      BY <2>3, <3>1 DEF Rename, PInv, TypeOK
  <2>4. ASSUME NEW u \in Users, Delete(u)
        PROVE  DOMAIN users' \subseteq Users /\ \A v \in DOMAIN users' : users'[v] \in Names
    BY <2>4 DEF Delete, PInv, TypeOK
  <2>5. QED
    BY <2>1, <2>2, <2>3, <2>4 DEF Meanwhile
<1>4. /\ DOMAIN redis' \subseteq DOMAIN redis
      /\ \A k \in DOMAIN redis' : redis'[k] = redis[k]
      /\ DOMAIN body' = DOMAIN redis'
      /\ \A k \in DOMAIN body' : body'[k] = body[k]
  <2>1. CASE UNCHANGED Cache
    BY <2>1 DEF Cache, PInv, TypeOK
  <2>2. CASE Tick
    BY <2>2 DEF Tick, Purge, Restrict
  <2>3. QED
    BY <2>1, <2>2 DEF Meanwhile, Rename, Delete, Wipe
<1>5. /\ names' \subseteq Users \X Names /\ dated' \in [Procs -> BOOLEAN]
      /\ unsettled' \in [Users -> Nat]
  BY <1>2, <1>3, ObservedTypes DEF PInv
<1>6. /\ DOMAIN redis' \subseteq {CacheKey(u) : u \in Users}
      /\ \A k \in DOMAIN redis' : redis'[k] \in Nat
      /\ \A k \in DOMAIN body' : body'[k] \in Profiles
  BY <1>4 DEF PInv, TypeOK
<1>7. QED
  BY <1>1, <1>2, <1>3, <1>4, <1>5, <1>6 DEF PInv, TypeOK

-----------------------------------------------------------------------------
(* The invariant *)

LEMMA InitInvariant ==
  ASSUME Init
  PROVE  PInv
<1>1. 0 \in Names
  BY ProfileAssumption DEF Names
<1>2. /\ req = [p \in Procs |-> Idle] /\ Idle \in Requests
      /\ Idle.at = "idle"
  BY DEF Init, Idle, Requests, Places, Errors
<1>3. DOMAIN redis = {} /\ DOMAIN body = {}
  BY DEF Init, EmptyStore
<1>4. names \subseteq Users \X Names
  BY <1>1 DEF Init, Rows
<1>5. TypeOK
  BY <1>1, <1>2, <1>3, <1>4 DEF Init, TypeOK
<1>6. \A p \in Procs : Stage(p) /\ Fresh(p)
  BY <1>2 DEF Stage, Fresh, AtWork
<1>7. \A u \in Users : EntryInv(u)
  BY <1>3 DEF EntryInv
<1>8. Rows \subseteq names /\ SettleInv
  BY DEF Init, SettleInv
<1>9. QED
  BY <1>5, <1>6, <1>7, <1>8 DEF PInv

LEMMA SettleStep ==
  ASSUME PInv, Observe, now' \in Nat, now <= now',
         \A p \in Procs : AtWork(p) /\ AtWork(p)' => req'[p].uuid = req[p].uuid
  PROVE  SettleInv'
<1>1. \A u \in Users : unsettled'[u] <= now'
  BY Unsettling DEF PInv
<1>2. ASSUME NEW p \in Procs, dated'[p]
      PROVE  AtWork(p)' /\ unsettled'[req'[p].uuid] = now'
  <2>1. AtWork(p)' /\ BecomesDated(p) /\ AtWork(p)
    BY <1>2 DEF Observe, BecomesDated
  <2>2. req[p].uuid \in Users
    BY <2>1 DEF PInv, Stage, AtWork
  <2>3. QED
    BY <2>1, <2>2, Unsettling DEF PInv
<1>3. QED
  BY <1>1, <1>2 DEF SettleInv

LEMMA NextInvariant ==
  ASSUME PInv, Next
  PROVE  PInv' /\ \A p \in Procs : Settled(p)
<1>0. Observe
  BY DEF Next
<1>1. ASSUME NEW p \in Procs, Serve(p) \/ \E u \in Users : StartMe(p, u)
      PROVE  PInv' /\ \A q \in Procs : Settled(q)
  <2>1. Stepped(p) /\ TypeOK'
    BY <1>0, <1>1, ProcessStep, ProcessTypes
  <2>2. now' = now /\ now' \in Nat /\ now <= now'
    BY <1>1, ProcessFrame DEF PInv
  <2>3. \A q \in Procs : q # p => req'[q] = req[q]
    BY <2>1 DEF Stepped, Others
  <2>4. ASSUME NEW q \in Procs
        PROVE  Stage(q)' /\ Fresh(q)' /\ Settled(q)
               /\ (AtWork(q) /\ AtWork(q)' => req'[q].uuid = req[q].uuid)
    <3>1. CASE q = p
      BY <2>1, <3>1 DEF Stepped
    <3>2. CASE q # p
      <4>1. req'[q] = req[q]
        BY <2>3, <3>2
      <4>2. Stage(q)' /\ Fresh(q)'
        BY <1>0, <4>1, StaysFresh DEF PInv
      <4>3. QED
        BY <4>1, <4>2 DEF Settled, AtWork
    <3>3. QED
      BY <3>1, <3>2
  <2>5. ASSUME NEW u \in Users
        PROVE  EntryInv(u)'
    <3>1. CASE SetCached(p)
      BY <1>0, <3>1, SetCachedEntry
    <3>2. CASE UNCHANGED Cache
      <4>1. redis' = redis /\ body' = body
        BY <3>2 DEF Cache
      <4>2. CacheKey(u) \in DOMAIN redis => Alive(redis[CacheKey(u)], now)
        BY DEF PInv, EntryInv
      <4>3. QED
        BY <1>0, <2>2, <4>1, <4>2, KeepsEntry
    <3>3. QED
      BY <1>1, <3>1, <3>2 DEF Serve, StartMe, GetCached, FindRow, FindLinks, Deliver
  <2>6. Rows' \subseteq names' /\ SettleInv'
    BY <1>0, <2>2, <2>4, NamesGrow, SettleStep
  <2>7. QED
    BY <2>1, <2>4, <2>5, <2>6 DEF PInv
<1>2. ASSUME Meanwhile
      PROVE  PInv' /\ \A q \in Procs : Settled(q)
  <2>1. TypeOK' /\ req' = req /\ now <= now' /\ now' \in Nat
    BY <1>0, <1>2, MeanwhileTypes DEF TypeOK
  <2>2. \A q \in Procs : Stage(q)' /\ Fresh(q)'
    BY <1>0, <2>1, StaysFresh DEF PInv
  <2>3. \A q \in Procs : Settled(q)
    BY <2>1 DEF Settled, AtWork
  <2>4. ASSUME NEW u \in Users
        PROVE  EntryInv(u)'
    <3>1. CASE Tick
      BY <1>0, <3>1, TickEntry
    <3>2. CASE UNCHANGED Cache /\ now' = now
      <4>1. redis' = redis /\ body' = body
        BY <3>2 DEF Cache
      <4>2. CacheKey(u) \in DOMAIN redis => Alive(redis[CacheKey(u)], now)
        BY DEF PInv, EntryInv
      <4>3. QED
        BY <1>0, <2>1, <3>2, <4>1, <4>2, KeepsEntry
    <3>3. QED
      BY <1>2, <3>1, <3>2 DEF Meanwhile, Rename, Delete, Wipe
  <2>5. Rows' \subseteq names' /\ SettleInv'
    BY <1>0, <2>1, NamesGrow, SettleStep
  <2>6. QED
    BY <2>1, <2>2, <2>3, <2>4, <2>5 DEF PInv
<1>3. QED
  BY <1>1, <1>2 DEF Next, Meanwhile

LEMMA StutterInvariant ==
  ASSUME PInv, UNCHANGED vars
  PROVE  PInv' /\ \A p \in Procs : Settled(p)
<1>1. TypeOK'
  BY DEF PInv, TypeOK, vars
<1>2. \A p \in Procs : Stage(p)' /\ Fresh(p)'
  BY DEF PInv, Stage, Fresh, WasTrue, AtWork, Current, RolesOf, DirectOf, vars
<1>3. \A u \in Users : EntryInv(u)'
  BY DEF PInv, EntryInv, WasTrue, Current, RolesOf, DirectOf, Expiry, vars
<1>4. Rows' \subseteq names' /\ SettleInv'
  BY DEF PInv, Rows, SettleInv, AtWork, vars
<1>5. \A p \in Procs : Settled(p)
  BY DEF Settled, AtWork, vars
<1>6. QED
  BY <1>1, <1>2, <1>3, <1>4, <1>5 DEF PInv

\* The inductive invariant of the cache: what a read holds and what an entry
\* says was true, an entry that is not current ends within five minutes of the
\* instant its account was last unsettled, and a dated read keeps its account
\* unsettled (GetUser, FindByUUID, RedisService).
THEOREM ProfileInvariance == Spec => []PInv
<1>1. Init => PInv
  BY InitInvariant
<1>2. PInv /\ [Next]_vars => PInv'
  BY NextInvariant, StutterInvariant
<1>3. QED
  BY <1>1, <1>2, PTL DEF Spec

\* Whoever asks sees a profile of the own account as it once was, whatever is
\* renamed, deleted, emptied or lost meanwhile.
THEOREM TruthOfAnswers == Spec => []AnswersWereTrue
<1>1. PInv => AnswersWereTrue
  BY DEF PInv, Stage, WasTrue, AnswersWereTrue
<1>2. QED
  BY <1>1, ProfileInvariance, PTL

\* The types of the cache's state.
THEOREM ProfileTypes == Spec => []TypeOK
<1>1. PInv => TypeOK
  BY DEF PInv
<1>2. QED
  BY <1>1, ProfileInvariance, PTL

\* Five minutes after an account has settled, what is answered of it is what
\* the tables hold, for every clock, expiration and number of requests.
THEOREM SettledIsCurrent == Spec => SettledAnswersCurrent
<1>1. Init => PInv
  BY InitInvariant
<1>2. PInv /\ [Next]_vars => PInv'
  BY NextInvariant, StutterInvariant
<1>3. PInv /\ Next => \A p \in Procs : Settled(p)
  BY NextInvariant
<1> DEFINE A == \A p \in Procs : Settled(p)
<1>4. A => \A p \in Procs :
             LET r == req'[p]
             IN  AtWork(p) /\ r.at = "replied" /\ r.err = "nil"
                   => \/ r.made = Current(r.uuid)
                      \/ now < unsettled[r.uuid] + ProfileTtl + MsTicks
  BY DEF Settled
<1>5. PInv /\ [Next]_vars =>
        [\A p \in Procs :
           LET r == req'[p]
           IN  AtWork(p) /\ r.at = "replied" /\ r.err = "nil"
                 => \/ r.made = Current(r.uuid)
                    \/ now < unsettled[r.uuid] + ProfileTtl + MsTicks]_vars
  BY <1>3, <1>4
<1>6. QED
  BY <1>1, <1>2, <1>5, PTL DEF Spec, SettledAnswersCurrent
=============================================================================
