------------------------- MODULE AuthServiceProofs -------------------------
(***************************************************************************)
(* Theorems about AuthService, for every number of handlers and users,     *)
(* every precision of the clock and every lifetime.                        *)
(***************************************************************************)
EXTENDS AuthService, RedisStoreProofs

-----------------------------------------------------------------------------
(* Whole seconds *)

LEMMA MultipleModulo ==
  ASSUME NEW k \in Nat, NEW m \in Nat \ {0}
  PROVE  (k * m) % m = 0
  OBVIOUS

LEMMA SecTicksType == SecTicks \in Nat \ {0}
  BY AuthAssumption, MsTicksAssumption DEF SecTicks

LEMMA LifeType ==
  ASSUME NEW s \in TokenTypes
  PROVE  LifeOf(s) \in Nat \ {0}
  BY SecTicksType, AuthAssumption DEF LifeOf

LEMMA NumericDateType ==
  ASSUME NEW t \in Nat
  PROVE  NumericDate(t) \in WholeSeconds
  <1>1. t \div SecTicks \in Nat
    BY SecTicksType, Division
  <1>2. (t \div SecTicks) * SecTicks \in Nat
    BY <1>1, SecTicksType
  <1>3. ((t \div SecTicks) * SecTicks) % SecTicks = 0
    BY <1>1, SecTicksType, MultipleModulo
  <1>4. QED
    BY <1>2, <1>3 DEF NumericDate, WholeSeconds

\* A whole second is a whole millisecond.
LEMMA SecondsAreMillis ==
  ASSUME NEW t \in WholeSeconds
  PROVE  \E k \in Nat : t = k * MsTicks
  <1>1. t \in Nat /\ t % SecTicks = 0
    BY DEF WholeSeconds
  <1>2. PICK q \in Nat : t = SecTicks * q
    <2>1. t \div SecTicks \in Nat
      BY <1>1, SecTicksType, Division
    <2>2. t = SecTicks * (t \div SecTicks) + (t % SecTicks)
      BY <1>1, SecTicksType
    <2>3. SecTicks * (t \div SecTicks) \in Nat
      BY <2>1, SecTicksType
    <2>4. t = SecTicks * (t \div SecTicks)
      BY <1>1, <2>2, <2>3
    <2>5. QED
      BY <2>1, <2>4
  <1>3. MsPerSecond \in Nat /\ MsTicks \in Nat
    BY AuthAssumption, MsTicksAssumption
  <1>4. t = (MsPerSecond * q) * MsTicks
    BY <1>2, <1>3 DEF SecTicks
  <1>5. MsPerSecond * q \in Nat
    BY <1>2, <1>3
  <1>6. QED
    BY <1>4, <1>5

-----------------------------------------------------------------------------
(* Types *)

LEMMA PresentableType ==
  /\ Garbage \in Presentable
  /\ Missing \in Presentable
  /\ Token \subseteq Presentable
  /\ Missing \in Minted
  /\ Token \subseteq Minted
  /\ Minted \subseteq Presentable
  BY DEF Presentable, Minted

LEMMA GenerateTokenType ==
  ASSUME NEW s \in TokenTypes, NEW u \in Users, NEW t \in Nat, NEW n \in Nat
  PROVE  GenerateToken(s, u, t, n) \in Token
  <1>1. t + LifeOf(s) \in Nat
    BY LifeType
  <1>2. QED
    BY <1>1, NumericDateType DEF GenerateToken, Token

LEMMA IdleType == Idle \in Requests
  BY PresentableType DEF Idle, Requests, RequestRecords, Ops, Places, SlotStates, Errors,
     Responses, Minted, NoResponse

LEMMA ReplyType ==
  ASSUME NEW r \in Requests, NEW e \in Errors, NEW a \in Minted,
         NEW c \in Minted \cup {Kept, Cleared}
  PROVE  Reply(r, e, a, c) \in Requests
  <1>1. r.op \in Ops /\ r.shown \in [TokenTypes -> Presentable] /\ r.late \in BOOLEAN
    BY DEF Requests, RequestRecords
  <1>2. [err |-> e, access |-> a, cookie |-> c] \in Responses
    BY DEF Responses
  <1>3. "replied" \in Places
    BY DEF Places
  <1>4. QED
    BY <1>1, <1>2, <1>3, IdleType DEF Reply, Requests,
     RequestRecords

LEMMA FailType ==
  ASSUME NEW r \in Requests, NEW e \in Errors
  PROVE  Fail(r, e) \in Requests
  BY ReplyType, PresentableType DEF Fail

LEMMA ArrivalType ==
  ASSUME NEW o \in Ops, NEW a \in Presentable, NEW r \in Presentable
  PROVE  Arrival(o, a, r) \in Requests
  <1> DEFINE shown == [s \in TokenTypes |-> IF s = "access" THEN a ELSE r]
             new == [Idle EXCEPT !.op = o, !.shown = shown]
             late == o # "logout" /\ Spent(KeyOf(new, Checked(new)))
  <1>1. new \in Requests
    BY IdleType DEF Requests, RequestRecords, Idle
  <1>2. late \in BOOLEAN
    OBVIOUS
  <1>3. Arrival(o, a, r) = [new EXCEPT !.late = late]
    BY DEF Arrival
  <1> HIDE DEF new, late
  <1>4. [new EXCEPT !.late = late] \in Requests
    BY <1>1, <1>2 DEF Requests, RequestRecords
  <1>5. QED
    BY <1>3, <1>4

LEMMA BecomeType ==
  ASSUME TypeOK, NEW p \in Procs, NEW r \in Requests, Become(p, r)
  PROVE  req' \in [Procs -> Requests]
  BY DEF TypeOK, Become

LEMMA KeyType ==
  ASSUME NEW r \in Requests, NEW s \in TokenTypes
  PROVE  KeyOf(r, s) \in TokenTypes \X Presentable
  BY DEF KeyOf, BlacklistKey, Requests,
     RequestRecords

LEMMA StringsType ==
  ASSUME TypeOK, NEW s \in TokenTypes
  PROVE  Strings(s) \subseteq Presentable
  BY PresentableType DEF Strings, TypeOK

\* Every step of a handler leaves the clock alone and well-typed requests.
LEMMA ArriveType ==
  ASSUME TypeOK, NEW p \in Procs, Arrive(p)
  PROVE  TypeOK'
  <1>1. serial' \in Nat
    BY DEF Arrive, TypeOK
  <1>2. req[p] \in Requests /\ serial + 1 \in Nat
    BY DEF TypeOK
  <1> DEFINE Goal == /\ UNCHANGED <<now, redis, handed, retired>>
                     /\ req' \in [Procs -> Requests]
  <1>3. SUFFICES Goal
    BY <1>1 DEF TypeOK
  <1>4. ASSUME NEW u \in Users, StartLogin(p, u)
        PROVE  Goal
    <2>1. [Idle EXCEPT !.op = "login", !.at = "findUser", !.who = u,
                       !.jti = serial + 1] \in Requests
      BY <1>2, IdleType DEF Requests, RequestRecords, Ops, Places
    <2>2. QED
      BY <1>4, <2>1, BecomeType DEF StartLogin
  <1>5. ASSUME NEW t \in Strings("access"), StartGuard(p, t)
        PROVE  Goal
    <2>1. Arrival("guard", t, Missing) \in Requests
      BY StringsType, ArrivalType, PresentableType DEF Ops, TokenTypes
    <2>2. [Arrival("guard", t, Missing) EXCEPT !.at = "lookup"] \in Requests
      BY <2>1 DEF Requests, RequestRecords, Places
    <2>3. QED
      BY <1>5, <2>2, BecomeType DEF StartGuard
  <1>6. ASSUME NEW t \in Strings("refresh"), StartRefresh(p, t)
        PROVE  Goal
    <2>1. Arrival("refresh", Missing, t) \in Requests
      BY StringsType, ArrivalType, PresentableType DEF Ops, TokenTypes
    <2>2. [Arrival("refresh", Missing, t) EXCEPT !.at = "lookup",
                                                 !.jti = serial + 1] \in Requests
      BY <1>2, <2>1 DEF Requests, RequestRecords, Places
    <2>3. QED
      BY <1>6, <2>2, BecomeType DEF StartRefresh
  <1>7. ASSUME NEW a \in Strings("access"), NEW r \in Strings("refresh"),
               StartLogout(p, a, r)
        PROVE  Goal
    <2>1. Arrival("logout", a, r) \in Requests
      BY StringsType, ArrivalType DEF Ops, TokenTypes
    <2>2. [Arrival("logout", a, r) EXCEPT
             !.at = "revoking", !.slot = [s \in TokenTypes |-> "parse"]] \in Requests
      BY <2>1 DEF Requests, RequestRecords, Places, SlotStates
    <2>3. QED
      BY <1>7, <2>2, BecomeType DEF StartLogout
  <1>8. ASSUME NEW e \in HeaderErrors, GuardBadHeader(p, e)
        PROVE  Goal
    <2>1. Reply(Arrival("guard", Missing, Missing), e, Missing, Kept) \in Requests
      BY ArrivalType, ReplyType, PresentableType DEF Ops, Errors
    <2>2. QED
      BY <1>8, <2>1, BecomeType DEF GuardBadHeader
  <1>9. ASSUME LoginBadRequest(p) \/ RefreshNoCookie(p) \/ LogoutMissing(p)
        PROVE  Goal
    <2>1. \A o \in {"login", "refresh", "logout"},
              e \in {"ErrBadRequest", "ErrUnauthorized"} :
            Reply(Arrival(o, Missing, Missing), e, Missing, Kept) \in Requests
      BY ArrivalType, ReplyType, PresentableType DEF Ops, Errors
    <2>2. QED
      BY <1>9, <2>1, BecomeType DEF LoginBadRequest, RefreshNoCookie, LogoutMissing
  <1>10. QED
    BY <1>4, <1>5, <1>6, <1>7, <1>8, <1>9 DEF Arrive

LEMMA ServeType ==
  ASSUME TypeOK, NEW p \in Procs, Serve(p)
  PROVE  TypeOK'
  <1> DEFINE r == req[p]
             Goal == /\ UNCHANGED <<now, redis, serial, handed, retired>>
                     /\ req' \in [Procs -> Requests]
  <1>1. r \in Requests /\ now \in Nat
    BY DEF TypeOK
  <1>2. Goal => TypeOK'
    BY DEF TypeOK
  <1>3. \A e \in Errors : Fail(r, e) \in Requests
    BY <1>1, FailType
  <1> HIDE DEF r
  <1>4. ASSUME FindUser(p)
        PROVE  Goal
    <2>1. r.at = "findUser"
      BY <1>4 DEF FindUser, r
    <2>2. [r EXCEPT !.at = "signAccess"] \in Requests
      BY <1>1, <2>1 DEF Requests, RequestRecords, Places
    <2>3. QED
      BY <1>3, <1>4, <2>2, BecomeType DEF FindUser, Errors, r
  <1>5. ASSUME LoginSignAccess(p)
        PROVE  Goal
    <2>1. r.at = "signAccess" /\ r.who \in Users
      BY <1>1, <1>5 DEF LoginSignAccess, Requests, r
    <2>2. GenerateToken("access", r.who, now, 0) \in Minted
      BY <1>1, <2>1, GenerateTokenType, PresentableType DEF TokenTypes
    <2>3. [r EXCEPT !.at = "signRefresh",
                    !.made["access"] = GenerateToken("access", r.who, now, 0)]
            \in Requests
      BY <1>1, <2>1, <2>2 DEF Requests, RequestRecords, Places
    <2>4. GenerationError("access") \in Errors
      BY DEF GenerationError, Errors
    <2>5. QED
      BY <1>3, <1>5, <2>3, <2>4, BecomeType DEF LoginSignAccess, r
  <1>6. ASSUME LoginSignRefresh(p)
        PROVE  Goal
    <2>1. r.at = "signRefresh" /\ r.who \in Users /\ r.jti \in Nat
          /\ r.made["access"] \in Minted
      BY <1>1, <1>6 DEF LoginSignRefresh, Requests, RequestRecords, TokenTypes, r
    <2>2. GenerateToken("refresh", r.who, now, r.jti) \in Minted
      BY <1>1, <2>1, GenerateTokenType, PresentableType DEF TokenTypes
    <2>3. Reply(r, "nil", r.made["access"],
                GenerateToken("refresh", r.who, now, r.jti)) \in Requests
      BY <1>1, <2>1, <2>2, ReplyType DEF Errors
    <2>4. GenerationError("refresh") \in Errors
      BY DEF GenerationError, Errors
    <2>5. QED
      BY <1>3, <1>6, <2>3, <2>4, BecomeType DEF LoginSignRefresh, r
  <1>7. ASSUME IsTokenBlacklisted(p)
        PROVE  Goal
    <2>1. [r EXCEPT !.at = "validate"] \in Requests
      BY <1>1 DEF Requests, RequestRecords, Places
    <2>2. QED
      BY <1>3, <1>7, <2>1, BecomeType DEF IsTokenBlacklisted, Errors, r
  <1>8. ASSUME ValidateAccessToken(p)
        PROVE  Goal
    <2>1. Reply(r, "nil", Missing, Kept) \in Requests
      BY <1>1, ReplyType, PresentableType DEF Errors
    <2>2. QED
      BY <1>3, <1>8, <2>1, BecomeType DEF ValidateAccessToken, Errors, r
  <1>9. ASSUME ValidateRefreshToken(p)
        PROVE  Goal
    <2>1. CASE Validates(r.shown["refresh"], "refresh", now)
      <3>1. r.shown["refresh"].uuid \in Users
        BY <1>1, <2>1 DEF Validates, Requests, RequestRecords, TokenTypes,
           Presentable, Token, Garbage, Missing
      <3>2. [r EXCEPT !.at = "generating", !.who = r.shown["refresh"].uuid,
                      !.slot = [s \in TokenTypes |-> "sign"]] \in Requests
        BY <1>1, <3>1 DEF Requests, RequestRecords, Places, SlotStates
      <3>3. QED
        BY <1>9, <2>1, <3>2, BecomeType DEF ValidateRefreshToken, r
    <2>2. CASE ~Validates(r.shown["refresh"], "refresh", now)
      BY <1>3, <1>9, <2>2, BecomeType DEF ValidateRefreshToken, Errors, r
    <2>3. QED
      BY <2>1, <2>2
  <1>10. ASSUME NEW s \in TokenTypes, Generate(p, s)
         PROVE  Goal
    <2>1. r.at = "generating" /\ r.who \in Users /\ r.jti \in Nat
      BY <1>1, <1>10 DEF Generate, Requests, RequestRecords, r
    <2>2. GenerateToken(s, r.who, now, r.jti) \in Minted
      BY <1>1, <2>1, GenerateTokenType, PresentableType
    <2>3. [r EXCEPT !.slot[s] = "check", !.err = "nil",
                    !.made[s] = GenerateToken(s, r.who, now, r.jti)] \in Requests
      BY <1>1, <2>1, <2>2 DEF Requests, RequestRecords, SlotStates, Errors
    <2>4. [r EXCEPT !.slot[s] = "check", !.err = GenerationError(s)] \in Requests
      BY <1>1, <2>1 DEF Requests, RequestRecords, SlotStates, Errors,
         GenerationError
    <2>5. QED
      BY <1>10, <2>3, <2>4, BecomeType DEF Generate, r
  <1>11. ASSUME NEW s \in TokenTypes, CheckGenerated(p, s)
         PROVE  Goal
    <2> DEFINE e == IF r.egErr = "nil" /\ r.err # "nil" THEN GenerationError(s)
                                                        ELSE r.egErr
    <2>1. e \in Errors
      BY <1>1 DEF Requests, RequestRecords, GenerationError, Errors
    <2>2. [r EXCEPT !.slot[s] = "done", !.egErr = e] \in Requests
      BY <1>1, <2>1 DEF Requests, RequestRecords, SlotStates
    <2>3. QED
      BY <1>11, <2>2, BecomeType DEF CheckGenerated, r
  <1>12. ASSUME AwaitGenerated(p)
         PROVE  Goal
    <2>1. [r EXCEPT !.at = "revoking", !.slot["access"] = "off",
                    !.slot["refresh"] = "parse"] \in Requests
      BY <1>1 DEF Requests, RequestRecords, Places, SlotStates, TokenTypes
    <2>2. r.egErr \in Errors
      BY <1>1 DEF Requests, RequestRecords
    <2>3. QED
      BY <1>3, <1>12, <2>1, <2>2, BecomeType DEF AwaitGenerated, r
  <1>13. ASSUME FinishRefresh(p) \/ FinishLogout(p)
         PROVE  TypeOK'
    <2>1. r.egErr \in Errors /\ \A s \in TokenTypes : r.made[s] \in Minted
      BY <1>1 DEF Requests, RequestRecords
    <2>2. Reply(r, "nil", r.made["access"], r.made["refresh"]) \in Requests
      BY <1>1, <2>1, ReplyType DEF Errors, TokenTypes
    <2>3. Reply(r, "nil", Missing, Cleared) \in Requests
      BY <1>1, ReplyType, PresentableType DEF Errors
    <2>4. req' \in [Procs -> Requests]
      BY <1>3, <1>13, <2>1, <2>2, <2>3, BecomeType
      DEF FinishRefresh, FinishLogout, r
    <2>5. \A s \in TokenTypes : KeyOf(r, s) \in TokenTypes \X Presentable
      BY <1>1, KeyType
    <2>6. retired' \subseteq TokenTypes \X Presentable
      BY <1>13, <2>5 DEF FinishRefresh, FinishLogout, TypeOK, TokenTypes, r
    <2>7. UNCHANGED <<now, redis, serial, handed>>
      BY <1>13 DEF FinishRefresh, FinishLogout
    <2>8. QED
      BY <2>4, <2>6, <2>7 DEF TypeOK
  <1>14. ASSUME NEW s \in TokenTypes, ParseTokenClaims(p, s)
         PROVE  Goal
    <2>1. r.at = "revoking"
      BY <1>14 DEF ParseTokenClaims, r
    <2>2. [r EXCEPT !.slot[s] = "ttl"] \in Requests
      BY <1>1, <2>1 DEF Requests, RequestRecords, SlotStates
    <2>3. [r EXCEPT !.slot[s] = "store", !.ttl[s] = FallbackTtl] \in Requests
      BY <1>1, <2>1, AuthAssumption DEF Requests, RequestRecords, SlotStates
    <2>4. QED
      BY <1>14, <2>2, <2>3, BecomeType DEF ParseTokenClaims, r
  <1>15. ASSUME NEW s \in TokenTypes, CalculateTtl(p, s)
         PROVE  Goal
    <2> DEFINE ttl == r.shown[s].exp - now
    <2>1. r.at = "revoking"
      BY <1>15 DEF CalculateTtl, r
    <2>2. ttl \in Int
      BY <1>1 DEF Requests, RequestRecords, Presentable, Token, WholeSeconds,
         Garbage, Missing
    <2>3. [r EXCEPT !.slot[s] = "done"] \in Requests
      BY <1>1, <2>1 DEF Requests, RequestRecords, SlotStates
    <2>4. ASSUME NEW n \in Nat
          PROVE  [r EXCEPT !.slot[s] = "store", !.ttl[s] = n] \in Requests
      BY <1>1, <2>1 DEF Requests, RequestRecords, SlotStates
    <2>5. ttl > 0 => [r EXCEPT !.slot[s] = "store", !.ttl[s] = ttl] \in Requests
      <3>1. ttl > 0 => ttl \in Nat
        BY <2>2
      <3>2. QED
        BY <2>4, <3>1, Zenon
    <2>6. QED
      BY <1>15, <2>3, <2>5, BecomeType DEF CalculateTtl, r
  <1>16. ASSUME NEW s \in TokenTypes, StoreEntry(p, s)
         PROVE  TypeOK'
    <2> DEFINE stored == Put(redis, KeyOf(r, s), DeadlineOf(r.ttl[s], now))
    <2>1. r.at = "revoking" /\ r.ttl[s] \in Nat /\ r.egErr \in Errors
      BY <1>1, <1>16 DEF StoreEntry, Requests, RequestRecords, r
    <2>2. [r EXCEPT !.slot[s] = "done"] \in Requests
      BY <1>1, <2>1 DEF Requests, RequestRecords, SlotStates
    <2>a. (IF r.egErr = "nil" THEN "ErrRedisSet" ELSE r.egErr) \in Errors
      BY <2>1 DEF Errors
    <2>3. [r EXCEPT !.slot[s] = "done",
                    !.egErr = IF r.egErr = "nil" THEN "ErrRedisSet" ELSE r.egErr]
            \in Requests
      BY <1>1, <2>1, <2>a DEF Requests, RequestRecords, SlotStates
    <2>4. req' \in [Procs -> Requests]
      BY <1>16, <2>2, <2>3, BecomeType DEF StoreEntry, r
    <2>5. DeadlineOf(r.ttl[s], now) \in Nat \cup {NoExpiry}
      BY <1>1, <2>1, DeadlineType
    <2>6. KeyOf(r, s) \in TokenTypes \X Presentable
      BY <1>1, KeyType
    <2>7. /\ DOMAIN stored \subseteq TokenTypes \X Presentable
          /\ \A k \in DOMAIN stored : stored[k] \in Nat \cup {NoExpiry}
      BY <2>5, <2>6 DEF Put, TypeOK
    <2>8. redis' \in {redis, stored} /\ UNCHANGED <<now, serial, handed, retired>>
      BY <1>16 DEF StoreEntry, r
    <2>9. QED
      BY <2>4, <2>7, <2>8 DEF TypeOK
  <1>17. ASSUME Deliver(p)
         PROVE  TypeOK'
    <2>1. req' \in [Procs -> Requests]
      BY <1>17, IdleType, BecomeType DEF Deliver
    <2>2. r.resp.access \in Minted /\ r.resp.cookie \in Minted \cup {Kept, Cleared}
      BY <1>1 DEF Requests, RequestRecords, Responses
    <2>3. handed' \subseteq Token
      BY <1>17, <2>2 DEF Deliver, Minted, TypeOK, r
    <2>4. UNCHANGED <<now, redis, serial, retired>>
      BY <1>17 DEF Deliver
    <2>5. QED
      BY <2>1, <2>3, <2>4 DEF TypeOK
  <1>18. QED
    BY <1>2, <1>4, <1>5, <1>6, <1>7, <1>8, <1>9, <1>10, <1>11, <1>12, <1>13,
       <1>14, <1>15, <1>16, <1>17 DEF Serve

LEMMA TickType ==
  ASSUME TypeOK, Tick
  PROVE  TypeOK'
  <1>1. now' \in Nat /\ UNCHANGED <<serial, handed, req, retired>>
    BY DEF Tick, TypeOK
  <1>2. /\ DOMAIN redis' \subseteq DOMAIN redis
        /\ \A k \in DOMAIN redis' : redis'[k] = redis[k]
    BY DEF Tick, Purge, Restrict
  <1>3. QED
    BY <1>1, <1>2 DEF TypeOK

\* Type correctness: in particular every TTL is a natural number, every token
\* expires on a whole second, and a token is only ever made for a known user.
THEOREM TypeCorrect == Spec => []TypeOK
  <1>1. Init => TypeOK
    BY IdleType DEF Init, TypeOK, EmptyStore
  <1>2. TypeOK /\ [Next]_vars => TypeOK'
    <2> SUFFICES ASSUME TypeOK, [Next]_vars
                 PROVE  TypeOK'
      OBVIOUS
    <2>1. CASE Tick
      BY <2>1, TickType
    <2>2. ASSUME NEW p \in Procs, Arrive(p)
          PROVE  TypeOK'
      BY <2>2, ArriveType
    <2>3. ASSUME NEW p \in Procs, Serve(p)
          PROVE  TypeOK'
      BY <2>3, ServeType
    <2>4. CASE UNCHANGED vars
      BY <2>4 DEF vars, TypeOK
    <2>5. QED
      BY <2>1, <2>2, <2>3, <2>4 DEF Next
  <1>3. QED
    BY <1>1, <1>2, PTL DEF Spec

-----------------------------------------------------------------------------
(* The inductive invariant                                                  *)

\* What a request in service has established so far:
\*  - a TTL about to be sent is positive and reaches the token's expiry;
\*  - an Add that returned no error left the key spent;
\*  - a request that showed a spent key is on its way to a refusal: the key is
\*    still spent at the lookup, and if the entry was gone by then, it is
\*    because the token had expired.
RequestSafe(r) ==
  /\ \A s \in TokenTypes :
       r.at = "revoking" /\ r.slot[s] = "store" =>
         /\ r.ttl[s] > 0
         /\ r.shown[s].kind = s => r.shown[s].exp <= now + r.ttl[s]
  /\ \A s \in TokenTypes :
       r.at = "revoking" /\ r.slot[s] = "done" /\ r.egErr = "nil"
         => Spent(KeyOf(r, s))
  /\ r.late => \/ r.at = "lookup" /\ Spent(KeyOf(r, Checked(r)))
               \/ /\ r.at = "validate"
                  /\ ~Validates(r.shown[Checked(r)], Checked(r), now)
               \/ r.at = "replied" /\ r.resp.err # "nil"

IInv ==
  /\ TypeOK
  /\ EntriesOutliveTokens
  /\ RetiredKeysSpent
  /\ \A p \in Procs : RequestSafe(req[p])

LEMMA PresentableFields ==
  ASSUME NEW t \in Presentable
  PROVE  t.exp \in Nat
  BY DEF Presentable, Token, WholeSeconds, Garbage, Missing

LEMMA GenuineSeconds ==
  ASSUME NEW t \in Presentable, NEW s \in TokenTypes, t.kind = s
  PROVE  t.exp \in WholeSeconds
  BY DEF Presentable, Token, TokenTypes, Garbage, Missing

\* What a step can do to the clock and to Redis.
LEMMA StoreSteps ==
  ASSUME [Next]_vars
  PROVE  \/ Tick
         \/ /\ now' = now
            /\ \/ redis' = redis
               \/ \E p \in Procs, s \in TokenTypes :
                    /\ StoreEntry(p, s)
                    /\ redis' = Put(redis, KeyOf(req[p], s),
                                    DeadlineOf(req[p].ttl[s], now))
  <1>1. ASSUME NEW p \in Procs, Arrive(p)
        PROVE  UNCHANGED <<now, redis>>
    BY <1>1 DEF Arrive, StartLogin, StartGuard, StartRefresh, StartLogout,
       GuardBadHeader, LoginBadRequest, RefreshNoCookie, LogoutMissing
  <1>2. ASSUME NEW p \in Procs, Serve(p),
               ~\E s \in TokenTypes : StoreEntry(p, s)
        PROVE  UNCHANGED <<now, redis>>
    BY <1>2 DEF Serve, FindUser, LoginSignAccess, LoginSignRefresh,
       IsTokenBlacklisted, ValidateAccessToken, ValidateRefreshToken, Generate,
       CheckGenerated, AwaitGenerated, FinishRefresh, FinishLogout,
       ParseTokenClaims, CalculateTtl, Deliver
  <1>3. ASSUME NEW p \in Procs, NEW s \in TokenTypes, StoreEntry(p, s)
        PROVE  /\ now' = now
               /\ \/ redis' = redis
                  \/ redis' = Put(redis, KeyOf(req[p], s),
                                  DeadlineOf(req[p].ttl[s], now))
    BY <1>3 DEF StoreEntry
  <1>4. CASE UNCHANGED vars
    BY <1>4 DEF vars
  <1>5. QED
    BY <1>1, <1>2, <1>3, <1>4 DEF Next

\* A spent key stays spent: Redis lets go of an entry only after the token
\* has expired.
LEMMA SpentForever ==
  ASSUME TypeOK, EntriesOutliveTokens, [Next]_vars,
         NEW k \in TokenTypes \X Presentable, Spent(k)
  PROVE  Spent(k)'
  <1>1. k[1] \in TokenTypes /\ k[2] \in Presentable /\ k[2].exp \in Nat
    BY PresentableFields
  <1>2. now \in Nat
    BY DEF TypeOK
  <1>3. CASE Tick
    <2>1. now' = now + 1 /\ redis' = Purge(redis, now + 1)
      BY <1>3 DEF Tick
    <2>2. CASE ~Validates(k[2], k[1], now)
      BY <1>1, <1>2, <2>1, <2>2 DEF Spent, Validates
    <2>3. CASE k \in DOMAIN redis /\ Validates(k[2], k[1], now)
      <3>1. CASE Alive(redis[k], now + 1)
        BY <2>1, <2>3, <3>1 DEF Spent, Purge, Restrict
      <3>2. CASE ~Alive(redis[k], now + 1)
        <4>1. redis[k] # NoExpiry /\ redis[k] \in Nat
          BY <2>3, <3>2 DEF Alive, TypeOK
        <4>2. (redis[k] + 1) * MsTicks <= now + 1
          BY <1>2, <3>2, <4>1, DroppedIsPast
        <4>3. k[2].exp <= (redis[k] + 1) * MsTicks
          BY <2>3, <4>1 DEF EntriesOutliveTokens, Genuine, Validates
        <4>4. (redis[k] + 1) * MsTicks \in Nat
          BY <4>1, MsTicksAssumption
        <4>5. k[2].exp <= now'
          BY <1>1, <1>2, <2>1, <4>2, <4>3, <4>4
        <4>6. QED
          BY <1>1, <1>2, <2>1, <4>5 DEF Spent, Validates
      <3>3. QED
        BY <3>1, <3>2
    <2>4. QED
      BY <2>2, <2>3 DEF Spent
  <1>4. CASE now' = now /\ redis' = redis
    BY <1>4 DEF Spent
  <1>5. ASSUME now' = now, NEW key, NEW d, redis' = Put(redis, key, d)
        PROVE  Spent(k)'
    BY <1>5 DEF Spent, Put
  <1>6. QED
    BY <1>3, <1>4, <1>5, StoreSteps

\* The key arithmetic at work: whatever ttl BlacklistService.Add computed, and
\* however late the SET arrives, the entry covers the rest of the token's life.
LEMMA EntriesStep ==
  ASSUME IInv, [Next]_vars
  PROVE  EntriesOutliveTokens'
  <1>1. now \in Nat /\ TypeOK
    BY DEF IInv, TypeOK
  <1>2. CASE Tick
    <2>1. /\ DOMAIN redis' \subseteq DOMAIN redis
          /\ \A k \in DOMAIN redis' : redis'[k] = redis[k]
      BY <1>2 DEF Tick, Purge, Restrict
    <2>2. QED
      BY <2>1 DEF IInv, EntriesOutliveTokens
  <1>3. CASE redis' = redis
    BY <1>3 DEF IInv, EntriesOutliveTokens
  <1>4. ASSUME NEW p \in Procs, NEW s \in TokenTypes, StoreEntry(p, s),
               redis' = Put(redis, KeyOf(req[p], s),
                            DeadlineOf(req[p].ttl[s], now))
        PROVE  EntriesOutliveTokens'
    <2> DEFINE key == KeyOf(req[p], s)
               tok == req[p].shown[s]
               ttl == req[p].ttl[s]
    <2>1. ttl \in Nat /\ ttl > 0 /\ tok \in Presentable
          /\ (tok.kind = s => tok.exp <= now + ttl)
      BY <1>1, <1>4 DEF IInv, RequestSafe, StoreEntry, TypeOK, Requests,
         RequestRecords
    <2>2. ASSUME Genuine(key)
          PROVE  tok.exp <= (DeadlineOf(ttl, now) + 1) * MsTicks
      <3>1. tok.kind = s
        BY <2>2 DEF Genuine, KeyOf, BlacklistKey
      <3>2. PICK n \in Nat : tok.exp = n * MsTicks
        BY <2>1, <3>1, GenuineSeconds, SecondsAreMillis
      <3>3. QED
        BY <1>1, <2>1, <3>1, <3>2, DeadlineCovers
    <2>3. key[2] = tok
      BY DEF KeyOf, BlacklistKey
    <2> HIDE DEF key, tok, ttl
    <2>4. redis' = Put(redis, key, DeadlineOf(ttl, now))
      BY <1>4 DEF key, ttl
    <2>5. ASSUME NEW k \in DOMAIN redis', Genuine(k), redis'[k] # NoExpiry
          PROVE  k[2].exp <= (redis'[k] + 1) * MsTicks
      <3>1. CASE k = key
        BY <2>2, <2>3, <2>4, <2>5, <3>1 DEF Put
      <3>2. CASE k # key
        BY <2>4, <2>5, <3>2 DEF Put, IInv, EntriesOutliveTokens
      <3>3. QED
        BY <3>1, <3>2
    <2>6. QED
      BY <2>5 DEF EntriesOutliveTokens, Genuine
  <1>5. QED
    BY <1>2, <1>3, <1>4, StoreSteps

LEMMA RetiredStep ==
  ASSUME IInv, [Next]_vars
  PROVE  RetiredKeysSpent'
  <1>1. TypeOK /\ EntriesOutliveTokens /\ RetiredKeysSpent
    BY DEF IInv
  <1>2. ASSUME NEW k \in retired
        PROVE  Spent(k)'
    BY <1>1, <1>2, SpentForever DEF RetiredKeysSpent, TypeOK
  <1>3. ASSUME NEW k \in retired' \ retired
        PROVE  Spent(k)'
    <2>1. PICK p \in Procs, s \in TokenTypes :
            /\ k = KeyOf(req[p], s)
            /\ req[p].at = "revoking" /\ req[p].slot[s] = "done"
            /\ req[p].egErr = "nil"
      <3>1. ASSUME NEW p \in Procs, Arrive(p)
            PROVE  retired' = retired
        BY <3>1 DEF Arrive, StartLogin, StartGuard, StartRefresh, StartLogout,
           GuardBadHeader, LoginBadRequest, RefreshNoCookie, LogoutMissing
      <3>2. ASSUME NEW p \in Procs, Serve(p), ~FinishRefresh(p), ~FinishLogout(p)
            PROVE  retired' = retired
        BY <3>2 DEF Serve, FindUser, LoginSignAccess, LoginSignRefresh,
           IsTokenBlacklisted, ValidateAccessToken, ValidateRefreshToken,
           Generate, CheckGenerated, AwaitGenerated, ParseTokenClaims,
           CalculateTtl, StoreEntry, Deliver
      <3>3. PICK p \in Procs : FinishRefresh(p) \/ FinishLogout(p)
        BY <1>3, <3>1, <3>2 DEF Next, Tick, vars
      <3>4. QED
        BY <1>3, <3>3 DEF FinishRefresh, FinishLogout, TokenTypes
    <2>2. Spent(k)
      BY <2>1 DEF IInv, RequestSafe
    <2>3. k \in TokenTypes \X Presentable
      BY <1>1, <2>1, KeyType DEF TypeOK
    <2>4. QED
      BY <1>1, <2>2, <2>3, SpentForever
  <1>4. QED
    BY <1>2, <1>3 DEF RetiredKeysSpent

\* What a request has established survives the steps of the others.
LEMMA SafeStable ==
  ASSUME IInv, [Next]_vars, NEW q \in Procs, req'[q] = req[q]
  PROVE  RequestSafe(req[q])'
  <1> DEFINE r == req[q]
  <1>1. TypeOK /\ EntriesOutliveTokens /\ r \in Requests /\ RequestSafe(r)
    BY DEF IInv, TypeOK
  <1>2. now \in Nat /\ now' \in Nat /\ now <= now'
    BY StoreSteps DEF IInv, TypeOK, Tick
  <1>3. \A s \in TokenTypes : Spent(KeyOf(r, s)) => Spent(KeyOf(r, s))'
    <2> SUFFICES ASSUME NEW s \in TokenTypes, Spent(KeyOf(r, s))
                 PROVE  Spent(KeyOf(r, s))'
      OBVIOUS
    <2>1. KeyOf(r, s) \in TokenTypes \X Presentable
      BY <1>1, KeyType
    <2>2. PICK k \in TokenTypes \X Presentable : k = KeyOf(r, s)
      BY <2>1
    <2>3. Spent(k)'
      BY <1>1, <2>2, SpentForever
    <2>4. k = KeyOf(r, s)'
      BY <2>2 DEF KeyOf
    <2>5. QED
      BY <2>3, <2>4 DEF Spent
  <1>4. ASSUME NEW s \in TokenTypes, r.at = "revoking", r.slot[s] = "store"
        PROVE  /\ r.ttl[s] > 0
               /\ r.shown[s].kind = s => r.shown[s].exp <= now' + r.ttl[s]
    <2>1. r.ttl[s] \in Nat /\ r.shown[s] \in Presentable
      BY <1>1 DEF Requests, RequestRecords
    <2>2. r.shown[s].exp \in Nat
      BY <2>1, PresentableFields
    <2>3. r.ttl[s] > 0 /\ (r.shown[s].kind = s => r.shown[s].exp <= now + r.ttl[s])
      BY <1>1, <1>4 DEF RequestSafe
    <2>4. QED
      BY <1>2, <2>1, <2>2, <2>3
  <1>5. ASSUME ~Validates(r.shown[Checked(r)], Checked(r), now)
        PROVE  ~Validates(r.shown[Checked(r)], Checked(r), now')
    <2>1. r.shown[Checked(r)] \in Presentable
      BY <1>1 DEF Requests, RequestRecords, Checked, TokenTypes
    <2>2. r.shown[Checked(r)].exp \in Nat
      BY <2>1, PresentableFields
    <2>3. QED
      BY <1>2, <1>5, <2>2 DEF Validates
  <1>6. Checked(r) \in TokenTypes
    BY DEF Checked, TokenTypes
  <1>7. req[q]' = r /\ KeyOf(r, Checked(r)) = KeyOf(req[q], Checked(req[q]))
    OBVIOUS
  <1>8. QED
    BY <1>1, <1>3, <1>4, <1>5, <1>6, <1>7 DEF RequestSafe, Spent, KeyOf, Checked,
       BlacklistKey

LEMMA BecomeValue ==
  ASSUME TypeOK, NEW p \in Procs, NEW r, Become(p, r)
  PROVE  /\ req'[p] = r
         /\ \A q \in Procs \ {p} : req'[q] = req[q]
  BY DEF TypeOK, Become

LEMMA ReplySafe ==
  ASSUME NEW r, NEW e, NEW a, NEW c, r.late => e # "nil"
  PROVE  RequestSafe(Reply(r, e, a, c))
  BY DEF RequestSafe, Reply, Idle

LEMMA FailSafe ==
  ASSUME NEW r, NEW e, e # "nil"
  PROVE  RequestSafe(Fail(r, e))
  BY ReplySafe DEF Fail

LEMMA IdleSafe == RequestSafe(Idle)
  BY DEF RequestSafe, Idle

\* A request arrives with nothing established but whether its key is spent.
LEMMA ArriveSafe ==
  ASSUME IInv, NEW p \in Procs, Arrive(p)
  PROVE  /\ RequestSafe(req[p])'
         /\ \A q \in Procs \ {p} : req'[q] = req[q]
  <1> DEFINE Goal == /\ UNCHANGED <<now, redis>>
                     /\ RequestSafe(req'[p])
                     /\ \A q \in Procs \ {p} : req'[q] = req[q]
  <1>1. TypeOK
    BY DEF IInv
  <1>2. SUFFICES Goal
    BY DEF RequestSafe, Spent
  <1>3. ASSUME NEW u \in Users, StartLogin(p, u)
        PROVE  Goal
    <2> DEFINE x == [Idle EXCEPT !.op = "login", !.at = "findUser", !.who = u,
                                 !.jti = serial + 1]
    <2>1. RequestSafe(x)
      BY DEF RequestSafe, Idle
    <2>2. QED
      BY <1>1, <1>3, <2>1, BecomeValue DEF StartLogin
  <1>4. ASSUME NEW t \in Strings("access"), StartGuard(p, t)
        PROVE  Goal
    <2> DEFINE x == [Arrival("guard", t, Missing) EXCEPT !.at = "lookup"]
    <2>1. RequestSafe(x)
      BY DEF RequestSafe, Arrival, Idle, Checked, KeyOf, TokenTypes
    <2>2. QED
      BY <1>1, <1>4, <2>1, BecomeValue DEF StartGuard
  <1>5. ASSUME NEW t \in Strings("refresh"), StartRefresh(p, t)
        PROVE  Goal
    <2> DEFINE x == [Arrival("refresh", Missing, t) EXCEPT !.at = "lookup",
                                                           !.jti = serial + 1]
    <2>1. RequestSafe(x)
      BY DEF RequestSafe, Arrival, Idle, Checked, KeyOf, TokenTypes
    <2>2. QED
      BY <1>1, <1>5, <2>1, BecomeValue DEF StartRefresh
  <1>6. ASSUME NEW a \in Strings("access"), NEW r \in Strings("refresh"),
               StartLogout(p, a, r)
        PROVE  Goal
    <2> DEFINE x == [Arrival("logout", a, r) EXCEPT
                       !.at = "revoking", !.slot = [s \in TokenTypes |-> "parse"]]
    <2>1. RequestSafe(x)
      BY DEF RequestSafe, Arrival, Idle, TokenTypes
    <2>2. QED
      BY <1>1, <1>6, <2>1, BecomeValue DEF StartLogout
  <1>7. ASSUME NEW e \in HeaderErrors, GuardBadHeader(p, e)
        PROVE  Goal
    <2>1. e # "nil"
      BY DEF HeaderErrors
    <2>2. RequestSafe(Reply(Arrival("guard", Missing, Missing), e, Missing, Kept))
      BY <2>1, ReplySafe
    <2>3. QED
      BY <1>1, <1>7, <2>2, BecomeValue DEF GuardBadHeader
  <1>8. ASSUME LoginBadRequest(p) \/ RefreshNoCookie(p) \/ LogoutMissing(p)
        PROVE  Goal
    <2>1. \A o \in {"login", "refresh", "logout"},
              e \in {"ErrBadRequest", "ErrUnauthorized"} :
            RequestSafe(Reply(Arrival(o, Missing, Missing), e, Missing, Kept))
      BY ReplySafe
    <2>2. QED
      BY <1>1, <1>8, <2>1, BecomeValue DEF LoginBadRequest, RefreshNoCookie,
         LogoutMissing
  <1>9. QED
    BY <1>3, <1>4, <1>5, <1>6, <1>7, <1>8 DEF Arrive

\* Each step of a handler establishes what the next one relies on.
LEMMA ServeSafe ==
  ASSUME IInv, NEW p \in Procs, Serve(p)
  PROVE  /\ RequestSafe(req[p])'
         /\ \A q \in Procs \ {p} : req'[q] = req[q]
  <1> DEFINE r == req[p]
             Others == \A q \in Procs \ {p} : req'[q] = req[q]
             Goal == /\ UNCHANGED <<now, redis>>
                     /\ RequestSafe(req'[p])
                     /\ Others
  <1>1. TypeOK /\ RequestSafe(r) /\ r \in Requests
    BY DEF IInv, TypeOK
  <1>2. ASSUME Goal
        PROVE  RequestSafe(req[p])' /\ Others
    BY <1>2 DEF RequestSafe, Spent
  <1>3. \A e : e # "nil" => RequestSafe(Fail(r, e))
    BY FailSafe
  <1> HIDE DEF r
  <1>4. ASSUME FindUser(p)
        PROVE  Goal
    <2>1. RequestSafe([r EXCEPT !.at = "signAccess"])
      BY <1>1, <1>4 DEF FindUser, RequestSafe, Requests, RequestRecords, r
    <2>2. QED
      BY <1>1, <1>3, <1>4, <2>1, BecomeValue DEF FindUser, r
  <1>5. ASSUME LoginSignAccess(p)
        PROVE  Goal
    <2> DEFINE x == [r EXCEPT !.at = "signRefresh",
                              !.made["access"] = GenerateToken("access", r.who, now, 0)]
    <2>1. RequestSafe(x)
      BY <1>1, <1>5 DEF LoginSignAccess, RequestSafe, Requests, RequestRecords, r
    <2>2. RequestSafe(Fail(r, GenerationError("access")))
      BY <1>3 DEF GenerationError
    <2>3. QED
      BY <1>1, <1>5, <2>1, <2>2, BecomeValue DEF LoginSignAccess, r
  <1>6. ASSUME LoginSignRefresh(p)
        PROVE  Goal
    <2>1. ~r.late
      BY <1>1, <1>6 DEF LoginSignRefresh, RequestSafe, r
    <2>2. \A a, c : RequestSafe(Reply(r, "nil", a, c))
      BY <2>1, ReplySafe
    <2>3. QED
      BY <1>1, <1>3, <1>6, <2>2, BecomeValue
      DEF LoginSignRefresh, GenerationError, r
  <1>7. ASSUME IsTokenBlacklisted(p)
        PROVE  Goal
    <2> DEFINE key == KeyOf(r, Checked(r))
    <2>1. ASSUME key \notin DOMAIN redis
          PROVE  RequestSafe([r EXCEPT !.at = "validate"])
      <3>1. r.late => ~Validates(r.shown[Checked(r)], Checked(r), now)
        BY <1>1, <1>7, <2>1 DEF IsTokenBlacklisted, RequestSafe, Spent, KeyOf,
           BlacklistKey, r
      <3>2. QED
        BY <1>1, <3>1 DEF RequestSafe, Requests, RequestRecords, Checked
    <2>2. QED
      BY <1>1, <1>3, <1>7, <2>1, BecomeValue DEF IsTokenBlacklisted, r
  <1>8. ASSUME ValidateAccessToken(p)
        PROVE  Goal
    <2>1. ASSUME Validates(r.shown["access"], "access", now)
          PROVE  RequestSafe(Reply(r, "nil", Missing, Kept))
      <3>1. ~r.late
        BY <1>1, <1>8, <2>1 DEF ValidateAccessToken, RequestSafe, Checked, r
      <3>2. QED
        BY <3>1, ReplySafe
    <2>2. QED
      BY <1>1, <1>3, <1>8, <2>1, BecomeValue DEF ValidateAccessToken, r
  <1>9. ASSUME ValidateRefreshToken(p)
        PROVE  Goal
    <2> DEFINE x == [r EXCEPT !.at = "generating",
                              !.who = r.shown["refresh"].uuid,
                              !.slot = [s \in TokenTypes |-> "sign"]]
    <2>1. ASSUME Validates(r.shown["refresh"], "refresh", now)
          PROVE  RequestSafe(x)
      <3>1. ~r.late
        BY <1>1, <1>9, <2>1 DEF ValidateRefreshToken, RequestSafe, Checked, r
      <3>2. QED
        BY <1>1, <3>1 DEF RequestSafe, Requests, RequestRecords
    <2>2. QED
      BY <1>1, <1>3, <1>9, <2>1, BecomeValue DEF ValidateRefreshToken, r
  <1>10. ASSUME NEW s \in TokenTypes, Generate(p, s)
         PROVE  Goal
    <2>1. ~r.late /\ r.at = "generating"
      BY <1>1, <1>10 DEF Generate, RequestSafe, r
    <2>2. RequestSafe([r EXCEPT !.slot[s] = "check", !.err = "nil",
                                !.made[s] = GenerateToken(s, r.who, now, r.jti)])
      BY <1>1, <2>1 DEF RequestSafe, Requests, RequestRecords
    <2>3. RequestSafe([r EXCEPT !.slot[s] = "check", !.err = GenerationError(s)])
      BY <1>1, <2>1 DEF RequestSafe, Requests, RequestRecords
    <2>4. QED
      BY <1>1, <1>10, <2>2, <2>3, BecomeValue DEF Generate, r
  <1>11. ASSUME NEW s \in TokenTypes, CheckGenerated(p, s)
         PROVE  Goal
    <2> DEFINE e == IF r.egErr = "nil" /\ r.err # "nil" THEN GenerationError(s)
                                                        ELSE r.egErr
    <2>1. ~r.late /\ r.at = "generating"
      BY <1>1, <1>11 DEF CheckGenerated, RequestSafe, r
    <2>2. RequestSafe([r EXCEPT !.slot[s] = "done", !.egErr = e])
      BY <1>1, <2>1 DEF RequestSafe, Requests, RequestRecords
    <2>3. QED
      BY <1>1, <1>11, <2>2, BecomeValue DEF CheckGenerated, r
  <1>12. ASSUME AwaitGenerated(p)
         PROVE  Goal
    <2> DEFINE x == [r EXCEPT !.at = "revoking", !.slot["access"] = "off",
                              !.slot["refresh"] = "parse"]
    <2>1. ~r.late
      BY <1>1, <1>12 DEF AwaitGenerated, RequestSafe, r
    <2>2. RequestSafe(x)
      BY <1>1, <2>1 DEF RequestSafe, Requests, RequestRecords, TokenTypes
    <2>3. QED
      BY <1>1, <1>3, <1>12, <2>2, BecomeValue DEF AwaitGenerated, r
  <1>13. ASSUME FinishRefresh(p) \/ FinishLogout(p)
         PROVE  Goal
    <2>1. ~r.late
      BY <1>1, <1>13 DEF FinishRefresh, FinishLogout, RequestSafe, r
    <2>2. \A e, a, c : RequestSafe(Reply(r, e, a, c))
      BY <2>1, ReplySafe
    <2>3. QED
      BY <1>1, <1>3, <1>13, <2>2, BecomeValue DEF FinishRefresh, FinishLogout, r
  <1>14. ASSUME NEW s \in TokenTypes, ParseTokenClaims(p, s)
         PROVE  Goal
    <2>1. ~r.late /\ r.at = "revoking" /\ r.shown[s] \in Presentable
      BY <1>1, <1>14 DEF ParseTokenClaims, RequestSafe, Requests, RequestRecords, r
    <2>2. RequestSafe([r EXCEPT !.slot[s] = "ttl"])
      BY <1>1, <2>1 DEF RequestSafe, Requests, RequestRecords, KeyOf
    <2>3. ASSUME ~Validates(r.shown[s], s, now)
          PROVE  RequestSafe([r EXCEPT !.slot[s] = "store", !.ttl[s] = FallbackTtl])
      <3>1. r.shown[s].kind = s => r.shown[s].exp <= now + FallbackTtl
        BY <1>1, <2>1, <2>3, PresentableFields, AuthAssumption DEF Validates, TypeOK
      <3>2. QED
        BY <1>1, <2>1, <3>1, AuthAssumption DEF RequestSafe, Requests,
           RequestRecords, KeyOf
    <2>4. QED
      BY <1>1, <1>14, <2>2, <2>3, BecomeValue DEF ParseTokenClaims, r
  <1>15. ASSUME NEW s \in TokenTypes, CalculateTtl(p, s)
         PROVE  Goal
    <2> DEFINE ttl == r.shown[s].exp - now
    <2>1. ~r.late /\ r.at = "revoking" /\ r.shown[s].exp \in Nat /\ now \in Nat
      BY <1>1, <1>15, PresentableFields DEF CalculateTtl, RequestSafe, Requests,
         RequestRecords, TypeOK, r
    <2>2. ttl \in Int /\ r.shown[s].exp <= now + ttl
      BY <2>1
    <2>3. ASSUME ttl <= 0
          PROVE  RequestSafe([r EXCEPT !.slot[s] = "done"])
      <3>1. Spent(KeyOf(r, s))
        BY <2>1, <2>3 DEF Spent, KeyOf, BlacklistKey, Validates
      <3>2. QED
        BY <1>1, <2>1, <3>1 DEF RequestSafe, Requests, RequestRecords, KeyOf
    <2>4. ASSUME ttl > 0
          PROVE  RequestSafe([r EXCEPT !.slot[s] = "store", !.ttl[s] = ttl])
      BY <1>1, <2>1, <2>2, <2>4 DEF RequestSafe, Requests, RequestRecords, KeyOf
    <2>5. QED
      BY <1>1, <1>15, <2>3, <2>4, BecomeValue DEF CalculateTtl, r
  <1>16. ASSUME NEW s \in TokenTypes, StoreEntry(p, s)
         PROVE  RequestSafe(req[p])' /\ Others
    <2>1. ~r.late /\ r.at = "revoking"
      BY <1>1, <1>16 DEF StoreEntry, RequestSafe, r
    <2>2. now' = now /\ DOMAIN redis \subseteq DOMAIN redis'
      BY <1>16 DEF StoreEntry, Put
    <2>3. \A k : Spent(k) => Spent(k)'
      BY <2>2 DEF Spent
    <2>4. CASE /\ redis' = Put(redis, KeyOf(r, s), DeadlineOf(r.ttl[s], now))
               /\ Become(p, [r EXCEPT !.slot[s] = "done"])
      <3> DEFINE x == [r EXCEPT !.slot[s] = "done"]
      <3>1. req'[p] = x /\ Others
        BY <1>1, <2>4, BecomeValue
      <3>2. KeyOf(r, s) \in DOMAIN redis'
        BY <2>4 DEF Put
      <3>3. QED
        BY <1>1, <2>1, <2>2, <2>3, <3>1, <3>2 DEF RequestSafe, Requests,
           RequestRecords, KeyOf, Spent, BlacklistKey
    <2>5. CASE Become(p, [r EXCEPT !.slot[s] = "done",
                                   !.egErr = IF r.egErr = "nil" THEN "ErrRedisSet"
                                                                ELSE r.egErr])
      <3> DEFINE x == [r EXCEPT !.slot[s] = "done",
                                !.egErr = IF r.egErr = "nil" THEN "ErrRedisSet"
                                                             ELSE r.egErr]
      <3>1. req'[p] = x /\ Others
        BY <1>1, <2>5, BecomeValue
      <3>2. QED
        BY <1>1, <2>1, <2>2, <3>1 DEF RequestSafe, Requests, RequestRecords
    <2>6. QED
      BY <1>16, <2>4, <2>5 DEF StoreEntry, r
  <1>17. ASSUME Deliver(p)
         PROVE  Goal
    BY <1>1, <1>17, IdleSafe, BecomeValue DEF Deliver
  <1>18. QED
    BY <1>2, <1>4, <1>5, <1>6, <1>7, <1>8, <1>9, <1>10, <1>11, <1>12, <1>13,
       <1>14, <1>15, <1>16, <1>17 DEF Serve

LEMMA InvariantStep ==
  ASSUME IInv, [Next]_vars
  PROVE  IInv'
  <1>1. TypeOK'
    BY TickType, ArriveType, ServeType DEF IInv, Next, vars, TypeOK
  <1>2. EntriesOutliveTokens' /\ RetiredKeysSpent'
    BY EntriesStep, RetiredStep
  <1>3. ASSUME NEW q \in Procs
        PROVE  RequestSafe(req[q])'
    <2>1. CASE req'[q] = req[q]
      BY <2>1, SafeStable
    <2>2. ASSUME NEW p \in Procs, Arrive(p) \/ Serve(p)
          PROVE  RequestSafe(req[q])'
      BY <2>1, <2>2, ArriveSafe, ServeSafe
    <2>3. CASE Tick \/ UNCHANGED vars
      BY <2>1, <2>3 DEF Tick, vars
    <2>4. QED
      BY <2>2, <2>3 DEF Next
  <1>4. QED
    BY <1>1, <1>2, <1>3 DEF IInv

\* The inductive invariant holds in every reachable state.
THEOREM Invariance == Spec => []IInv
  <1>1. Init => IInv
    <2> SUFFICES ASSUME Init
                 PROVE  IInv
      OBVIOUS
    <2>1. TypeOK
      BY IdleType DEF Init, TypeOK, EmptyStore
    <2>2. \A p \in Procs : RequestSafe(req[p])
      BY IdleSafe DEF Init
    <2>3. QED
      BY <2>1, <2>2 DEF IInv, Init, EmptyStore, EntriesOutliveTokens,
         RetiredKeysSpent
  <1>2. IInv /\ [Next]_vars => IInv'
    BY InvariantStep
  <1>3. QED
    BY <1>1, <1>2, PTL DEF Spec

\* After a logout or an exchange is answered with success, its tokens stay
\* listed until they expire.
THEOREM RetiredTokensStaySpent == Spec => []RetiredKeysSpent
  <1>1. IInv => RetiredKeysSpent
    BY DEF IInv
  <1>2. QED
    BY <1>1, Invariance, PTL

\* A token that is listed or expired when a request arrives with it admits
\* that request to nothing.
THEOREM SpentTokensRefused == Spec => []NoLateAdmission
  <1>1. IInv => NoLateAdmission
    BY DEF IInv, NoLateAdmission, Succeeded, Answered, RequestSafe
  <1>2. QED
    BY <1>1, Invariance, PTL

\* No entry of the blacklist is dropped before its token has expired, whatever
\* the precision of the clock and the delay of the SET.
THEOREM EntriesCoverTokens == Spec => []EntriesOutliveTokens
  <1>1. IInv => EntriesOutliveTokens
    BY DEF IInv
  <1>2. QED
    BY <1>1, Invariance, PTL

-----------------------------------------------------------------------------
(* What a step does to the values a request carries                         *)

\* The token that signing for the request r yields now.
Signed(r, s) == GenerateToken(s, r.who, now, r.jti)

\* A handler makes a request of r into x: tokens and IDs are only moved or
\* signed, never made up, and a TTL about to be sent was there before, is the
\* default, or is the rest of the token's life.
Carries(r, x) ==
  /\ \A s \in TokenTypes :
       /\ x.shown[s] \in {r.shown[s], Missing}
       /\ x.made[s] \in {r.made[s], Missing, Signed(r, s)}
       /\ x.at = "revoking" /\ x.slot[s] = "store" =>
            \/ r.at = "revoking" /\ r.slot[s] = "store" /\ x.ttl[s] = r.ttl[s]
            \/ x.ttl[s] = FallbackTtl
            \/ x.ttl[s] = r.shown[s].exp - now
  /\ x.jti \in {r.jti, 0}
  /\ x.resp.access \in {r.resp.access, Missing, r.made["access"]}
  /\ x.resp.cookie \in {r.resp.cookie, Kept, Cleared, r.made["refresh"],
                        Signed(r, "refresh")}

LEMMA ReplyCarries ==
  ASSUME NEW r, NEW e, NEW a \in {Missing, r.made["access"]},
         NEW c \in {Kept, Cleared, r.made["refresh"], Signed(r, "refresh")}
  PROVE  Carries(r, Reply(r, e, a, c))
  <1> DEFINE x == Reply(r, e, a, c)
  <1>1. /\ x.shown = r.shown /\ x.jti = 0 /\ x.at = "replied"
        /\ x.made = [s \in TokenTypes |-> Missing]
        /\ x.resp.access = a /\ x.resp.cookie = c
    BY DEF Reply, Idle
  <1> HIDE DEF x
  <1>2. Carries(r, x)
    BY <1>1 DEF Carries
  <1>3. QED
    BY <1>2 DEF x

LEMMA FailCarries ==
  ASSUME NEW r, NEW e
  PROVE  Carries(r, Fail(r, e))
  BY ReplyCarries DEF Fail

LEMMA IdleCarries ==
  ASSUME NEW r
  PROVE  Carries(r, Idle)
  BY DEF Carries, Idle, NoResponse

\* The tokens that delivering a response hands out.
Delivered(r) == {r.resp.access, r.resp.cookie} \ {Missing, Kept, Cleared}

LEMMA ServeCarries ==
  ASSUME TypeOK, NEW p \in Procs, Serve(p)
  PROVE  /\ Carries(req[p], req'[p])
         /\ \A q \in Procs \ {p} : req'[q] = req[q]
         /\ serial' = serial
         /\ \/ handed' = handed
            \/ req'[p] = Idle /\ handed' = handed \cup Delivered(req[p])
  <1> DEFINE r == req[p]
             Same == serial' = serial /\ handed' = handed
             Others == \A q \in Procs \ {p} : req'[q] = req[q]
             Goal == Carries(r, req'[p]) /\ Others /\ Same
  <1>1. r \in Requests
    BY DEF TypeOK
  <1>2. \A x : Become(p, x) => req'[p] = x /\ Others
    BY BecomeValue
  <1>3. \A e : Carries(r, Fail(r, e))
    BY FailCarries
  <1> HIDE DEF r
  <1>4. ASSUME FindUser(p)
        PROVE  Goal
    <2>1. r.at = "findUser" /\ Same
      BY <1>4 DEF FindUser, r
    <2>2. Carries(r, [r EXCEPT !.at = "signAccess"])
      BY <1>1 DEF Carries, Requests, RequestRecords
    <2>3. QED
      BY <1>2, <1>3, <1>4, <2>1, <2>2 DEF FindUser, r
  <1>5. ASSUME LoginSignAccess(p)
        PROVE  Goal
    <2> DEFINE x == [r EXCEPT !.at = "signRefresh",
                              !.made["access"] = GenerateToken("access", r.who, now, 0)]
    <2>1. GenerateToken("access", r.who, now, 0) = Signed(r, "access")
      BY DEF GenerateToken, Signed
    <2>2. Carries(r, x)
      BY <1>1, <2>1 DEF Carries, Requests, RequestRecords
    <2>3. QED
      BY <1>2, <1>3, <1>5, <2>2 DEF LoginSignAccess, r
  <1>6. ASSUME LoginSignRefresh(p)
        PROVE  Goal
    <2>1. Carries(r, Reply(r, "nil", r.made["access"], Signed(r, "refresh")))
      BY ReplyCarries
    <2>2. QED
      BY <1>2, <1>3, <1>6, <2>1 DEF LoginSignRefresh, Signed, r
  <1>7. ASSUME IsTokenBlacklisted(p)
        PROVE  Goal
    <2>1. Carries(r, [r EXCEPT !.at = "validate"])
      BY <1>1 DEF Carries, Requests, RequestRecords
    <2>2. QED
      BY <1>2, <1>3, <1>7, <2>1 DEF IsTokenBlacklisted, r
  <1>8. ASSUME ValidateAccessToken(p)
        PROVE  Goal
    <2>1. Carries(r, Reply(r, "nil", Missing, Kept))
      BY ReplyCarries
    <2>2. QED
      BY <1>2, <1>3, <1>8, <2>1 DEF ValidateAccessToken, r
  <1>9. ASSUME ValidateRefreshToken(p)
        PROVE  Goal
    <2>1. Carries(r, [r EXCEPT !.at = "generating",
                               !.who = r.shown["refresh"].uuid,
                               !.slot = [s \in TokenTypes |-> "sign"]])
      BY <1>1 DEF Carries, Requests, RequestRecords
    <2>2. QED
      BY <1>2, <1>3, <1>9, <2>1 DEF ValidateRefreshToken, r
  <1>10. ASSUME NEW s \in TokenTypes, Generate(p, s)
         PROVE  Goal
    <2>1. r.at = "generating" /\ Same
      BY <1>10 DEF Generate, r
    <2>2. Carries(r, [r EXCEPT !.slot[s] = "check", !.err = "nil",
                               !.made[s] = Signed(r, s)])
      BY <1>1, <2>1 DEF Carries, Requests, RequestRecords
    <2>3. Carries(r, [r EXCEPT !.slot[s] = "check", !.err = GenerationError(s)])
      BY <1>1, <2>1 DEF Carries, Requests, RequestRecords
    <2>4. QED
      BY <1>2, <1>10, <2>1, <2>2, <2>3 DEF Generate, Signed, r
  <1>11. ASSUME NEW s \in TokenTypes, CheckGenerated(p, s)
         PROVE  Goal
    <2> DEFINE e == IF r.egErr = "nil" /\ r.err # "nil" THEN GenerationError(s)
                                                        ELSE r.egErr
    <2>1. Carries(r, [r EXCEPT !.slot[s] = "done", !.egErr = e])
      BY <1>1 DEF Carries, Requests, RequestRecords
    <2>2. QED
      BY <1>2, <1>11, <2>1 DEF CheckGenerated, r
  <1>12. ASSUME AwaitGenerated(p)
         PROVE  Goal
    <2>1. Carries(r, [r EXCEPT !.at = "revoking", !.slot["access"] = "off",
                               !.slot["refresh"] = "parse"])
      BY <1>1 DEF Carries, Requests, RequestRecords, TokenTypes
    <2>2. QED
      BY <1>2, <1>3, <1>12, <2>1 DEF AwaitGenerated, r
  <1>13. ASSUME FinishRefresh(p) \/ FinishLogout(p)
         PROVE  Goal
    <2>1. Carries(r, Reply(r, "nil", r.made["access"], r.made["refresh"]))
      BY ReplyCarries
    <2>2. Carries(r, Reply(r, "nil", Missing, Cleared))
      BY ReplyCarries
    <2>3. QED
      BY <1>2, <1>3, <1>13, <2>1, <2>2 DEF FinishRefresh, FinishLogout, r
  <1>14. ASSUME NEW s \in TokenTypes, ParseTokenClaims(p, s)
         PROVE  Goal
    <2>1. Carries(r, [r EXCEPT !.slot[s] = "ttl"])
      BY <1>1 DEF Carries, Requests, RequestRecords
    <2>2. Carries(r, [r EXCEPT !.slot[s] = "store", !.ttl[s] = FallbackTtl])
      BY <1>1 DEF Carries, Requests, RequestRecords
    <2>3. QED
      BY <1>2, <1>14, <2>1, <2>2 DEF ParseTokenClaims, r
  <1>15. ASSUME NEW s \in TokenTypes, CalculateTtl(p, s)
         PROVE  Goal
    <2>1. Carries(r, [r EXCEPT !.slot[s] = "done"])
      BY <1>1 DEF Carries, Requests, RequestRecords
    <2>2. Carries(r, [r EXCEPT !.slot[s] = "store",
                               !.ttl[s] = r.shown[s].exp - now])
      BY <1>1 DEF Carries, Requests, RequestRecords
    <2>3. QED
      BY <1>2, <1>15, <2>1, <2>2 DEF CalculateTtl, r
  <1>16. ASSUME NEW s \in TokenTypes, StoreEntry(p, s)
         PROVE  Goal
    <2> DEFINE e == IF r.egErr = "nil" THEN "ErrRedisSet" ELSE r.egErr
    <2>1. Carries(r, [r EXCEPT !.slot[s] = "done"])
      BY <1>1 DEF Carries, Requests, RequestRecords
    <2>2. Carries(r, [r EXCEPT !.slot[s] = "done", !.egErr = e])
      BY <1>1 DEF Carries, Requests, RequestRecords
    <2>3. QED
      BY <1>2, <1>16, <2>1, <2>2 DEF StoreEntry, r
  <1>17. ASSUME Deliver(p)
         PROVE  /\ req'[p] = Idle /\ Others /\ serial' = serial
                /\ handed' = handed \cup Delivered(r)
    BY <1>2, <1>17 DEF Deliver, Delivered, r
  <1>18. QED
    BY <1>4, <1>5, <1>6, <1>7, <1>8, <1>9, <1>10, <1>11, <1>12, <1>13, <1>14,
       <1>15, <1>16, <1>17, IdleCarries DEF Serve, r

\* The strings a client can have: tokens it was given, and others.
Circulating == handed \cup {Garbage, Missing}

\* A request that has just arrived carries what the client showed, and perhaps
\* an ID that no request had before.
Fetches(x) ==
  /\ \A s \in TokenTypes :
       /\ x.shown[s] \in Circulating
       /\ x.made[s] = Missing
       /\ ~(x.at = "revoking" /\ x.slot[s] = "store")
  /\ x.jti \in {0, serial + 1}
  /\ x.resp.access = Missing /\ x.resp.cookie = Kept

LEMMA ArrivalFetches ==
  ASSUME NEW o, NEW a \in Circulating, NEW c \in Circulating
  PROVE  Fetches(Arrival(o, a, c))
  <1> DEFINE x == Arrival(o, a, c)
  <1>1. /\ x.shown = [s \in TokenTypes |-> IF s = "access" THEN a ELSE c]
        /\ x.made = [s \in TokenTypes |-> Missing]
        /\ x.at = "idle" /\ x.jti = 0 /\ x.resp = NoResponse
    BY DEF Arrival, Idle
  <1> HIDE DEF x
  <1>2. Fetches(x)
    BY <1>1 DEF Fetches, NoResponse
  <1>3. QED
    BY <1>2 DEF x

LEMMA ArriveFetches ==
  ASSUME TypeOK, NEW p \in Procs, Arrive(p)
  PROVE  /\ Fetches(req'[p])
         /\ \A q \in Procs \ {p} : req'[q] = req[q]
         /\ serial' = serial + 1
         /\ UNCHANGED <<now, redis, handed>>
  <1> DEFINE Goal == /\ Fetches(req'[p])
                     /\ \A q \in Procs \ {p} : req'[q] = req[q]
                     /\ UNCHANGED <<now, redis, handed>>
  <1>1. serial' = serial + 1
    BY DEF Arrive
  <1>2. \A s \in TokenTypes : Strings(s) \subseteq Circulating
    BY DEF Strings, Circulating
  <1>3. Missing \in Circulating
    BY DEF Circulating
  <1>4. \A x : Fetches(x) /\ Become(p, x) =>
          Fetches(req'[p]) /\ \A q \in Procs \ {p} : req'[q] = req[q]
    BY BecomeValue
  <1>5. ASSUME NEW u \in Users, StartLogin(p, u)
        PROVE  Goal
    <2>1. Fetches([Idle EXCEPT !.op = "login", !.at = "findUser", !.who = u,
                               !.jti = serial + 1])
      BY <1>3 DEF Fetches, Idle, NoResponse
    <2>2. QED
      BY <1>4, <1>5, <2>1 DEF StartLogin
  <1>6. ASSUME NEW t \in Strings("access"), StartGuard(p, t)
        PROVE  Goal
    <2> DEFINE y == Arrival("guard", t, Missing)
    <2>1. Fetches(y) /\ y \in Requests
      BY <1>2, <1>3, ArrivalFetches, ArrivalType, StringsType, PresentableType
      DEF TokenTypes, Ops
    <2> HIDE DEF y
    <2>2. Fetches([y EXCEPT !.at = "lookup"])
      BY <2>1 DEF Fetches, Requests, RequestRecords
    <2>3. QED
      BY <1>4, <1>6, <2>2 DEF StartGuard, y
  <1>7. ASSUME NEW t \in Strings("refresh"), StartRefresh(p, t)
        PROVE  Goal
    <2> DEFINE y == Arrival("refresh", Missing, t)
    <2>1. Fetches(y) /\ y \in Requests
      BY <1>2, <1>3, ArrivalFetches, ArrivalType, StringsType, PresentableType
      DEF TokenTypes, Ops
    <2> HIDE DEF y
    <2>2. Fetches([y EXCEPT !.at = "lookup", !.jti = serial + 1])
      BY <2>1 DEF Fetches, Requests, RequestRecords
    <2>3. QED
      BY <1>4, <1>7, <2>2 DEF StartRefresh, y
  <1>8. ASSUME NEW a \in Strings("access"), NEW r \in Strings("refresh"),
               StartLogout(p, a, r)
        PROVE  Goal
    <2> DEFINE y == Arrival("logout", a, r)
    <2>1. Fetches(y) /\ y \in Requests
      BY <1>2, ArrivalFetches, ArrivalType, StringsType DEF TokenTypes, Ops
    <2> HIDE DEF y
    <2>2. Fetches([y EXCEPT !.at = "revoking",
                            !.slot = [s \in TokenTypes |-> "parse"]])
      BY <2>1 DEF Fetches, Requests, RequestRecords
    <2>3. QED
      BY <1>4, <1>8, <2>2 DEF StartLogout, y
  <1>9. \A o, e : Fetches(Reply(Arrival(o, Missing, Missing), e, Missing, Kept))
    <2> SUFFICES ASSUME NEW o, NEW e
                 PROVE  Fetches(Reply(Arrival(o, Missing, Missing), e, Missing, Kept))
      OBVIOUS
    <2> DEFINE y == Arrival(o, Missing, Missing)
               x == Reply(y, e, Missing, Kept)
    <2>1. Fetches(y)
      BY <1>3, ArrivalFetches
    <2> HIDE DEF y
    <2>2. /\ x.shown = y.shown /\ x.jti = 0 /\ x.at = "replied"
          /\ x.made = [s \in TokenTypes |-> Missing]
          /\ x.resp.access = Missing /\ x.resp.cookie = Kept
      BY DEF Reply, Idle
    <2> HIDE DEF x
    <2>3. Fetches(x)
      BY <2>1, <2>2 DEF Fetches
    <2>4. QED
      BY <2>3 DEF x, y
  <1>10. ASSUME \/ \E e \in HeaderErrors : GuardBadHeader(p, e)
                \/ LoginBadRequest(p) \/ RefreshNoCookie(p) \/ LogoutMissing(p)
         PROVE  Goal
    BY <1>4, <1>9, <1>10 DEF GuardBadHeader, LoginBadRequest, RefreshNoCookie,
       LogoutMissing
  <1>11. QED
    BY <1>1, <1>5, <1>6, <1>7, <1>8, <1>10 DEF Arrive

-----------------------------------------------------------------------------
(* The blacklist does not fill up                                           *)

\* The longest lifetime is one of the three.
LEMMA LongestTtlType ==
  /\ LongestTtl \in Nat \ {0}
  /\ FallbackTtl <= LongestTtl
  /\ \A s \in TokenTypes : LifeOf(s) <= LongestTtl
  /\ MsTicks <= LongestTtl
  <1> DEFINE a == LifeOf("access")
             b == LifeOf("refresh")
  <1>1. a \in Nat \ {0} /\ b \in Nat \ {0} /\ FallbackTtl \in Nat \ {0}
    BY LifeType, AuthAssumption DEF TokenTypes
  <1>2. Lifetimes = {FallbackTtl, a, b}
    BY DEF Lifetimes, TokenTypes
  <1> HIDE DEF a, b
  <1>3. \E n \in Lifetimes : \A m \in Lifetimes : m <= n
    <2>1. CASE a <= FallbackTtl /\ b <= FallbackTtl
      BY <1>1, <1>2, <2>1
    <2>2. CASE FallbackTtl <= a /\ b <= a
      BY <1>1, <1>2, <2>2
    <2>3. CASE FallbackTtl <= b /\ a <= b
      BY <1>1, <1>2, <2>3
    <2>4. QED
      BY <1>1, <2>1, <2>2, <2>3
  <1>4. LongestTtl \in Lifetimes /\ \A m \in Lifetimes : m <= LongestTtl
    BY <1>3 DEF LongestTtl
  <1>5. MsTicks <= a
    <2>1. a = AccessSeconds * (MsPerSecond * MsTicks)
      BY DEF a, LifeOf, SecTicks
    <2>2. /\ AccessSeconds \in Nat /\ AccessSeconds >= 1
          /\ MsPerSecond \in Nat /\ MsPerSecond >= 1
          /\ MsTicks \in Nat
      BY AuthAssumption, MsTicksAssumption
    <2>3. MsPerSecond * MsTicks \in Nat /\ MsPerSecond * MsTicks >= MsTicks
      BY <2>2
    <2>4. AccessSeconds * (MsPerSecond * MsTicks) >= MsPerSecond * MsTicks
      BY <2>2, <2>3
    <2>5. QED
      BY <2>1, <2>2, <2>3, <2>4
  <1>6. MsTicks \in Nat
    BY MsTicksAssumption
  <1>7. \A s \in TokenTypes : LifeOf(s) \in Lifetimes
    BY DEF Lifetimes
  <1>8. QED
    BY <1>1, <1>2, <1>4, <1>5, <1>6, <1>7

\* Rounding down does not lengthen.
LEMMA NumericDateBelow ==
  ASSUME NEW t \in Nat
  PROVE  NumericDate(t) <= t
  <1>1. SecTicks * (t \div SecTicks) <= t /\ t \div SecTicks \in Nat
    BY SecTicksType, Division
  <1>2. (t \div SecTicks) * SecTicks = SecTicks * (t \div SecTicks)
    BY <1>1, SecTicksType
  <1>3. QED
    BY <1>1, <1>2 DEF NumericDate

LEMMA FactorBelow ==
  ASSUME NEW k \in Nat, NEW x \in Nat, NEW m \in Nat \ {0}, k * m < m * x
  PROVE  k < x
  OBVIOUS

\* A deadline lies no further ahead than the bound on its TTL, if that bound
\* is at least the one millisecond that go-redis rounds up to.
LEMMA DeadlineWithin ==
  ASSUME NEW t \in Nat, NEW ttl \in Nat, NEW l \in Nat,
         ttl > 0, ttl <= l, MsTicks <= l
  PROVE  /\ DeadlineOf(ttl, t) # NoExpiry
         /\ DeadlineOf(ttl, t) <= MillisOf(t + l)
  <1>1. MsTicks \in Nat \ {0}
    BY MsTicksAssumption
  <1>2. PICK a \in Nat : a = MillisOf(t) /\ MsTicks * a <= t
    BY <1>1, Division DEF MillisOf
  <1>3. PICK w \in Nat : w = WireTtl(ttl) /\ MsTicks * w <= l
    <2>1. MillisOf(ttl) \in Nat /\ MsTicks * MillisOf(ttl) <= ttl
      BY <1>1, Division DEF MillisOf
    <2>2. CASE ttl < MsTicks
      BY <1>1, <2>2 DEF WireTtl
    <2>3. CASE ~(ttl < MsTicks)
      BY <1>1, <2>1, <2>3 DEF WireTtl
    <2>4. QED
      BY <2>2, <2>3
  <1>4. PICK b \in Nat : b = MillisOf(t + l) /\ t + l < MsTicks * b + MsTicks
    BY <1>1, Division DEF MillisOf
  <1>5. (a + w) * MsTicks < MsTicks * (b + 1)
    BY <1>1, <1>2, <1>3, <1>4
  <1>6. a + w < b + 1
    BY <1>1, <1>5, FactorBelow
  <1>7. DeadlineOf(ttl, t) = a + w
    BY <1>2, <1>3 DEF DeadlineOf
  <1>8. QED
    BY <1>4, <1>6, <1>7 DEF NoExpiry

LEMMA MillisMonotone ==
  ASSUME NEW t \in Nat, NEW u \in Nat, t <= u
  PROVE  MillisOf(t) <= MillisOf(u)
  <1>1. MsTicks \in Nat \ {0}
    BY MsTicksAssumption
  <1>2. PICK a \in Nat : a = MillisOf(t) /\ MsTicks * a <= t
    BY <1>1, Division DEF MillisOf
  <1>3. PICK b \in Nat : b = MillisOf(u) /\ u < MsTicks * b + MsTicks
    BY <1>1, Division DEF MillisOf
  <1>4. a * MsTicks < MsTicks * (b + 1)
    BY <1>1, <1>2, <1>3
  <1>5. a < b + 1
    BY <1>1, <1>4, FactorBelow
  <1>6. QED
    BY <1>2, <1>3, <1>5

\* No token a request carries lives beyond e, and no TTL exceeds the longest.
Lasting(r, e) ==
  /\ \A s \in TokenTypes :
       /\ r.shown[s].exp <= e
       /\ r.made[s].exp <= e
       /\ r.at = "revoking" /\ r.slot[s] = "store" => r.ttl[s] <= LongestTtl
  /\ r.resp.access.exp <= e
  /\ r.resp.cookie.exp <= e

\* The longest lifetime, counted from now, bounds every token anywhere, and
\* thereby every TTL and every deadline computed from one.
NothingLasts ==
  /\ EntriesExpire
  /\ \A t \in handed : t.exp <= now + LongestTtl
  /\ \A p \in Procs : Lasting(req[p], now + LongestTtl)

LEMMA TokenFields ==
  ASSUME NEW r \in Requests
  PROVE  /\ \A s \in TokenTypes : /\ r.shown[s].exp \in Nat
                                  /\ r.made[s].exp \in Nat
                                  /\ r.ttl[s] \in Nat
         /\ r.resp.access.exp \in Nat
         /\ r.resp.cookie.exp \in Nat
  <1>1. \A t \in Minted \cup {Kept, Cleared} : t.exp \in Nat
    BY DEF Minted, Token, WholeSeconds, Missing, Kept, Cleared
  <1>2. \A t \in Presentable : t.exp \in Nat
    BY PresentableFields
  <1>3. r.resp \in Responses
    BY DEF Requests, RequestRecords
  <1>4. r.resp.access \in Minted /\ r.resp.cookie \in Minted \cup {Kept, Cleared}
    BY <1>3 DEF Responses
  <1>5. \A s \in TokenTypes : /\ r.shown[s] \in Presentable /\ r.made[s] \in Minted
                              /\ r.ttl[s] \in Nat
    BY DEF Requests, RequestRecords
  <1>6. QED
    BY <1>1, <1>2, <1>4, <1>5

LEMMA LastingMonotone ==
  ASSUME NEW r \in Requests, NEW e \in Nat, NEW f \in Nat, e <= f, Lasting(r, e)
  PROVE  Lasting(r, f)
  BY TokenFields DEF Lasting

LEMMA SignedLasts ==
  ASSUME NEW r, NEW s \in TokenTypes, now \in Nat
  PROVE  Signed(r, s).exp <= now + LongestTtl
  <1>1. now + LifeOf(s) \in Nat
    BY LifeType
  <1>2. NumericDate(now + LifeOf(s)) <= now + LifeOf(s)
    BY <1>1, NumericDateBelow
  <1>3. NumericDate(now + LifeOf(s)) \in Nat
    BY <1>1, NumericDateType DEF WholeSeconds
  <1>4. Signed(r, s).exp = NumericDate(now + LifeOf(s))
    BY DEF Signed, GenerateToken
  <1>5. LifeOf(s) <= LongestTtl /\ LongestTtl \in Nat /\ LifeOf(s) \in Nat
    BY LongestTtlType, LifeType
  <1> HIDE DEF Signed
  <1>6. QED
    BY <1>2, <1>3, <1>4, <1>5

\* A handler's step keeps the bounds: it signs for a lifetime from now.
LEMMA CarriedLasts ==
  ASSUME now \in Nat, NEW r \in Requests, Lasting(r, now + LongestTtl),
         NEW x, Carries(r, x)
  PROVE  Lasting(x, now + LongestTtl)
  <1> DEFINE e == now + LongestTtl
  <1>1. e \in Nat /\ LongestTtl \in Nat /\ FallbackTtl <= LongestTtl
    BY LongestTtlType
  <1>2. Missing.exp <= e /\ Kept.exp <= e /\ Cleared.exp <= e
    BY <1>1 DEF Missing, Kept, Cleared
  <1>3. \A s \in TokenTypes : Signed(r, s).exp <= e
    BY SignedLasts
  <1>4. \A s \in TokenTypes : r.shown[s].exp - now <= LongestTtl
    BY <1>1, TokenFields DEF Lasting
  <1>5. "access" \in TokenTypes /\ "refresh" \in TokenTypes
    BY DEF TokenTypes
  <1>6. Lasting(r, e)
    OBVIOUS
  <1> HIDE DEF e
  <1>7. \A s \in TokenTypes : x.shown[s].exp <= e /\ x.made[s].exp <= e
    BY <1>2, <1>3, <1>6 DEF Lasting, Carries
  <1>8. ASSUME NEW s \in TokenTypes, x.at = "revoking", x.slot[s] = "store"
        PROVE  x.ttl[s] <= LongestTtl
    BY <1>1, <1>4, <1>6, <1>8 DEF Lasting, Carries
  <1>9. x.resp.access.exp <= e /\ x.resp.cookie.exp <= e
    BY <1>2, <1>3, <1>5, <1>6 DEF Lasting, Carries
  <1>10. Lasting(x, e)
    BY <1>7, <1>8, <1>9 DEF Lasting
  <1>11. QED
    BY <1>10 DEF e

\* Entries leave Redis with the clock and enter it with a TTL in bounds.
LEMMA EntriesExpireStep ==
  ASSUME IInv, NothingLasts, [Next]_vars
  PROVE  EntriesExpire'
  <1>1. now \in Nat /\ LongestTtl \in Nat /\ MsTicks <= LongestTtl
    BY LongestTtlType DEF IInv, TypeOK
  <1>2. EntriesExpire
    BY DEF NothingLasts
  <1>3. CASE Tick
    <2>1. now' = now + 1
      BY <1>3 DEF Tick
    <2>2. /\ DOMAIN redis' \subseteq DOMAIN redis
          /\ \A k \in DOMAIN redis' : redis'[k] = redis[k]
      BY <1>3 DEF Tick, Purge, Restrict
    <2>3. MillisOf(now + LongestTtl) <= MillisOf(now' + LongestTtl)
      BY <1>1, <2>1, MillisMonotone
    <2>4. MillisOf(now + LongestTtl) \in Nat /\ MillisOf(now' + LongestTtl) \in Nat
      BY <1>1, <2>1, MillisOfType
    <2>5. \A k \in DOMAIN redis : redis[k] \in Nat
      BY <1>2 DEF EntriesExpire, IInv, TypeOK
    <2>6. ASSUME NEW k \in DOMAIN redis'
          PROVE  redis'[k] # NoExpiry /\ redis'[k] <= MillisOf(now' + LongestTtl)
      <3>1. redis[k] # NoExpiry /\ redis[k] <= MillisOf(now + LongestTtl)
        BY <1>2, <2>2 DEF EntriesExpire
      <3>2. QED
        BY <2>2, <2>3, <2>4, <2>5, <3>1
    <2>7. QED
      BY <2>6 DEF EntriesExpire, LongestTtl
  <1>4. CASE now' = now /\ redis' = redis
    BY <1>2, <1>4 DEF EntriesExpire
  <1>5. ASSUME now' = now, NEW p \in Procs, NEW s \in TokenTypes, StoreEntry(p, s),
               redis' = Put(redis, KeyOf(req[p], s),
                            DeadlineOf(req[p].ttl[s], now))
        PROVE  EntriesExpire'
    <2> DEFINE d == DeadlineOf(req[p].ttl[s], now)
               key == KeyOf(req[p], s)
    <2>1. req[p].at = "revoking" /\ req[p].slot[s] = "store" /\ req[p] \in Requests
      BY <1>5 DEF StoreEntry, IInv, TypeOK
    <2>2. req[p].ttl[s] \in Nat /\ req[p].ttl[s] > 0 /\ req[p].ttl[s] <= LongestTtl
      BY <2>1, TokenFields DEF IInv, RequestSafe, NothingLasts, Lasting
    <2>3. d # NoExpiry /\ d <= MillisOf(now + LongestTtl)
      BY <1>1, <2>2, DeadlineWithin
    <2> HIDE DEF d, key
    <2>4. redis' = Put(redis, key, d)
      BY <1>5 DEF d, key
    <2>5. \A k \in DOMAIN redis' :
            redis'[k] # NoExpiry /\ redis'[k] <= MillisOf(now + LongestTtl)
      BY <1>2, <2>3, <2>4 DEF Put, EntriesExpire
    <2>6. QED
      BY <1>5, <2>5 DEF EntriesExpire, LongestTtl
  <1>6. QED
    BY <1>3, <1>4, <1>5, StoreSteps

LEMMA NothingLastsStep ==
  ASSUME IInv, NothingLasts, [Next]_vars
  PROVE  NothingLasts'
  <1>0. TypeOK
    BY DEF IInv
  <1>1. PICK then \in Nat : then = now' /\ now \in Nat /\ now <= then
    BY StoreSteps DEF IInv, TypeOK, Tick
  <1> DEFINE e == now + LongestTtl
             f == then + LongestTtl
  <1>2. e \in Nat /\ f \in Nat /\ e <= f
    <2>1. LongestTtl \in Nat
      BY LongestTtlType
    <2>2. now \in Nat /\ now <= then
      BY <1>1
    <2>3. QED
      BY <2>1, <2>2
  <1>3. \A p \in Procs : req[p] \in Requests /\ Lasting(req[p], e)
    BY DEF NothingLasts, IInv, TypeOK
  <1>4. \A t \in handed : t.exp \in Nat /\ t.exp <= e
    BY DEF NothingLasts, IInv, TypeOK, Token, WholeSeconds
  <1>5. \A q \in Procs : Lasting(req[q], f)
    BY <1>2, <1>3, LastingMonotone
  <1>6. \A t \in handed : t.exp <= f
    BY <1>2, <1>4
  <1> HIDE DEF e, f
  <1> DEFINE Goal == /\ \A t \in handed' : t.exp <= f
                     /\ \A q \in Procs : Lasting(req'[q], f)
  <1>7. ASSUME NEW p \in Procs, Arrive(p)
        PROVE  Goal
    <2>1. /\ Fetches(req'[p]) /\ handed' = handed
          /\ \A q \in Procs \ {p} : req'[q] = req[q]
      BY <1>0, <1>7, ArriveFetches
    <2>2. \A t \in Circulating \cup {Kept} : t.exp <= f
      BY <1>2, <1>6 DEF Circulating, Garbage, Missing, Kept
    <2>3. Lasting(req'[p], f)
      BY <2>1, <2>2 DEF Fetches, Lasting, Circulating
    <2>4. QED
      BY <1>5, <1>6, <2>1, <2>3
  <1>8. ASSUME NEW p \in Procs, Serve(p)
        PROVE  Goal
    <2>1. /\ Carries(req[p], req'[p])
          /\ \A q \in Procs \ {p} : req'[q] = req[q]
          /\ handed' \subseteq handed \cup Delivered(req[p])
      BY <1>0, <1>8, ServeCarries
    <2>2. Lasting(req'[p], e)
      BY <1>1, <1>3, <2>1, CarriedLasts DEF e
    <2>3. TypeOK'
      BY <1>0, <1>8, ServeType
    <2>4. req'[p] \in Requests
      BY <2>3 DEF TypeOK
    <2>5. Lasting(req'[p], f)
      BY <1>2, <2>2, <2>4, LastingMonotone
    <2>6. \A t \in Delivered(req[p]) : t.exp <= f
      BY <1>5 DEF Delivered, Lasting
    <2>7. QED
      BY <1>5, <1>6, <2>1, <2>5, <2>6
  <1>9. ASSUME Tick \/ UNCHANGED vars
        PROVE  Goal
    <2>1. handed' = handed
      BY <1>9 DEF Tick, vars
    <2>2. req' = req
      BY <1>9 DEF Tick, vars
    <2>3. QED
      BY <1>5, <1>6, <2>1, <2>2
  <1> HIDE DEF Goal
  <1>10. Goal
    BY <1>7, <1>8, <1>9 DEF Next
  <1>11. EntriesExpire'
    BY EntriesExpireStep
  <1>12. QED
    BY <1>1, <1>10, <1>11 DEF NothingLasts, f, Goal

\* No entry of the blacklist is kept for good, and none outlasts the longest
\* lifetime of the configuration, whatever fails and however late the SETs
\* arrive: Add's TTL is never 0 or negative, and never more than a token's life.
THEOREM BlacklistStaysBounded == Spec => []EntriesExpire
  <1>1. Init => NothingLasts
    <2> SUFFICES ASSUME Init
                 PROVE  NothingLasts
      OBVIOUS
    <2>1. now + LongestTtl \in Nat
      BY LongestTtlType DEF Init
    <2>2. Missing.exp <= now + LongestTtl /\ Kept.exp <= now + LongestTtl
      BY <2>1 DEF Missing, Kept
    <2>3. Lasting(Idle, now + LongestTtl)
      BY <2>2 DEF Lasting, Idle, NoResponse
    <2>4. QED
      BY <2>3 DEF Init, NothingLasts, EntriesExpire, EmptyStore
  <1>2. IInv /\ NothingLasts /\ [Next]_vars => NothingLasts'
    BY NothingLastsStep
  <1>3. NothingLasts => EntriesExpire
    BY DEF NothingLasts
  <1>4. QED
    BY <1>1, <1>2, <1>3, Invariance, PTL DEF Spec

-----------------------------------------------------------------------------
(* The IDs of refresh tokens                                                *)

\* The IDs a request has drawn, put into a token, or is answering with.
Ids(r) == {r.jti, r.made["refresh"].jti, r.resp.cookie.jti} \ {0}

\* The IDs of a request are not above n, and no token of h has one of them:
\* what it shows was in circulation before.
Traced(r, n, h) ==
  /\ \A i \in Ids(r) : i <= n /\ \A t \in h : t.jti # i
  /\ r.made["access"].jti = 0 /\ r.resp.access.jti = 0
  /\ \A s \in TokenTypes : r.shown[s] \in h \cup {Garbage, Missing}

\* Every ID was drawn by one request, reaches clients with its response only,
\* and Redis lists nothing but what clients have shown.
IdsUnique ==
  /\ \A p \in Procs : Traced(req[p], serial, handed)
  /\ \A p, q \in Procs : p # q => Ids(req[p]) \cap Ids(req[q]) = {}
  /\ \A t \in handed : t.jti <= serial
  /\ \A k \in DOMAIN redis : k[2] \in Circulating

LEMMA IdsType ==
  ASSUME NEW r \in Requests
  PROVE  Ids(r) \subseteq Nat
  <1>1. \A t \in Minted \cup {Kept, Cleared} : t.jti \in Nat
    BY DEF Minted, Token, Missing, Kept, Cleared
  <1>2. r.resp \in Responses /\ r.made \in [TokenTypes -> Minted] /\ r.jti \in Nat
    BY DEF Requests, RequestRecords
  <1>3. r.made["refresh"] \in Minted /\ r.resp.cookie \in Minted \cup {Kept, Cleared}
    BY <1>2 DEF Responses, TokenTypes
  <1>4. QED
    BY <1>1, <1>2, <1>3 DEF Ids

LEMMA NoIds == Missing.jti = 0 /\ Kept.jti = 0 /\ Cleared.jti = 0 /\ Garbage.jti = 0
  BY DEF Missing, Kept, Cleared, Garbage

LEMMA IdleIds == Ids(Idle) = {}
  BY NoIds DEF Ids, Idle, NoResponse, TokenTypes

LEMMA SignedIds ==
  ASSUME NEW r
  PROVE  Signed(r, "refresh").jti = r.jti /\ Signed(r, "access").jti = 0
  BY DEF Signed, GenerateToken

\* A handler's step adds no ID to a request.
LEMMA CarriedIds ==
  ASSUME NEW r, NEW x, Carries(r, x)
  PROVE  Ids(x) \subseteq Ids(r)
  BY NoIds, SignedIds DEF Carries, Ids, TokenTypes

LEMMA CarriedTraced ==
  ASSUME NEW r, NEW x, Carries(r, x), NEW n, NEW h, Traced(r, n, h)
  PROVE  Traced(x, n, h)
  <1>1. \A i \in Ids(x) : i <= n /\ \A t \in h : t.jti # i
    BY CarriedIds DEF Traced
  <1>2. "access" \in TokenTypes
    BY DEF TokenTypes
  <1>3. x.made["access"].jti = 0
    BY <1>2, NoIds, SignedIds DEF Carries, Traced
  <1>4. x.resp.access.jti = 0
    BY NoIds DEF Carries, Traced
  <1>5. \A s \in TokenTypes : x.shown[s] \in h \cup {Garbage, Missing}
    BY DEF Carries, Traced
  <1>6. QED
    BY <1>1, <1>3, <1>4, <1>5 DEF Traced

LEMMA FetchedIds ==
  ASSUME NEW x, Fetches(x)
  PROVE  Ids(x) \subseteq {serial + 1}
  BY NoIds DEF Fetches, Ids, TokenTypes

\* What a response hands out bears an ID of its request, or none.
LEMMA DeliveredIds ==
  ASSUME NEW r, NEW n, NEW h, Traced(r, n, h), NEW t \in Delivered(r)
  PROVE  t.jti = 0 \/ t.jti \in Ids(r)
  BY DEF Delivered, Traced, Ids

LEMMA ArriveIds ==
  ASSUME TypeOK, IdsUnique, NEW p \in Procs, Arrive(p)
  PROVE  IdsUnique'
  <1>1. /\ Fetches(req'[p])
        /\ \A q \in Procs \ {p} : req'[q] = req[q]
    BY ArriveFetches
  <1>2. PICK n \in Nat : n = serial /\ serial' = n + 1
    BY ArriveFetches DEF TypeOK
  <1>3. redis' = redis /\ handed' = handed
    BY ArriveFetches
  <1>4. \A q \in Procs : req[q] \in Requests /\ Ids(req[q]) \subseteq Nat
                         /\ Traced(req[q], n, handed)
    BY <1>2, IdsType DEF TypeOK, IdsUnique
  <1>5. \A q \in Procs : \A i \in Ids(req[q]) : i \in Nat /\ i <= n
    BY <1>4 DEF Traced
  <1>6. \A t \in handed : t.jti \in Nat /\ t.jti <= n
    BY <1>2 DEF IdsUnique, TypeOK, Token
  <1>7. Ids(req'[p]) \subseteq {n + 1}
    BY <1>1, <1>2, FetchedIds
  <1>8. \A q \in Procs \ {p} : Traced(req'[q], n + 1, handed)
    <2>1. ASSUME NEW q \in Procs \ {p}
          PROVE  Traced(req[q], n + 1, handed)
      <3>1. \A i \in Ids(req[q]) : i <= n + 1
        BY <1>5
      <3>2. QED
        BY <1>4, <3>1 DEF Traced
    <2>2. QED
      BY <1>1, <2>1
  <1>9. Traced(req'[p], n + 1, handed)
    <2>1. \A i \in Ids(req'[p]) : i <= n + 1 /\ \A t \in handed : t.jti # i
      BY <1>6, <1>7
    <2>2. /\ req'[p].made["access"] = Missing /\ req'[p].resp.access = Missing
          /\ \A s \in TokenTypes : req'[p].shown[s] \in handed \cup {Garbage, Missing}
      BY <1>1 DEF Fetches, Circulating, TokenTypes
    <2>3. QED
      BY <2>1, <2>2, NoIds DEF Traced
  <1>10. \A q \in Procs \ {p} : Ids(req'[p]) \cap Ids(req'[q]) = {}
    BY <1>1, <1>5, <1>7
  <1>11. \A q, o \in Procs : q # o => Ids(req'[q]) \cap Ids(req'[o]) = {}
    <2>1. \A q, o \in Procs \ {p} : q # o => Ids(req'[q]) \cap Ids(req'[o]) = {}
      BY <1>1 DEF IdsUnique
    <2>2. QED
      BY <1>10, <2>1
  <1>12. \A t \in handed : t.jti <= n + 1
    BY <1>6
  <1>13. \A k \in DOMAIN redis : k[2] \in Circulating
    BY DEF IdsUnique
  <1>14. QED
    BY <1>2, <1>3, <1>8, <1>9, <1>11, <1>12, <1>13 DEF IdsUnique, Circulating

LEMMA ServeIds ==
  ASSUME TypeOK, IdsUnique, NEW p \in Procs, Serve(p)
  PROVE  /\ \A q \in Procs : Traced(req'[q], serial', handed')
         /\ \A q, o \in Procs : q # o => Ids(req'[q]) \cap Ids(req'[o]) = {}
         /\ \A t \in handed' : t.jti <= serial'
         /\ handed \subseteq handed'
  <1>1. /\ Carries(req[p], req'[p])
        /\ \A q \in Procs \ {p} : req'[q] = req[q]
        /\ serial' = serial
        /\ \/ handed' = handed
           \/ req'[p] = Idle /\ handed' = handed \cup Delivered(req[p])
    BY ServeCarries
  <1>2. \A q \in Procs : Traced(req[q], serial, handed)
    BY DEF IdsUnique
  <1>3. Traced(req'[p], serial, handed) /\ Ids(req'[p]) \subseteq Ids(req[p])
    BY <1>1, <1>2, CarriedTraced, CarriedIds
  <1>4. \A q, o \in Procs : q # o => Ids(req'[q]) \cap Ids(req'[o]) = {}
    <2>1. \A q \in Procs : Ids(req'[q]) \subseteq Ids(req[q])
      BY <1>1, <1>3
    <2>2. QED
      BY <2>1 DEF IdsUnique
  <1>5. CASE handed' = handed
    <2>1. \A q \in Procs : Traced(req'[q], serial, handed)
      BY <1>1, <1>2, <1>3
    <2>2. \A t \in handed : t.jti <= serial
      BY DEF IdsUnique
    <2>3. QED
      BY <1>1, <1>4, <1>5, <2>1, <2>2
  <1>6. CASE req'[p] = Idle /\ handed' = handed \cup Delivered(req[p])
    <2> DEFINE new == Delivered(req[p])
    <2>1. \A t \in new : t.jti = 0 \/ t.jti \in Ids(req[p])
      BY <1>2, DeliveredIds
    <2>2. \A t \in new : t.jti <= serial
      BY <1>2, <2>1 DEF Traced, TypeOK
    <2>3. Traced(Idle, serial, handed \cup new)
      <3>1. /\ Idle.made["access"] = Missing /\ Idle.resp.access = Missing
            /\ \A s \in TokenTypes : Idle.shown[s] = Missing
        BY DEF Idle, NoResponse, TokenTypes
      <3>2. QED
        BY <3>1, IdleIds, NoIds DEF Traced
    <2>4. ASSUME NEW q \in Procs \ {p}
          PROVE  Traced(req[q], serial, handed \cup new)
      <3>1. Traced(req[q], serial, handed)
        BY <1>2
      <3>2. Ids(req[p]) \cap Ids(req[q]) = {}
        BY DEF IdsUnique
      <3>3. 0 \notin Ids(req[q])
        BY DEF Ids
      <3>4. \A i \in Ids(req[q]) : \A t \in new : t.jti # i
        BY <2>1, <3>2, <3>3
      <3> HIDE DEF new
      <3>5. QED
        BY <3>1, <3>4 DEF Traced
    <2>5. \A t \in handed : t.jti <= serial
      BY DEF IdsUnique
    <2> HIDE DEF new
    <2>6. handed' = handed \cup new
      BY <1>6 DEF new
    <2>7. \A q \in Procs : Traced(req'[q], serial, handed \cup new)
      BY <1>1, <1>6, <2>3, <2>4
    <2>8. QED
      BY <1>1, <1>4, <2>2, <2>5, <2>6, <2>7
  <1>7. QED
    BY <1>1, <1>5, <1>6

LEMMA IdsUniqueStep ==
  ASSUME IInv, IdsUnique, [Next]_vars
  PROVE  IdsUnique'
  <1>1. TypeOK
    BY DEF IInv
  <1>2. CASE Tick
    <2>1. UNCHANGED <<serial, handed, req>> /\ DOMAIN redis' \subseteq DOMAIN redis
      BY <1>2 DEF Tick, Purge, Restrict
    <2>2. QED
      BY <2>1 DEF IdsUnique, Circulating
  <1>3. CASE UNCHANGED vars
    BY <1>3 DEF vars, IdsUnique, Circulating
  <1>4. ASSUME NEW p \in Procs, Arrive(p)
        PROVE  IdsUnique'
    BY <1>1, <1>4, ArriveIds
  <1>5. ASSUME NEW p \in Procs, Serve(p)
        PROVE  IdsUnique'
    <2>1. /\ \A q \in Procs : Traced(req'[q], serial', handed')
          /\ \A q, o \in Procs : q # o => Ids(req'[q]) \cap Ids(req'[o]) = {}
          /\ \A t \in handed' : t.jti <= serial'
      BY <1>1, <1>5, ServeIds
    <2>2. handed \subseteq handed'
      BY <1>1, <1>5, ServeIds
    <2>3. \A k \in DOMAIN redis : k[2] \in Circulating
      BY DEF IdsUnique
    <2>4. ASSUME NEW q \in Procs, NEW s \in TokenTypes
          PROVE  KeyOf(req[q], s)[2] \in Circulating
      BY DEF KeyOf, BlacklistKey, IdsUnique, Traced, Circulating
    <2>5. ASSUME NEW q \in Procs, NEW s \in TokenTypes, NEW d,
                 redis' = Put(redis, KeyOf(req[q], s), d)
          PROVE  \A k \in DOMAIN redis' : k[2] \in Circulating
      <3> DEFINE key == KeyOf(req[q], s)
      <3>1. key[2] \in Circulating /\ redis' = Put(redis, key, d)
        BY <2>4, <2>5
      <3> HIDE DEF key
      <3>2. QED
        BY <2>3, <3>1 DEF Put
    <2>6. \A k \in DOMAIN redis' : k[2] \in Circulating
      <3>1. CASE Tick
        BY <2>3, <3>1 DEF Tick, Purge, Restrict
      <3>2. CASE redis' = redis
        BY <2>3, <3>2
      <3>3. QED
        BY <2>5, <3>1, <3>2, StoreSteps
    <2>7. \A k \in DOMAIN redis' : k[2] \in Circulating'
      BY <2>2, <2>6 DEF Circulating
    <2>8. QED
      BY <2>1, <2>7 DEF IdsUnique
  <1>6. QED
    BY <1>2, <1>3, <1>4, <1>5 DEF Next

\* The ID of a refresh token is never shared: not by two requests, and not with
\* a token a client has, whatever is logged out, listed or fails meanwhile.
THEOREM IdsStayUnique == Spec => []IdsUnique
  <1>1. Init => IdsUnique
    <2> SUFFICES ASSUME Init
                 PROVE  IdsUnique
      OBVIOUS
    <2>1. /\ Idle.made["access"] = Missing /\ Idle.resp.access = Missing
          /\ \A s \in TokenTypes : Idle.shown[s] = Missing
      BY DEF Idle, NoResponse, TokenTypes
    <2>2. Traced(Idle, 0, {})
      BY <2>1, IdleIds, NoIds DEF Traced
    <2>3. QED
      BY <2>2, IdleIds DEF Init, IdsUnique, EmptyStore
  <1>2. IInv /\ IdsUnique /\ [Next]_vars => IdsUnique'
    BY IdsUniqueStep
  <1>3. QED
    BY <1>1, <1>2, Invariance, PTL DEF Spec

-----------------------------------------------------------------------------
(* What an answer rests on                                                  *)

\* Signing a token of type s may fail.
CannotSign(s) == SignFault(s) \in Faults

\* The token of type s was made, a refresh token with an ID.
Made(r, s) ==
  CannotSign(s) \/ (r.made[s] # Missing /\ (s = "refresh" => r.made[s].jti # 0))

\* A request is where its operation leads it, and one that makes tokens has an
\* ID: unless signing can fail, it goes on and answers with both tokens, and
\* its refresh token bears the ID.
Identified(r) ==
  /\ r.at \in {"findUser", "signAccess", "signRefresh"} =>
       r.op = "login" /\ r.jti # 0
  /\ r.at \in {"lookup", "validate"} =>
       r.op = "guard" \/ (r.op = "refresh" /\ r.jti # 0)
  /\ r.at = "generating" =>
       /\ r.op = "refresh" /\ r.jti # 0
       /\ \A s \in TokenTypes : r.slot[s] # "sign" => Made(r, s)
  /\ r.at = "revoking" /\ r.op = "refresh" => \A s \in TokenTypes : Made(r, s)
  /\ r.at = "replied" /\ r.resp.err = "nil" =>
       /\ r.op \in {"login", "refresh"} =>
            CannotSign("refresh") \/ r.resp.cookie.jti # 0
       /\ r.op = "refresh" => CannotSign("access") \/ r.resp.access # Missing

\* A guard's refusal and, while no call fails, a cleared cookie have a reason:
\* the key that was shown is spent.
Justified(r) ==
  /\ r.at = "replied" /\ r.op = "guard"
     /\ r.resp.err \in {"ErrUnauthorized", "ErrTokenIsExpired"}
       => Spent(KeyOf(r, "access"))
  /\ Faults = {} =>
       /\ r.err = "nil" /\ r.egErr = "nil"
       /\ r.at = "replied" /\ r.resp.cookie = Cleared => Spent(KeyOf(r, "refresh"))

Grounded(r) == Identified(r) /\ Justified(r)

LEMMA ReplyFields ==
  ASSUME NEW r, NEW e, NEW a, NEW c
  PROVE  LET x == Reply(r, e, a, c)
         IN  /\ x.op = r.op /\ x.at = "replied" /\ x.shown = r.shown
             /\ x.err = "nil" /\ x.egErr = "nil"
             /\ x.resp.err = e /\ x.resp.access = a /\ x.resp.cookie = c
  BY DEF Reply, Idle

LEMMA MintedNotCleared == Cleared \notin Minted /\ Kept # Cleared
  BY DEF Cleared, Kept, Minted, Missing, Token, TokenTypes

LEMMA ReplyGrounded ==
  ASSUME NEW r, NEW e, NEW a, NEW c,
         r.op \in {"login", "refresh"} /\ e = "nil"
           => CannotSign("refresh") \/ c.jti # 0,
         r.op = "refresh" /\ e = "nil" => CannotSign("access") \/ a # Missing,
         r.op = "guard" /\ e \in {"ErrUnauthorized", "ErrTokenIsExpired"}
           => Spent(KeyOf(r, "access")),
         Faults = {} /\ c = Cleared => Spent(KeyOf(r, "refresh"))
  PROVE  Grounded(Reply(r, e, a, c))
  <1> DEFINE x == Reply(r, e, a, c)
  <1>1. /\ x.op = r.op /\ x.at = "replied" /\ x.shown = r.shown
        /\ x.err = "nil" /\ x.egErr = "nil"
        /\ x.resp.err = e /\ x.resp.access = a /\ x.resp.cookie = c
    BY ReplyFields
  <1> HIDE DEF x
  <1>2. Identified(x)
    BY <1>1 DEF Identified
  <1>3. KeyOf(x, "access") = KeyOf(r, "access")
        /\ KeyOf(x, "refresh") = KeyOf(r, "refresh")
    BY <1>1 DEF KeyOf
  <1>4. Justified(x)
    BY <1>1, <1>3 DEF Justified
  <1>5. QED
    BY <1>2, <1>4 DEF Grounded, x

LEMMA FailGrounded ==
  ASSUME NEW r, NEW e, e # "nil",
         r.op = "guard" /\ e \in {"ErrUnauthorized", "ErrTokenIsExpired"}
           => Spent(KeyOf(r, "access")),
         Faults = {} /\ r.op = "refresh" => Spent(KeyOf(r, "refresh"))
  PROVE  Grounded(Fail(r, e))
  <1> DEFINE c == IF r.op = "refresh" THEN Cleared ELSE Kept
  <1>1. c = Cleared => r.op = "refresh"
    BY MintedNotCleared
  <1>2. Fail(r, e) = Reply(r, e, Missing, c)
    BY DEF Fail
  <1> HIDE DEF c
  <1>3. QED
    BY <1>1, <1>2, ReplyGrounded

LEMMA IdleGrounded == Grounded(Idle)
  BY MintedNotCleared DEF Grounded, Identified, Justified, Idle, NoResponse

LEMMA ArriveGrounded ==
  ASSUME TypeOK, NEW p \in Procs, Arrive(p)
  PROVE  Grounded(req'[p])
  <1>1. \A x : Grounded(x) /\ Become(p, x) => Grounded(req'[p])
    BY BecomeValue
  <1>2. serial + 1 # 0
    BY DEF TypeOK
  <1>3. \A o, a, c : LET y == Arrival(o, a, c)
                     IN  y.op = o /\ y.err = "nil" /\ y.egErr = "nil"
    BY DEF Arrival, Idle
  <1>4. ASSUME NEW u \in Users, StartLogin(p, u)
        PROVE  Grounded(req'[p])
    <2> DEFINE x == [Idle EXCEPT !.op = "login", !.at = "findUser", !.who = u,
                                 !.jti = serial + 1]
    <2>1. /\ x.op = "login" /\ x.at = "findUser" /\ x.jti = serial + 1
          /\ x.err = "nil" /\ x.egErr = "nil"
      BY DEF Idle
    <2> HIDE DEF x
    <2>2. Grounded(x)
      BY <1>2, <2>1 DEF Grounded, Identified, Justified
    <2>3. QED
      BY <1>1, <1>4, <2>2 DEF StartLogin, x
  <1>5. ASSUME NEW t \in Strings("access"), StartGuard(p, t)
        PROVE  Grounded(req'[p])
    <2> DEFINE y == Arrival("guard", t, Missing)
               x == [y EXCEPT !.at = "lookup"]
    <2>1. y \in Requests
      BY ArrivalType, StringsType, PresentableType DEF TokenTypes, Ops
    <2>2. y.op = "guard" /\ y.err = "nil" /\ y.egErr = "nil"
      BY <1>3
    <2> HIDE DEF y
    <2>3. x.op = "guard" /\ x.at = "lookup" /\ x.err = "nil" /\ x.egErr = "nil"
      BY <2>1, <2>2 DEF Requests, RequestRecords
    <2> HIDE DEF x
    <2>4. Identified(x)
      BY <2>3 DEF Identified
    <2>5. Justified(x)
      BY <2>3 DEF Justified
    <2>6. QED
      BY <1>1, <1>5, <2>4, <2>5 DEF StartGuard, Grounded, x, y
  <1>6. ASSUME NEW t \in Strings("refresh"), StartRefresh(p, t)
        PROVE  Grounded(req'[p])
    <2> DEFINE y == Arrival("refresh", Missing, t)
               x == [y EXCEPT !.at = "lookup", !.jti = serial + 1]
    <2>1. y \in Requests
      BY ArrivalType, StringsType, PresentableType DEF TokenTypes, Ops
    <2>2. y.op = "refresh" /\ y.err = "nil" /\ y.egErr = "nil"
      BY <1>3
    <2> HIDE DEF y
    <2>3. /\ x.op = "refresh" /\ x.at = "lookup" /\ x.jti = serial + 1
          /\ x.err = "nil" /\ x.egErr = "nil"
      BY <2>1, <2>2 DEF Requests, RequestRecords
    <2> HIDE DEF x
    <2>4. Grounded(x)
      BY <1>2, <2>3 DEF Grounded, Identified, Justified
    <2>5. QED
      BY <1>1, <1>6, <2>4 DEF StartRefresh, x, y
  <1>7. ASSUME NEW a \in Strings("access"), NEW c \in Strings("refresh"),
               StartLogout(p, a, c)
        PROVE  Grounded(req'[p])
    <2> DEFINE y == Arrival("logout", a, c)
               x == [y EXCEPT !.at = "revoking",
                              !.slot = [s \in TokenTypes |-> "parse"]]
    <2>1. y \in Requests
      BY ArrivalType, StringsType DEF TokenTypes, Ops
    <2>2. y.op = "logout" /\ y.err = "nil" /\ y.egErr = "nil"
      BY <1>3
    <2> HIDE DEF y
    <2>3. x.op = "logout" /\ x.at = "revoking" /\ x.err = "nil" /\ x.egErr = "nil"
      BY <2>1, <2>2 DEF Requests, RequestRecords
    <2> HIDE DEF x
    <2>4. Grounded(x)
      BY <2>3 DEF Grounded, Identified, Justified
    <2>5. QED
      BY <1>1, <1>7, <2>4 DEF StartLogout, x, y
  <1>8. ASSUME NEW o, NEW e, e # "nil",
               o = "guard" => e \notin {"ErrUnauthorized", "ErrTokenIsExpired"}
        PROVE  Grounded(Reply(Arrival(o, Missing, Missing), e, Missing, Kept))
    <2>1. Arrival(o, Missing, Missing).op = o
      BY <1>3
    <2>2. QED
      BY <1>8, <2>1, ReplyGrounded, MintedNotCleared
  <1>9. ASSUME NEW e \in HeaderErrors, GuardBadHeader(p, e)
        PROVE  Grounded(req'[p])
    <2>1. e # "nil" /\ e \notin {"ErrUnauthorized", "ErrTokenIsExpired"}
      BY DEF HeaderErrors
    <2>2. QED
      BY <1>1, <1>8, <1>9, <2>1 DEF GuardBadHeader
  <1>10. ASSUME LoginBadRequest(p) \/ RefreshNoCookie(p) \/ LogoutMissing(p)
         PROVE  Grounded(req'[p])
    BY <1>1, <1>8, <1>10 DEF LoginBadRequest, RefreshNoCookie, LogoutMissing
  <1>11. QED
    BY <1>4, <1>5, <1>6, <1>7, <1>9, <1>10 DEF Arrive

LEMMA ServeGrounded ==
  ASSUME IInv, NEW p \in Procs, Serve(p), Grounded(req[p])
  PROVE  Grounded(req'[p])
  <1> DEFINE r == req[p]
             Goal == Grounded(req'[p])
  <1>1. r \in Requests /\ RequestSafe(r)
    BY DEF IInv, TypeOK
  <1>2. Identified(r)
    BY DEF Grounded
  <1>3. Justified(r)
    BY DEF Grounded
  <1>4. \A x : Identified(x) /\ Justified(x) /\ Become(p, x) => Goal
    BY BecomeValue DEF IInv, Grounded
  <1>5. \A x : Grounded(x) /\ Become(p, x) => Goal
    BY BecomeValue DEF IInv
  <1> HIDE DEF r, Goal
  <1>6. ASSUME NEW e, e # "nil", r.op = "login" \/ r.op = "logout", Become(p, Fail(r, e))
        PROVE  Goal
    BY <1>5, <1>6, FailGrounded
  <1>7. ASSUME FindUser(p)
        PROVE  Goal
    <2> DEFINE x == [r EXCEPT !.at = "signAccess"]
    <2>1. r.at = "findUser" /\ r.op = "login" /\ r.jti # 0
      BY <1>2, <1>7 DEF FindUser, Identified, r
    <2>2. /\ x.at = "signAccess" /\ x.op = "login" /\ x.jti # 0
          /\ x.err = r.err /\ x.egErr = r.egErr
      BY <1>1, <2>1 DEF Requests, RequestRecords
    <2> HIDE DEF x
    <2>3. Identified(x) /\ Justified(x)
      BY <1>3, <2>2 DEF Identified, Justified
    <2>4. QED
      BY <1>4, <1>6, <1>7, <2>1, <2>3 DEF FindUser, r, x
  <1>8. ASSUME LoginSignAccess(p)
        PROVE  Goal
    <2> DEFINE x == [r EXCEPT !.at = "signRefresh",
                              !.made["access"] = GenerateToken("access", r.who, now, 0)]
    <2>1. r.at = "signAccess" /\ r.op = "login" /\ r.jti # 0
      BY <1>2, <1>8 DEF LoginSignAccess, Identified, r
    <2>2. /\ x.at = "signRefresh" /\ x.op = "login" /\ x.jti # 0
          /\ x.err = r.err /\ x.egErr = r.egErr
      BY <1>1, <2>1 DEF Requests, RequestRecords
    <2> HIDE DEF x
    <2>3. Identified(x) /\ Justified(x)
      BY <1>3, <2>2 DEF Identified, Justified
    <2>4. GenerationError("access") # "nil"
      BY DEF GenerationError
    <2>5. QED
      BY <1>4, <1>6, <1>8, <2>1, <2>3, <2>4 DEF LoginSignAccess, r, x
  <1>9. ASSUME LoginSignRefresh(p)
        PROVE  Goal
    <2> DEFINE c == GenerateToken("refresh", r.who, now, r.jti)
    <2>1. r.op = "login" /\ r.jti # 0
      BY <1>2, <1>9 DEF LoginSignRefresh, Identified, r
    <2>2. c.jti # 0 /\ c.kind = "refresh"
      BY <2>1 DEF GenerateToken
    <2>3. c # Cleared
      BY <2>2 DEF Cleared
    <2> HIDE DEF c
    <2>4. Grounded(Reply(r, "nil", r.made["access"], c))
      BY <2>1, <2>2, <2>3, ReplyGrounded
    <2>5. GenerationError("refresh") # "nil"
      BY DEF GenerationError
    <2>6. QED
      BY <1>5, <1>6, <1>9, <2>1, <2>4, <2>5 DEF LoginSignRefresh, r, c
  <1>10. ASSUME IsTokenBlacklisted(p)
         PROVE  Goal
    <2> DEFINE x == [r EXCEPT !.at = "validate"]
               key == KeyOf(r, Checked(r))
    <2>1. r.at = "lookup" /\ (r.op = "guard" \/ (r.op = "refresh" /\ r.jti # 0))
      BY <1>2, <1>10 DEF IsTokenBlacklisted, Identified, r
    <2>2. /\ r.op = "guard" => key = KeyOf(r, "access")
          /\ r.op = "refresh" => key = KeyOf(r, "refresh")
      BY DEF Checked
    <2>3. /\ x.at = "validate" /\ x.op = r.op /\ x.jti = r.jti
          /\ x.err = r.err /\ x.egErr = r.egErr
      BY <1>1 DEF Requests, RequestRecords
    <2> HIDE DEF x, key
    <2>4. Identified(x)
      BY <2>1, <2>3 DEF Identified
    <2>5. Justified(x)
      BY <1>3, <2>3 DEF Justified
    <2>6. key \in DOMAIN redis => Grounded(Fail(r, "ErrUnauthorized"))
      BY <2>2, FailGrounded DEF Spent
    <2>7. ASSUME "get" \in Faults
          PROVE  Grounded(Fail(r, IF r.op = "guard" THEN "ErrRedisGet"
                                                    ELSE "ErrUnauthorized"))
      <3>1. Faults # {}
        BY <2>7
      <3>2. CASE r.op = "guard"
        BY <3>1, <3>2, FailGrounded
      <3>3. CASE r.op # "guard"
        BY <3>1, <3>3, FailGrounded
      <3>4. QED
        BY <3>2, <3>3
    <2>8. QED
      BY <1>4, <1>5, <1>10, <2>4, <2>5, <2>6, <2>7
      DEF IsTokenBlacklisted, r, x, key
  <1>11. ASSUME ValidateAccessToken(p)
         PROVE  Goal
    <2>1. r.op = "guard"
      BY <1>11 DEF ValidateAccessToken, r
    <2>2. Grounded(Reply(r, "nil", Missing, Kept))
      BY <2>1, ReplyGrounded, MintedNotCleared
    <2>3. ASSUME ~Validates(r.shown["access"], "access", now)
          PROVE  Grounded(Fail(r, "ErrTokenIsExpired"))
      <3>1. Spent(KeyOf(r, "access"))
        BY <2>3 DEF Spent, KeyOf, BlacklistKey
      <3>2. QED
        BY <2>1, <3>1, FailGrounded
    <2>4. QED
      BY <1>5, <1>11, <2>2, <2>3 DEF ValidateAccessToken, r
  <1>12. ASSUME ValidateRefreshToken(p)
         PROVE  Goal
    <2> DEFINE x == [r EXCEPT !.at = "generating",
                              !.who = r.shown["refresh"].uuid,
                              !.slot = [s \in TokenTypes |-> "sign"]]
    <2>1. r.at = "validate" /\ r.op = "refresh" /\ r.jti # 0
      BY <1>2, <1>12 DEF ValidateRefreshToken, Identified, r
    <2>2. /\ x.at = "generating" /\ x.op = "refresh" /\ x.jti # 0
          /\ \A s \in TokenTypes : x.slot[s] = "sign"
          /\ x.err = r.err /\ x.egErr = r.egErr
      BY <1>1, <2>1 DEF Requests, RequestRecords, TokenTypes
    <2> HIDE DEF x
    <2>3. Identified(x)
      BY <2>2 DEF Identified
    <2>4. Justified(x)
      BY <1>3, <2>2 DEF Justified
    <2>5. ASSUME ~Validates(r.shown["refresh"], "refresh", now)
          PROVE  Grounded(Fail(r, "ErrInvalidToken"))
      <3>1. Spent(KeyOf(r, "refresh"))
        BY <2>5 DEF Spent, KeyOf, BlacklistKey
      <3>2. QED
        BY <2>1, <3>1, FailGrounded
    <2>6. QED
      BY <1>4, <1>5, <1>12, <2>3, <2>4, <2>5 DEF ValidateRefreshToken, r, x
  <1>13. ASSUME NEW s \in TokenTypes, Generate(p, s)
         PROVE  Goal
    <2> DEFINE c == GenerateToken(s, r.who, now, r.jti)
               x == [r EXCEPT !.slot[s] = "check", !.err = "nil", !.made[s] = c]
               y == [r EXCEPT !.slot[s] = "check", !.err = GenerationError(s)]
    <2>1. r.at = "generating" /\ r.op = "refresh" /\ r.jti # 0
      BY <1>2, <1>13 DEF Generate, Identified, r
    <2>2. c # Missing /\ (s = "refresh" => c.jti # 0)
      <3>1. c.kind = s /\ (s = "refresh" => c.jti # 0)
        BY <2>1 DEF GenerateToken
      <3> HIDE DEF c
      <3>2. QED
        BY <3>1 DEF Missing, TokenTypes
    <2> HIDE DEF c
    <2>3. /\ x.at = "generating" /\ x.op = "refresh" /\ x.jti # 0
          /\ x.made[s] = c
          /\ \A o \in TokenTypes \ {s} : /\ x.made[o] = r.made[o]
                                         /\ x.slot[o] = r.slot[o]
          /\ x.err = "nil" /\ x.egErr = r.egErr
      BY <1>1, <2>1 DEF Requests, RequestRecords
    <2>4. /\ y.at = "generating" /\ y.op = "refresh" /\ y.jti # 0
          /\ \A o \in TokenTypes \ {s} : /\ y.made[o] = r.made[o]
                                         /\ y.slot[o] = r.slot[o]
      BY <1>1, <2>1 DEF Requests, RequestRecords
    <2> HIDE DEF x, y
    <2>5. \A o \in TokenTypes \ {s} : r.slot[o] # "sign" => Made(r, o)
      BY <1>2, <2>1 DEF Identified
    <2>6. Made(x, s) /\ \A o \in TokenTypes \ {s} : x.slot[o] # "sign" => Made(x, o)
      BY <2>2, <2>3, <2>5 DEF Made
    <2>7. Identified(x)
      BY <2>3, <2>6 DEF Identified
    <2>8. Justified(x)
      BY <1>3, <2>3 DEF Justified
    <2>9. ASSUME SignFault(s) \in Faults
          PROVE  Identified(y) /\ Justified(y)
      <3>1. Faults # {}
        BY <2>9
      <3>2. Made(y, s) /\ \A o \in TokenTypes \ {s} : y.slot[o] # "sign" => Made(y, o)
        BY <2>4, <2>5, <2>9 DEF CannotSign, Made
      <3>3. Identified(y)
        BY <2>4, <3>2 DEF Identified
      <3>4. Justified(y)
        BY <2>4, <3>1 DEF Justified
      <3>5. QED
        BY <3>3, <3>4
    <2>10. QED
      BY <1>4, <1>13, <2>7, <2>8, <2>9 DEF Generate, r, x, y, c
  <1>14. ASSUME NEW s \in TokenTypes, CheckGenerated(p, s)
         PROVE  Goal
    <2> DEFINE e == IF r.egErr = "nil" /\ r.err # "nil" THEN GenerationError(s)
                                                        ELSE r.egErr
               x == [r EXCEPT !.slot[s] = "done", !.egErr = e]
    <2>1. r.at = "generating" /\ r.slot[s] = "check" /\ r.op = "refresh" /\ r.jti # 0
      BY <1>2, <1>14 DEF CheckGenerated, Identified, r
    <2>2. Faults = {} => e = "nil"
      BY <1>3 DEF Justified
    <2> HIDE DEF e
    <2>3. /\ x.at = "generating" /\ x.op = "refresh" /\ x.jti # 0
          /\ x.made = r.made /\ x.err = r.err /\ x.egErr = e
          /\ \A o \in TokenTypes \ {s} : x.slot[o] = r.slot[o]
      BY <1>1, <2>1 DEF Requests, RequestRecords
    <2> HIDE DEF x
    <2>4. Identified(x)
      BY <1>2, <2>1, <2>3 DEF Identified, Made
    <2>5. Justified(x)
      BY <1>3, <2>2, <2>3 DEF Justified
    <2>6. QED
      BY <1>4, <1>14, <2>4, <2>5 DEF CheckGenerated, r, x, e
  <1>15. ASSUME AwaitGenerated(p)
         PROVE  Goal
    <2> DEFINE x == [r EXCEPT !.at = "revoking", !.slot["access"] = "off",
                              !.slot["refresh"] = "parse"]
    <2>1. r.at = "generating" /\ r.op = "refresh"
          /\ \A s \in TokenTypes : r.slot[s] = "done"
      BY <1>2, <1>15 DEF AwaitGenerated, Identified, r
    <2>2. \A s \in TokenTypes : Made(r, s)
      BY <1>2, <2>1 DEF Identified
    <2>3. /\ x.at = "revoking" /\ x.op = "refresh" /\ x.made = r.made
          /\ x.err = r.err /\ x.egErr = r.egErr
      BY <1>1, <2>1 DEF Requests, RequestRecords
    <2> HIDE DEF x
    <2>4. Identified(x)
      BY <2>2, <2>3 DEF Identified, Made
    <2>5. Justified(x)
      BY <1>3, <2>3 DEF Justified
    <2>6. r.egErr # "nil" => Grounded(Fail(r, r.egErr))
      BY <1>3, <2>1, FailGrounded DEF Justified
    <2>7. QED
      BY <1>4, <1>5, <1>15, <2>4, <2>5, <2>6 DEF AwaitGenerated, r, x
  <1>16. ASSUME FinishRefresh(p)
         PROVE  Goal
    <2>1. r.at = "revoking" /\ r.op = "refresh"
      BY <1>16 DEF FinishRefresh, r
    <2>2. r.egErr # "nil" => Grounded(Fail(r, r.egErr))
      BY <1>3, <2>1, FailGrounded DEF Justified
    <2>3. /\ CannotSign("refresh") \/ r.made["refresh"].jti # 0
          /\ CannotSign("access") \/ r.made["access"] # Missing
      BY <1>2, <2>1 DEF Identified, Made, TokenTypes
    <2>4. r.made["refresh"] # Cleared
      BY <1>1, MintedNotCleared DEF Requests, RequestRecords, TokenTypes
    <2>5. Grounded(Reply(r, "nil", r.made["access"], r.made["refresh"]))
      BY <2>1, <2>3, <2>4, ReplyGrounded
    <2>6. QED
      BY <1>5, <1>16, <2>2, <2>5 DEF FinishRefresh, r
  <1>17. ASSUME FinishLogout(p)
         PROVE  Goal
    <2>1. r.op = "logout" /\ r.at = "revoking" /\ r.slot["refresh"] = "done"
      BY <1>17 DEF FinishLogout, TokenTypes, r
    <2>2. ASSUME r.egErr = "nil"
          PROVE  Grounded(Reply(r, "nil", Missing, Cleared))
      <3>1. Spent(KeyOf(r, "refresh"))
        BY <1>1, <2>1, <2>2 DEF RequestSafe, TokenTypes
      <3>2. QED
        BY <2>1, <3>1, ReplyGrounded
    <2>3. QED
      BY <1>5, <1>6, <1>17, <2>1, <2>2 DEF FinishLogout, r
  <1>18. ASSUME NEW x, Become(p, x), r.at = "revoking", x.at = "revoking",
                x.op = r.op, x.made = r.made, x.err = r.err,
                x.egErr = r.egErr \/ Faults # {}
         PROVE  Goal
    <2>1. Identified(x)
      BY <1>2, <1>18 DEF Identified, Made
    <2>2. Justified(x)
      BY <1>3, <1>18 DEF Justified
    <2>3. QED
      BY <1>4, <1>18, <2>1, <2>2
  <1>19. ASSUME NEW s \in TokenTypes, NEW z, r.at = "revoking",
                Become(p, [r EXCEPT !.slot[s] = z])
         PROVE  Goal
    <2> DEFINE x == [r EXCEPT !.slot[s] = z]
    <2>1. /\ x.at = "revoking" /\ x.op = r.op /\ x.made = r.made
          /\ x.err = r.err /\ x.egErr = r.egErr
      BY <1>1, <1>19 DEF Requests, RequestRecords
    <2>2. Become(p, x)
      BY <1>19
    <2> HIDE DEF x
    <2>3. QED
      BY <1>18, <1>19, <2>1, <2>2
  <1>20. ASSUME NEW s \in TokenTypes, NEW n, r.at = "revoking",
                Become(p, [r EXCEPT !.slot[s] = "store", !.ttl[s] = n])
         PROVE  Goal
    <2> DEFINE x == [r EXCEPT !.slot[s] = "store", !.ttl[s] = n]
    <2>1. /\ x.at = "revoking" /\ x.op = r.op /\ x.made = r.made
          /\ x.err = r.err /\ x.egErr = r.egErr
      BY <1>1, <1>20 DEF Requests, RequestRecords
    <2>2. Become(p, x)
      BY <1>20
    <2> HIDE DEF x
    <2>3. QED
      BY <1>18, <1>20, <2>1, <2>2
  <1>21. ASSUME NEW s \in TokenTypes, ParseTokenClaims(p, s)
         PROVE  Goal
    BY <1>19, <1>20, <1>21 DEF ParseTokenClaims, r
  <1>22. ASSUME NEW s \in TokenTypes, CalculateTtl(p, s)
         PROVE  Goal
    BY <1>19, <1>20, <1>22 DEF CalculateTtl, r
  <1>23. ASSUME NEW s \in TokenTypes, StoreEntry(p, s)
         PROVE  Goal
    <2> DEFINE x == [r EXCEPT !.slot[s] = "done",
                              !.egErr = IF r.egErr = "nil" THEN "ErrRedisSet"
                                                           ELSE r.egErr]
    <2>1. r.at = "revoking"
      BY <1>23 DEF StoreEntry, r
    <2>2. /\ x.at = "revoking" /\ x.op = r.op /\ x.made = r.made
          /\ x.err = r.err
      BY <1>1, <2>1 DEF Requests, RequestRecords
    <2> HIDE DEF x
    <2>3. ASSUME "set" \in Faults \/ "lost" \in Faults, Become(p, x)
          PROVE  Goal
      <3>1. Faults # {}
        BY <2>3
      <3>2. QED
        BY <1>18, <2>1, <2>2, <2>3, <3>1
    <2>4. QED
      BY <1>19, <1>23, <2>1, <2>3 DEF StoreEntry, r, x
  <1>24. ASSUME Deliver(p)
         PROVE  Goal
    BY <1>5, <1>24, IdleGrounded DEF Deliver
  <1>25. QED
    BY <1>7, <1>8, <1>9, <1>10, <1>11, <1>12, <1>13, <1>14, <1>15, <1>16,
       <1>17, <1>21, <1>22, <1>23, <1>24 DEF Serve, Goal

\* Reasons last: a spent key stays spent.
LEMMA GroundedLasts ==
  ASSUME IInv, [Next]_vars, NEW x \in Requests, Grounded(x)
  PROVE  Grounded(x)'
  <1>1. TypeOK /\ EntriesOutliveTokens
    BY DEF IInv
  <1>2. ASSUME NEW s \in TokenTypes, Spent(KeyOf(x, s))
        PROVE  Spent(KeyOf(x, s))'
    <2>1. PICK k \in TokenTypes \X Presentable : k = KeyOf(x, s)
      BY KeyType
    <2>2. Spent(k)'
      BY <1>1, <1>2, <2>1, SpentForever
    <2>3. QED
      BY <2>1, <2>2
  <1>3. "access" \in TokenTypes /\ "refresh" \in TokenTypes
    BY DEF TokenTypes
  <1>4. Justified(x)'
    BY <1>2, <1>3 DEF Grounded, Justified
  <1>5. Identified(x)'
    BY DEF Grounded, Identified, Made, CannotSign
  <1>6. QED
    BY <1>4, <1>5 DEF Grounded

AllGrounded == \A p \in Procs : Grounded(req[p])

LEMMA GroundedStep ==
  ASSUME IInv, AllGrounded, [Next]_vars
  PROVE  AllGrounded'
  <1>1. TypeOK
    BY DEF IInv
  <1>2. IInv'
    BY InvariantStep
  <1>3. \A q \in Procs : req'[q] \in Requests
    BY <1>2 DEF IInv, TypeOK
  <1>4. \A q \in Procs : Grounded(req'[q])
    <2>1. \A q \in Procs : Grounded(req[q])
      BY DEF AllGrounded
    <2>2. ASSUME NEW p \in Procs, Arrive(p)
          PROVE  \A q \in Procs : Grounded(req'[q])
      BY <1>1, <2>1, <2>2, ArriveGrounded, ArriveFetches
    <2>3. ASSUME NEW p \in Procs, Serve(p)
          PROVE  \A q \in Procs : Grounded(req'[q])
      BY <1>1, <2>1, <2>3, ServeGrounded, ServeCarries
    <2>4. ASSUME Tick \/ UNCHANGED vars
          PROVE  \A q \in Procs : Grounded(req'[q])
      <3>1. req' = req
        BY <2>4 DEF Tick, vars
      <3>2. QED
        BY <2>1, <3>1
    <2>5. QED
      BY <2>2, <2>3, <2>4 DEF Next
  <1>5. ASSUME NEW q \in Procs
        PROVE  Grounded(req[q])'
    <2>1. PICK x \in Requests : x = req'[q]
      BY <1>3
    <2>2. Grounded(x)
      BY <1>4, <2>1
    <2>3. Grounded(x)'
      BY <2>2, GroundedLasts
    <2>4. QED
      BY <2>1, <2>3
  <1>6. QED
    BY <1>5 DEF AllGrounded

\* Every answer rests on what the inductive invariant says of the request, at
\* every step of every interleaving.
THEOREM AnswersGrounded == Spec => []AllGrounded
  <1>1. Init => AllGrounded
    BY IdleGrounded DEF Init, AllGrounded
  <1>2. IInv /\ AllGrounded /\ [Next]_vars => AllGrounded'
    BY GroundedStep
  <1>3. QED
    BY <1>1, <1>2, Invariance, PTL DEF Spec

\* Whatever fails, a guarded route answers "unauthorized" or "token is expired"
\* only for a token that is listed, expired or not genuine: a user whose token
\* is good sees another error while Redis fails (AuthMiddleware,
\* IsTokenBlacklisted).
THEOREM RefusalsHaveReasons == Spec => []RefusedOnlyIfSpent
  <1>1. AllGrounded => RefusedOnlyIfSpent
    BY DEF AllGrounded, Grounded, Justified, RefusedOnlyIfSpent, Answered
  <1>2. QED
    BY <1>1, AnswersGrounded, PTL

\* As long as no call fails, a response that takes the cookie away leaves a
\* refresh token behind that is listed or expired (AuthController.RefreshToken
\* and Logout).
THEOREM ClearedCookiesSpent ==
  ASSUME Faults = {}
  PROVE  Spec => []ClearedCookieIsSpent
  <1>1. AllGrounded => ClearedCookieIsSpent
    BY DEF AllGrounded, Grounded, Justified, ClearedCookieIsSpent, Answered
  <1>2. QED
    BY <1>1, AnswersGrounded, PTL

\* As long as refresh tokens can be signed, each that goes out is a new one: no
\* client has it, no concurrent answer hands it out, and it is not listed,
\* however many are made in one second for one user (the ID that
\* GenerateRefreshToken draws).
THEOREM RefreshTokensAreNew ==
  ASSUME "sign_refresh" \notin Faults
  PROVE  Spec => []RefreshTokenFresh
  <1>1. ~CannotSign("refresh")
    BY DEF CannotSign, SignFault
  <1>2. IdsUnique /\ AllGrounded => RefreshTokenFresh
    <2> SUFFICES ASSUME IdsUnique, AllGrounded, NEW p \in Procs,
                        Succeeded(p), req[p].op \in {"login", "refresh"}
                 PROVE  LET c == req[p].resp.cookie
                        IN  /\ c \notin handed
                            /\ BlacklistKey("refresh", c) \notin DOMAIN redis
                            /\ \A q \in Procs \ {p} :
                                 Succeeded(q) => req[q].resp.cookie # c
      BY DEF RefreshTokenFresh
    <2> DEFINE c == req[p].resp.cookie
    <2>1. c.jti # 0
      BY <1>1 DEF AllGrounded, Grounded, Identified, Succeeded, Answered
    <2>2. c.jti \in Ids(req[p])
      BY <2>1 DEF Ids
    <2>3. Traced(req[p], serial, handed)
      BY DEF IdsUnique
    <2> HIDE DEF c
    <2>4. c \notin handed
      BY <2>2, <2>3 DEF Traced
    <2>5. c \notin Circulating
      BY <2>1, <2>4, NoIds DEF Circulating
    <2>6. BlacklistKey("refresh", c) \notin DOMAIN redis
      BY <2>5 DEF IdsUnique, BlacklistKey
    <2>7. ASSUME NEW q \in Procs \ {p}, req[q].resp.cookie = c
          PROVE  FALSE
      <3>1. c.jti \in Ids(req[q])
        BY <2>1, <2>7 DEF Ids
      <3>2. QED
        BY <2>2, <3>1 DEF IdsUnique
    <2>8. QED
      BY <2>4, <2>6, <2>7 DEF c
  <1>3. QED
    BY <1>2, IdsStayUnique, AnswersGrounded, PTL

\* Only a failing signature can make a refresh succeed without both tokens: the
\* shared err of the two goroutines of RefreshToken loses nothing else.
THEOREM RefreshReturnsBoth ==
  ASSUME Faults \cap {"sign_access", "sign_refresh"} = {}
  PROVE  Spec => []RefreshReturnsBothTokens
  <1>1. ~CannotSign("refresh") /\ ~CannotSign("access")
    BY DEF CannotSign, SignFault
  <1>2. AllGrounded => RefreshReturnsBothTokens
    BY <1>1, NoIds DEF AllGrounded, Grounded, Identified, RefreshReturnsBothTokens,
       Succeeded, Answered
  <1>3. QED
    BY <1>2, AnswersGrounded, PTL
=============================================================================
