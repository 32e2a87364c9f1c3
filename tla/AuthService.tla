----------------------------- MODULE AuthService -----------------------------
(***************************************************************************)
(* Token authentication: JwtService, BlacklistService, AuthService, the    *)
(* auth middleware and the auth controller, with the Redis blacklist they  *)
(* share.  Each handler runs as a process; its calls to Redis, its reads   *)
(* of the clock and the goroutines of its errgroups are separate steps, so *)
(* concurrent requests interleave as they do in the program.               *)
(***************************************************************************)
EXTENDS RedisStore

CONSTANTS
  Procs,          \* handler goroutines, each serving one request at a time
  Users,          \* UUIDs of the accounts that can log in
  MsPerSecond,    \* milliseconds per second, the precision of a NumericDate
  AccessSeconds,  \* jwt.access_token_expiration
  RefreshSeconds, \* jwt.refresh_token_expiration
  FallbackTtl,    \* the 24 hours of BlacklistService.Add, in ticks
  Faults,         \* the calls that may fail
  Foreign,        \* may clients send a bad body, no token, or a string that was
                  \* never issued as such?
  MaxNow,         \* bound: the clock stops here
  MaxRequests     \* bound: number of requests that arrive

ASSUME AuthAssumption ==
  /\ MsPerSecond \in Nat \ {0}
  /\ AccessSeconds \in Nat \ {0}
  /\ RefreshSeconds \in Nat \ {0}
  /\ FallbackTtl \in Nat \ {0}
  /\ Foreign \in BOOLEAN
  /\ MaxNow \in Nat
  /\ MaxRequests \in Nat

\* "get": a Redis GET fails; "set": a SET fails and is not applied; "lost":
\* a SET is applied but its reply is lost; "sign_...": SignedString fails.
FaultKinds == {"get", "set", "lost", "sign_access", "sign_refresh"}

ASSUME FaultsAssumption == Faults \subseteq FaultKinds

VARIABLES
  now,        \* the clock
  redis,      \* the blacklist: <<token type, token>> -> deadline
  serial,     \* number of requests so far; numbers stand for random UUIDs
  handed,     \* tokens that reached a client
  req,        \* the request each process is serving
  retired     \* history: keys of tokens whose logout or exchange succeeded

vars == <<now, redis, serial, handed, req, retired>>

-----------------------------------------------------------------------------
(* Tokens *)

\* constant.TokenType.  It names both the blacklist namespace and the secret
\* that signs a token; the two secrets of the configuration differ.
TokenTypes == {"access", "refresh"}

SecTicks == MsPerSecond * MsTicks

\* GetAccessTokenExpiration and GetRefreshTokenExpiration.
LifeOf(s) == (IF s = "access" THEN AccessSeconds ELSE RefreshSeconds) * SecTicks

\* jwt.NewNumericDate rounds an instant down to whole seconds.
NumericDate(t) == (t \div SecTicks) * SecTicks

WholeSeconds == {t \in Nat : t % SecTicks = 0}

\* What identifies a signed token: the secret, the user's UUID and the
\* expiry, and for a refresh token its random ID (the number of the request
\* that draws it, as each draws at most one).  IssuedAt adds nothing: it is the expiry minus a
\* constant.
Token == [kind : TokenTypes, uuid : Users, exp : WholeSeconds, jti : Nat]

\* Strings a client may send that are no token of this service.
Garbage == [kind |-> "garbage", uuid |-> "none", exp |-> 0, jti |-> 0]
Missing == [kind |-> "missing", uuid |-> "none", exp |-> 0, jti |-> 0]

Presentable == Token \cup {Garbage, Missing}

\* Mutant: a refresh token without its random ID.
GenerateTokenNoId(s, u, t, n) ==
  [kind |-> s, uuid |-> u, exp |-> NumericDate(t + LifeOf(s)), jti |-> 0]

\* GenerateAccessToken and GenerateRefreshToken at time t.
GenerateToken(s, u, t, n) ==
  [kind |-> s, uuid |-> u, exp |-> NumericDate(t + LifeOf(s)),
   jti |-> IF s = "refresh" THEN n ELSE 0]

\* validateToken: the signature fits the secret of s and the token has not
\* expired at time t.
Validates(tok, s, t) == tok.kind = s /\ t < tok.exp

\* The key of RedisTokenBlacklist; the SHA-256 hash stands for the token.
BlacklistKey(s, tok) == <<s, tok>>

\* A key that no request can pass with any more: the token is not genuine,
\* or has expired, or is listed.
Spent(key) == ~Validates(key[2], key[1], now) \/ key \in DOMAIN redis

-----------------------------------------------------------------------------
(* Requests *)

Ops == {"none", "login", "refresh", "logout", "guard"}

Places == {"idle", "findUser", "signAccess", "signRefresh", "lookup",
           "validate", "generating", "revoking", "replied"}

\* Where the goroutine of a token type is, in an errgroup or in Add.
SlotStates == {"off", "sign", "check", "parse", "ttl", "store", "done"}

HeaderErrors == {"ErrAuthorizationHeader", "ErrBearerHeader",
                 "ErrAccessTokenMissing"}

Errors == HeaderErrors \cup
          {"nil", "ErrBadRequest", "ErrInvalidEmailOrPassword", "ErrInvalidToken",
           "ErrUnauthorized", "ErrTokenIsExpired", "ErrRedisSet", "ErrRedisGet",
           "ErrAccessTokenGeneration", "ErrRefreshTokenGeneration"}

GenerationError(s) == IF s = "access" THEN "ErrAccessTokenGeneration"
                                      ELSE "ErrRefreshTokenGeneration"

SignFault(s) == IF s = "access" THEN "sign_access" ELSE "sign_refresh"

\* The refresh_token cookie of a response: unchanged, cleared, or a token.
Kept == [kind |-> "kept", uuid |-> "none", exp |-> 0, jti |-> 0]
Cleared == [kind |-> "cleared", uuid |-> "none", exp |-> 0, jti |-> 0]

\* What signing yields: a token, or "" if it failed.
Minted == Token \cup {Missing}

Responses == [err : Errors, access : Minted, cookie : Minted \cup {Kept, Cleared}]

NoResponse == [err |-> "nil", access |-> Missing, cookie |-> Kept]

RequestRecords ==
  [op     : Ops,
   at     : Places,
   shown  : [TokenTypes -> Presentable],  \* bearer token and cookie
   who    : Users \cup {"none"},          \* the user tokens are made for
   jti    : Nat,                          \* the UUID drawn for this request
   slot   : [TokenTypes -> SlotStates],
   ttl    : [TokenTypes -> Nat],
   made   : [TokenTypes -> Minted],       \* accessToken, newRefreshToken
   err    : Errors,                       \* the err both goroutines assign
   egErr  : Errors,                       \* what errgroup's Wait returns
   resp   : Responses,
   late   : BOOLEAN]                      \* history: see Arrival

\* While tokens are made, it is known for whom.
Requests ==
  {r \in RequestRecords :
     r.at \in {"findUser", "signAccess", "signRefresh", "generating"}
       => r.who \in Users}

Idle ==
  [op |-> "none", at |-> "idle", shown |-> [s \in TokenTypes |-> Missing],
   who |-> "none", jti |-> 0, slot |-> [s \in TokenTypes |-> "off"],
   ttl |-> [s \in TokenTypes |-> 0], made |-> [s \in TokenTypes |-> Missing],
   err |-> "nil", egErr |-> "nil", resp |-> NoResponse, late |-> FALSE]

TypeOK ==
  /\ now \in Nat
  /\ serial \in Nat
  /\ handed \subseteq Token
  /\ retired \subseteq TokenTypes \X Presentable
  /\ DOMAIN redis \subseteq TokenTypes \X Presentable
  /\ \A k \in DOMAIN redis : redis[k] \in Nat \cup {NoExpiry}
  /\ req \in [Procs -> Requests]

Init ==
  /\ now = 0
  /\ redis = EmptyStore
  /\ serial = 0
  /\ handed = {}
  /\ req = [p \in Procs |-> Idle]
  /\ retired = {}

-----------------------------------------------------------------------------
(* Helpers of the handlers *)

KeyOf(r, s) == BlacklistKey(s, r.shown[s])

\* The token type a guarded route or a refresh checks.
Checked(r) == IF r.op = "guard" THEN "access" ELSE "refresh"

Become(p, r) == req' = [req EXCEPT ![p] = r]

\* The handler returns: its locals are gone, its response stays.
Reply(r, e, a, c) ==
  [Idle EXCEPT !.op = r.op, !.at = "replied", !.shown = r.shown, !.late = r.late,
               !.resp = [err |-> e, access |-> a, cookie |-> c]]

\* The handler returns an error; AuthController.RefreshToken then also clears
\* the cookie, whatever the error of the service was.
Fail(r, e) == Reply(r, e, Missing, IF r.op = "refresh" THEN Cleared ELSE Kept)

\* A request that shows a token; late records that its key was spent already.
Arrival(o, a, r) ==
  LET new == [Idle EXCEPT !.op = o, !.shown = [s \in TokenTypes |->
                                       IF s = "access" THEN a ELSE r]]
  IN  [new EXCEPT !.late = o # "logout" /\ Spent(KeyOf(new, Checked(new)))]

\* What a client can show as a token of type s: one it was given, or another
\* string.
Strings(s) == {t \in handed : t.kind = s}
                \cup (IF Foreign THEN handed \cup {Garbage} ELSE {})

-----------------------------------------------------------------------------
(* Login *)

StartLogin(p, u) ==
  /\ req[p].at = "idle"
  /\ Become(p, [Idle EXCEPT !.op = "login", !.at = "findUser", !.who = u,
                            !.jti = serial + 1])
  /\ UNCHANGED <<now, redis, handed, retired>>

\* ParseAndValidate refuses the body.
LoginBadRequest(p) ==
  /\ req[p].at = "idle"
  /\ Become(p, Reply(Arrival("login", Missing, Missing), "ErrBadRequest", Missing, Kept))
  /\ UNCHANGED <<now, redis, handed, retired>>

\* FindByEmail and CompareHashAndPassword.
FindUser(p) ==
  /\ req[p].at = "findUser"
  /\ \/ Become(p, [req[p] EXCEPT !.at = "signAccess"])
     \/ Become(p, Fail(req[p], "ErrInvalidEmailOrPassword"))
  /\ UNCHANGED <<now, redis, serial, handed, retired>>

LoginSignAccess(p) ==
  /\ req[p].at = "signAccess"
  /\ \/ Become(p, [req[p] EXCEPT
                     !.at = "signRefresh",
                     !.made["access"] = GenerateToken("access", req[p].who, now, 0)])
     \/ /\ SignFault("access") \in Faults
        /\ Become(p, Fail(req[p], GenerationError("access")))
  /\ UNCHANGED <<now, redis, serial, handed, retired>>

LoginSignRefresh(p) ==
  /\ req[p].at = "signRefresh"
  /\ \/ Become(p, Reply(req[p], "nil", req[p].made["access"],
                        GenerateToken("refresh", req[p].who, now, req[p].jti)))
     \/ /\ SignFault("refresh") \in Faults
        /\ Become(p, Fail(req[p], GenerationError("refresh")))
  /\ UNCHANGED <<now, redis, serial, handed, retired>>

-----------------------------------------------------------------------------
(* The checks a guarded route and a refresh have in common *)

StartGuard(p, t) ==
  /\ req[p].at = "idle"
  /\ Become(p, [Arrival("guard", t, Missing) EXCEPT !.at = "lookup"])
  /\ UNCHANGED <<now, redis, handed, retired>>

\* No Authorization header, no Bearer prefix, or nothing after it.
GuardBadHeader(p, e) ==
  /\ req[p].at = "idle"
  /\ Become(p, Reply(Arrival("guard", Missing, Missing), e, Missing, Kept))
  /\ UNCHANGED <<now, redis, handed, retired>>

StartRefresh(p, t) ==
  /\ req[p].at = "idle"
  /\ Become(p, [Arrival("refresh", Missing, t) EXCEPT !.at = "lookup",
                                                      !.jti = serial + 1])
  /\ UNCHANGED <<now, redis, handed, retired>>

\* Without a cookie the controller answers before it calls the service.
RefreshNoCookie(p) ==
  /\ req[p].at = "idle"
  /\ Become(p, Reply(Arrival("refresh", Missing, Missing),
                     "ErrUnauthorized", Missing, Kept))
  /\ UNCHANGED <<now, redis, handed, retired>>

\* Mutant: bearer tokens are looked up among the refresh tokens.
IsTokenBlacklistedOneList(p) ==
  LET listed == BlacklistKey("refresh", req[p].shown[Checked(req[p])]) \in DOMAIN redis
  IN  /\ req[p].at = "lookup"
      /\ \/ listed /\ Become(p, Fail(req[p], "ErrUnauthorized"))
         \/ ~listed /\ Become(p, [req[p] EXCEPT !.at = "validate"])
      /\ UNCHANGED <<now, redis, serial, handed, retired>>

\* Mutant: a failing lookup counts as "not listed".
IsTokenBlacklistedFailOpen(p) ==
  LET listed == KeyOf(req[p], Checked(req[p])) \in DOMAIN redis
  IN  /\ req[p].at = "lookup"
      /\ \/ listed /\ Become(p, Fail(req[p], "ErrUnauthorized"))
         \/ /\ ~listed \/ "get" \in Faults
            /\ Become(p, [req[p] EXCEPT !.at = "validate"])
      /\ UNCHANGED <<now, redis, serial, handed, retired>>

\* Mutant: a failing lookup counts as "listed" in a guarded route too.
IsTokenBlacklistedFailShut(p) ==
  LET listed == KeyOf(req[p], Checked(req[p])) \in DOMAIN redis
  IN  /\ req[p].at = "lookup"
      /\ \/ /\ listed \/ "get" \in Faults
            /\ Become(p, Fail(req[p], "ErrUnauthorized"))
         \/ ~listed /\ Become(p, [req[p] EXCEPT !.at = "validate"])
      /\ UNCHANGED <<now, redis, serial, handed, retired>>

\* A refresh reports every error of the lookup as ErrUnauthorized.
IsTokenBlacklisted(p) ==
  LET listed == KeyOf(req[p], Checked(req[p])) \in DOMAIN redis
  IN  /\ req[p].at = "lookup"
      /\ \/ listed /\ Become(p, Fail(req[p], "ErrUnauthorized"))
         \/ ~listed /\ Become(p, [req[p] EXCEPT !.at = "validate"])
         \/ /\ "get" \in Faults
            /\ Become(p, Fail(req[p], IF req[p].op = "guard" THEN "ErrRedisGet"
                                                             ELSE "ErrUnauthorized"))
      /\ UNCHANGED <<now, redis, serial, handed, retired>>

ValidateAccessToken(p) ==
  LET valid == Validates(req[p].shown["access"], "access", now)
  IN  /\ req[p].at = "validate" /\ req[p].op = "guard"
      /\ \/ valid /\ Become(p, Reply(req[p], "nil", Missing, Kept))
         \/ ~valid /\ Become(p, Fail(req[p], "ErrTokenIsExpired"))
      /\ UNCHANGED <<now, redis, serial, handed, retired>>

ValidateRefreshToken(p) ==
  LET valid == Validates(req[p].shown["refresh"], "refresh", now)
  IN  /\ req[p].at = "validate" /\ req[p].op = "refresh"
      /\ \/ valid /\ Become(p, [req[p] EXCEPT
                                  !.at = "generating",
                                  !.who = req[p].shown["refresh"].uuid,
                                  !.slot = [s \in TokenTypes |-> "sign"]])
         \/ ~valid /\ Become(p, Fail(req[p], "ErrInvalidToken"))
      /\ UNCHANGED <<now, redis, serial, handed, retired>>

-----------------------------------------------------------------------------
(* Refresh: two goroutines mint the new pair, both assigning the one err of *)
(* the enclosing function                                                   *)

Generate(p, s) ==
  /\ req[p].at = "generating" /\ req[p].slot[s] = "sign"
  /\ \/ Become(p, [req[p] EXCEPT
                     !.slot[s] = "check", !.err = "nil",
                     !.made[s] = GenerateToken(s, req[p].who, now, req[p].jti)])
     \/ /\ SignFault(s) \in Faults
        /\ Become(p, [req[p] EXCEPT !.slot[s] = "check", !.err = GenerationError(s)])
  /\ UNCHANGED <<now, redis, serial, handed, retired>>

\* Mutant: a goroutine whose token failed never tells its errgroup.
CheckGeneratedNoDone(p, s) ==
  /\ req[p].at = "generating" /\ req[p].slot[s] = "check"
  /\ req[p].err = "nil"
  /\ Become(p, [req[p] EXCEPT !.slot[s] = "done"])
  /\ UNCHANGED <<now, redis, serial, handed, retired>>

\* The if that reads err again; errgroup keeps the first error returned.
CheckGenerated(p, s) ==
  /\ req[p].at = "generating" /\ req[p].slot[s] = "check"
  /\ Become(p, [req[p] EXCEPT
                  !.slot[s] = "done",
                  !.egErr = IF @ = "nil" /\ req[p].err # "nil"
                            THEN GenerationError(s) ELSE @])
  /\ UNCHANGED <<now, redis, serial, handed, retired>>

AwaitGenerated(p) ==
  /\ req[p].at = "generating"
  /\ \A s \in TokenTypes : req[p].slot[s] = "done"
  /\ \/ /\ req[p].egErr # "nil"
        /\ Become(p, Fail(req[p], req[p].egErr))
     \/ /\ req[p].egErr = "nil"
        /\ Become(p, [req[p] EXCEPT !.at = "revoking",
                                    !.slot["access"] = "off",
                                    !.slot["refresh"] = "parse"])
  /\ UNCHANGED <<now, redis, serial, handed, retired>>

\* The old refresh token is listed: the new pair goes out.
FinishRefresh(p) ==
  /\ req[p].at = "revoking" /\ req[p].op = "refresh"
  /\ req[p].slot["refresh"] = "done"
  /\ \/ /\ req[p].egErr # "nil"
        /\ Become(p, Fail(req[p], req[p].egErr))
        /\ UNCHANGED retired
     \/ /\ req[p].egErr = "nil"
        /\ Become(p, Reply(req[p], "nil", req[p].made["access"],
                                          req[p].made["refresh"]))
        /\ retired' = retired \cup {KeyOf(req[p], "refresh")}
  /\ UNCHANGED <<now, redis, serial, handed>>

-----------------------------------------------------------------------------
(* Logout: two goroutines list the two tokens *)

\* Mutant: only the access token is listed.
StartLogoutAccessOnly(p, a, r) ==
  /\ req[p].at = "idle"
  /\ Become(p, [Arrival("logout", a, r) EXCEPT
                  !.at = "revoking", !.slot["access"] = "parse",
                  !.slot["refresh"] = "done"])
  /\ UNCHANGED <<now, redis, handed, retired>>

StartLogout(p, a, r) ==
  /\ req[p].at = "idle"
  /\ Become(p, [Arrival("logout", a, r) EXCEPT
                  !.at = "revoking", !.slot = [s \in TokenTypes |-> "parse"]])
  /\ UNCHANGED <<now, redis, handed, retired>>

\* No bearer token or no cookie: refused before the service is called.
LogoutMissing(p) ==
  /\ req[p].at = "idle"
  /\ Become(p, Reply(Arrival("logout", Missing, Missing),
                     "ErrUnauthorized", Missing, Kept))
  /\ UNCHANGED <<now, redis, handed, retired>>

\* Mutant: logout waits for the first of its goroutines only.
FinishLogoutEarly(p) ==
  /\ req[p].at = "revoking" /\ req[p].op = "logout"
  /\ \E s \in TokenTypes : req[p].slot[s] = "done"
  /\ Become(p, Reply(req[p], "nil", Missing, Cleared))
  /\ retired' = retired \cup {KeyOf(req[p], s) : s \in TokenTypes}
  /\ UNCHANGED <<now, redis, serial, handed>>

FinishLogout(p) ==
  /\ req[p].at = "revoking" /\ req[p].op = "logout"
  /\ \A s \in TokenTypes : req[p].slot[s] = "done"
  /\ \/ /\ req[p].egErr # "nil"
        /\ Become(p, Fail(req[p], req[p].egErr))
        /\ UNCHANGED retired
     \/ /\ req[p].egErr = "nil"
        /\ Become(p, Reply(req[p], "nil", Missing, Cleared))
        /\ retired' = retired \cup {KeyOf(req[p], s) : s \in TokenTypes}
  /\ UNCHANGED <<now, redis, serial, handed>>

-----------------------------------------------------------------------------
(* BlacklistService.Add, in the goroutine of token type s *)

\* A token that does not validate is listed for a default time.
ParseTokenClaims(p, s) ==
  LET valid == Validates(req[p].shown[s], s, now)
  IN  /\ req[p].at = "revoking" /\ req[p].slot[s] = "parse"
      /\ \/ valid /\ Become(p, [req[p] EXCEPT !.slot[s] = "ttl"])
         \/ ~valid /\ Become(p, [req[p] EXCEPT !.slot[s] = "store",
                                               !.ttl[s] = FallbackTtl])
      /\ UNCHANGED <<now, redis, serial, handed, retired>>

\* Mutant: the TTL is sent whatever it is.
CalculateTtlUnchecked(p, s) ==
  /\ req[p].at = "revoking" /\ req[p].slot[s] = "ttl"
  /\ Become(p, [req[p] EXCEPT !.slot[s] = "store",
                              !.ttl[s] = req[p].shown[s].exp - now])
  /\ UNCHANGED <<now, redis, serial, handed, retired>>

\* Mutant: a TTL of 0 is sent, which Redis takes for "no expiry".
CalculateTtlAllowsZero(p, s) ==
  LET ttl == req[p].shown[s].exp - now
  IN  /\ req[p].at = "revoking" /\ req[p].slot[s] = "ttl"
      /\ \/ ttl < 0 /\ Become(p, [req[p] EXCEPT !.slot[s] = "done"])
         \/ ttl >= 0 /\ Become(p, [req[p] EXCEPT !.slot[s] = "store", !.ttl[s] = ttl])
      /\ UNCHANGED <<now, redis, serial, handed, retired>>

\* Mutant: the TTL is cut to whole seconds.
CalculateTtlInSeconds(p, s) ==
  LET ttl == NumericDate(req[p].shown[s].exp - now)
  IN  /\ req[p].at = "revoking" /\ req[p].slot[s] = "ttl"
      /\ \/ ttl <= 0 /\ Become(p, [req[p] EXCEPT !.slot[s] = "done"])
         \/ ttl > 0 /\ Become(p, [req[p] EXCEPT !.slot[s] = "store", !.ttl[s] = ttl])
      /\ UNCHANGED <<now, redis, serial, handed, retired>>

\* time.Until; a token that expired since it was parsed is skipped.
CalculateTtl(p, s) ==
  LET ttl == req[p].shown[s].exp - now
  IN  /\ req[p].at = "revoking" /\ req[p].slot[s] = "ttl"
      /\ \/ ttl <= 0 /\ Become(p, [req[p] EXCEPT !.slot[s] = "done"])
         \/ ttl > 0 /\ Become(p, [req[p] EXCEPT !.slot[s] = "store", !.ttl[s] = ttl])
      /\ UNCHANGED <<now, redis, serial, handed, retired>>

\* Mutant: the error of the SET is logged and forgotten.
StoreEntryIgnoresError(p, s) ==
  LET stored == Put(redis, KeyOf(req[p], s), DeadlineOf(req[p].ttl[s], now))
  IN  /\ req[p].at = "revoking" /\ req[p].slot[s] = "store"
      /\ Become(p, [req[p] EXCEPT !.slot[s] = "done"])
      /\ \/ redis' = stored
         \/ "set" \in Faults /\ redis' = redis
      /\ UNCHANGED <<now, serial, handed, retired>>

\* The SET of RedisTokenBlacklist.Add.
StoreEntry(p, s) ==
  LET stored == Put(redis, KeyOf(req[p], s), DeadlineOf(req[p].ttl[s], now))
      failed == [req[p] EXCEPT !.slot[s] = "done",
                               !.egErr = IF @ = "nil" THEN "ErrRedisSet" ELSE @]
  IN  /\ req[p].at = "revoking" /\ req[p].slot[s] = "store"
      /\ \/ redis' = stored /\ Become(p, [req[p] EXCEPT !.slot[s] = "done"])
         \/ "set" \in Faults /\ redis' = redis /\ Become(p, failed)
         \/ "lost" \in Faults /\ redis' = stored /\ Become(p, failed)
      /\ UNCHANGED <<now, serial, handed, retired>>

-----------------------------------------------------------------------------
(* The response arrives; time passes *)

Deliver(p) ==
  /\ req[p].at = "replied"
  /\ handed' = handed \cup ({req[p].resp.access, req[p].resp.cookie}
                              \ {Missing, Kept, Cleared})
  /\ Become(p, Idle)
  /\ UNCHANGED <<now, redis, serial, retired>>

Tick ==
  /\ now < MaxNow
  /\ now' = now + 1
  /\ redis' = Purge(redis, now + 1)
  /\ UNCHANGED <<serial, handed, req, retired>>

Arrive(p) ==
  /\ serial < MaxRequests
  /\ serial' = serial + 1
  /\ \/ \E u \in Users : StartLogin(p, u)
     \/ \E t \in Strings("access") : StartGuard(p, t)
     \/ \E t \in Strings("refresh") : StartRefresh(p, t)
     \/ \E a \in Strings("access"), r \in Strings("refresh") : StartLogout(p, a, r)
     \/ /\ Foreign
        /\ \/ \E e \in HeaderErrors : GuardBadHeader(p, e)
           \/ LoginBadRequest(p) \/ RefreshNoCookie(p) \/ LogoutMissing(p)

Serve(p) ==
  \/ FindUser(p) \/ LoginSignAccess(p) \/ LoginSignRefresh(p)
  \/ IsTokenBlacklisted(p) \/ ValidateAccessToken(p) \/ ValidateRefreshToken(p)
  \/ \E s \in TokenTypes : Generate(p, s) \/ CheckGenerated(p, s)
  \/ AwaitGenerated(p) \/ FinishRefresh(p) \/ FinishLogout(p)
  \/ \E s \in TokenTypes :
       ParseTokenClaims(p, s) \/ CalculateTtl(p, s) \/ StoreEntry(p, s)
  \/ Deliver(p)

Next == Tick \/ \E p \in Procs : Arrive(p) \/ Serve(p)

Spec == Init /\ [][Next]_vars

\* A handler that can take a step takes it: goroutines are scheduled, and the
\* Redis and database clients give up after their timeouts.
FairSpec == Spec /\ \A p \in Procs : WF_vars(Serve(p))

-----------------------------------------------------------------------------
(* Properties *)

Answered(p) == req[p].at = "replied"
Succeeded(p) == Answered(p) /\ req[p].resp.err = "nil"

Genuine(key) == key[2].kind = key[1]

\* Once a logout, or the exchange of a refresh token, has been answered with
\* success, the tokens it showed pass no later check: each stays listed until
\* it has expired (AuthService.Logout and RefreshToken with BlacklistService).
RetiredKeysSpent == \A k \in retired : Spent(k)

\* A request that arrives with a token that is listed or expired by then is
\* never admitted, although its lookup, its validation and the expiry of the
\* entry happen one after another (AuthMiddleware, AuthService.RefreshToken).
NoLateAdmission ==
  \A p \in Procs :
    Succeeded(p) /\ req[p].op \in {"guard", "refresh"} => ~req[p].late

\* Redis does not drop the entry of a genuine token before the token itself
\* expires: the rounding of the TTL, the time between computing it and the
\* SET, and later SETs of the same key lose no coverage (BlacklistService.Add).
EntriesOutliveTokens ==
  \A k \in DOMAIN redis :
    Genuine(k) /\ redis[k] # NoExpiry => k[2].exp <= (redis[k] + 1) * MsTicks

Lifetimes == {FallbackTtl} \cup {LifeOf(s) : s \in TokenTypes}

LongestTtl == CHOOSE n \in Lifetimes : \A m \in Lifetimes : m <= n

\* No entry stays in Redis for good, or longer than the longest time the
\* configuration allows: the blacklist does not fill up (BlacklistService.Add
\* never sends a TTL of 0 or less, which Redis would keep forever).
EntriesExpire ==
  \A k \in DOMAIN redis :
    redis[k] # NoExpiry /\ redis[k] <= MillisOf(now + LongestTtl)

\* A refresh token that goes out is a new one: no client has it, no concurrent
\* request is about to hand it out, and it is not listed, even when it is made
\* in the same second for the same user (the ID in GenerateRefreshToken).
RefreshTokenFresh ==
  \A p \in Procs :
    Succeeded(p) /\ req[p].op \in {"login", "refresh"} =>
      /\ req[p].resp.cookie \notin handed
      /\ BlacklistKey("refresh", req[p].resp.cookie) \notin DOMAIN redis
      /\ \A q \in Procs \ {p} :
           Succeeded(q) => req[q].resp.cookie # req[p].resp.cookie

\* A guarded route that answers "unauthorized" or "token is expired" does so
\* for a token that is spent, also while Redis fails: the user whose token is
\* good sees another error (AuthMiddleware, IsTokenBlacklisted).
RefusedOnlyIfSpent ==
  \A p \in Procs :
    /\ Answered(p) /\ req[p].op = "guard"
    /\ req[p].resp.err \in {"ErrUnauthorized", "ErrTokenIsExpired"}
    => Spent(KeyOf(req[p], "access"))

\* As long as no call fails, a response that takes the cookie away leaves no
\* usable refresh token behind: the one that was shown is listed or expired
\* (AuthController.RefreshToken and Logout).
ClearedCookieIsSpent ==
  \A p \in Procs :
    Answered(p) /\ req[p].resp.cookie = Cleared => Spent(KeyOf(req[p], "refresh"))

\* README.md, Token Refresh and Logout Flow: new tokens are generated if the
\* refresh token is not blacklisted, and after a logout the user is logged out.
\* Here: a refresh hands out a new pair only if no logout and no other refresh
\* with the same token was answered with success before (AuthService.RefreshToken).
NoTokensOnceRetired ==
  [][\A p \in Procs :
       req[p].at = "revoking" /\ req[p].op = "refresh" /\ Succeeded(p)'
         => KeyOf(req[p], "refresh") \notin retired]_vars

\* README.md, Login Flow: the user can access protected routes using the
\* access token.  Here: the token a login answers with is not listed.
LoginTokenUsable ==
  \A p \in Procs :
    Succeeded(p) /\ req[p].op = "login"
      => BlacklistKey("access", req[p].resp.access) \notin DOMAIN redis

\* auth_service_test.go: a refresh that succeeds returns an access token and a
\* refresh token, and one whose access token cannot be signed fails.
RefreshReturnsBothTokens ==
  \A p \in Procs :
    Succeeded(p) /\ req[p].op = "refresh"
      => Missing \notin {req[p].resp.access, req[p].resp.cookie}

\* Every request that reached a handler is answered, whatever call fails and
\* whichever goroutine of its errgroup finishes first.
EveryRequestAnswered ==
  \A p \in Procs : req[p].at # "idle" ~> req[p].at = "replied"

-----------------------------------------------------------------------------
(* The detailed service implements TokenGate                               *)

\* The strings in circulation, and what they may be shown as.
DeadKeys ==
  {BlacklistKey(s, t) : s \in TokenTypes, t \in handed \cup {Garbage}} \cap
  {k \in TokenTypes \X Presentable : Spent(k)}

NoKey == BlacklistKey("access", Missing)

\* A request of a guarded route or a refresh, with the token it shows.
AskOf(r) ==
  IF \/ r.at = "idle"
     \/ r.op \notin {"guard", "refresh"}
     \/ r.shown[Checked(r)] = Missing
  THEN [state |-> "none", key |-> NoKey, doomed |-> FALSE]
  ELSE [state  |-> IF r.at # "replied" THEN "asking"
                   ELSE IF r.resp.err = "nil" THEN "admitted" ELSE "refused",
        key    |-> KeyOf(r, Checked(r)),
        doomed |-> r.late]

Gate == INSTANCE TokenGate WITH
          Clients <- Procs, dead <- DeadKeys, ask <- [p \in Procs |-> AskOf(req[p])]

\* Expired and revoked tokens stay dead, and a request that shows a dead token
\* is refused, through all interleavings of the handlers, Redis and the clock.
ImplementsTokenGate == Gate!Spec
=============================================================================
