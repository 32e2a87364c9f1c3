--------------------------- MODULE AuthGateProofs ---------------------------
(***************************************************************************)
(* AuthService implements TokenGate: every step of the handlers, of Redis  *)
(* and of the clock is a step of the abstract gate or changes nothing the  *)
(* gate speaks of.                                                         *)
(***************************************************************************)
EXTENDS AuthServiceProofs

\* The gate's variable ask under the refinement mapping.
Asks == [p \in Procs |-> AskOf(req[p])]

LEMMA DeadStep ==
  ASSUME IInv, [Next]_vars
  PROVE  DeadKeys \subseteq DeadKeys'
  <1>1. TypeOK /\ EntriesOutliveTokens
    BY DEF IInv
  <1>2. handed \subseteq handed'
    <2>1. ASSUME NEW p \in Procs, Arrive(p)
          PROVE  handed' = handed
      BY <2>1 DEF Arrive, StartLogin, StartGuard, StartRefresh, StartLogout,
         GuardBadHeader, LoginBadRequest, RefreshNoCookie, LogoutMissing
    <2>2. ASSUME NEW p \in Procs, Serve(p), ~Deliver(p)
          PROVE  handed' = handed
      BY <2>2 DEF Serve, FindUser, LoginSignAccess, LoginSignRefresh,
         IsTokenBlacklisted, ValidateAccessToken, ValidateRefreshToken, Generate,
         CheckGenerated, AwaitGenerated, FinishRefresh, FinishLogout,
         ParseTokenClaims, CalculateTtl, StoreEntry
    <2>3. ASSUME NEW p \in Procs, Deliver(p)
          PROVE  handed \subseteq handed'
      BY <2>3 DEF Deliver
    <2>4. QED
      BY <2>1, <2>2, <2>3 DEF Next, Tick, vars
  <1>3. ASSUME NEW k \in DeadKeys
        PROVE  k \in DeadKeys'
    <2>1. k \in TokenTypes \X Presentable /\ Spent(k)
      BY <1>3 DEF DeadKeys
    <2>2. Spent(k)'
      BY <1>1, <2>1, SpentForever
    <2>3. PICK s \in TokenTypes, t \in handed \cup {Garbage} : k = BlacklistKey(s, t)
      BY <1>3 DEF DeadKeys
    <2>4. QED
      BY <1>2, <2>1, <2>2, <2>3 DEF DeadKeys, Spent, BlacklistKey
  <1>4. QED
    BY <1>3

\* Showing a string a client can have is entering the gate with its key.
LEMMA DoomedIffDead ==
  ASSUME TypeOK, NEW s \in TokenTypes, NEW t \in Strings(s)
  PROVE  Spent(BlacklistKey(s, t)) <=> BlacklistKey(s, t) \in DeadKeys
  <1>1. t \in handed \cup {Garbage}
    BY DEF Strings
  <1>2. BlacklistKey(s, t) \in TokenTypes \X Presentable
    BY StringsType DEF BlacklistKey
  <1>3. QED
    BY <1>1, <1>2 DEF DeadKeys

\* No string a client shows as a token is the missing one.
LEMMA StringsNotMissing ==
  ASSUME TypeOK, NEW s \in TokenTypes
  PROVE  Missing \notin Strings(s)
  BY DEF Strings, TypeOK, Token, TokenTypes, Missing, Garbage

LEMMA AskChanged ==
  ASSUME TypeOK, NEW p \in Procs, NEW r, Become(p, r)
  PROVE  Asks' = [Asks EXCEPT ![p] = AskOf(r)]
  <1>1. req'[p] = r /\ \A q \in Procs \ {p} : req'[q] = req[q]
    BY BecomeValue
  <1>2. \A q \in Procs : AskOf(req[q])' = AskOf(req'[q])
    BY DEF AskOf, KeyOf, Checked
  <1>3. QED
    BY <1>1, <1>2 DEF Asks

\* A step that leaves alone what a request asks for, and does not answer it.
LEMMA SameAsk ==
  ASSUME TypeOK, NEW p \in Procs, NEW r, Become(p, r),
         r.op = req[p].op, r.shown = req[p].shown, r.late = req[p].late,
         r.at \notin {"idle", "replied"}, req[p].at \notin {"idle", "replied"}
  PROVE  UNCHANGED Asks
  <1>1. AskOf(r) = AskOf(req[p])
    BY DEF AskOf, KeyOf, Checked
  <1>2. Asks[p] = AskOf(req[p]) /\ Asks = [q \in Procs |-> Asks[q]]
    BY DEF Asks
  <1>3. QED
    BY <1>1, <1>2, AskChanged

\* An answer is the gate's, unless nothing was asked of the gate.
LEMMA AnsweredAsk ==
  ASSUME TypeOK, NEW p \in Procs, NEW e, NEW a, NEW c,
         Become(p, Reply(req[p], e, a, c)),
         req[p].at \notin {"idle", "replied"},
         e = "nil" => ~req[p].late
  PROVE  Gate!Admit(p) \/ Gate!Refuse(p) \/ UNCHANGED Asks
  <1> DEFINE r == req[p]
             x == Reply(r, e, a, c)
  <1>1. Asks' = [Asks EXCEPT ![p] = AskOf(x)]
    BY AskChanged
  <1>2. /\ x.op = r.op /\ x.shown = r.shown /\ x.late = r.late
        /\ x.at = "replied" /\ x.resp.err = e
    BY DEF Reply, Idle
  <1> HIDE DEF x
  <1>3. CASE r.op \notin {"guard", "refresh"} \/ r.shown[Checked(r)] = Missing
    <2>1. AskOf(x) = AskOf(r)
      BY <1>2, <1>3 DEF AskOf, Checked
    <2>2. Asks[p] = AskOf(r) /\ Asks = [q \in Procs |-> Asks[q]]
      BY DEF Asks
    <2>3. QED
      BY <1>1, <2>1, <2>2
  <1>4. CASE ~(r.op \notin {"guard", "refresh"} \/ r.shown[Checked(r)] = Missing)
    <2>1. AskOf(r) = [state |-> "asking", key |-> KeyOf(r, Checked(r)),
                      doomed |-> r.late]
      BY <1>4 DEF AskOf
    <2>2. AskOf(x) = [state |-> IF e = "nil" THEN "admitted" ELSE "refused",
                      key |-> KeyOf(r, Checked(r)), doomed |-> r.late]
      BY <1>2, <1>4 DEF AskOf, Checked, KeyOf
    <2>3. AskOf(x) = [AskOf(r) EXCEPT !.state = IF e = "nil" THEN "admitted"
                                                            ELSE "refused"]
      BY <2>1, <2>2
    <2>4. Asks[p] = AskOf(r)
      BY DEF Asks
    <2>5. CASE e = "nil"
      <3>1. Asks' = [Asks EXCEPT ![p].state = "admitted"]
        BY <1>1, <2>3, <2>4, <2>5
      <3>2. Asks[p].state = "asking" /\ ~Asks[p].doomed
        BY <2>1, <2>4, <2>5
      <3>3. QED
        BY <3>1, <3>2 DEF Gate!Admit, Asks
    <2>6. CASE e # "nil"
      <3>1. Asks' = [Asks EXCEPT ![p].state = "refused"]
        BY <1>1, <2>3, <2>4, <2>6
      <3>2. Asks[p].state = "asking"
        BY <2>1, <2>4
      <3>3. QED
        BY <3>1, <3>2 DEF Gate!Refuse, Asks
    <2>7. QED
      BY <2>5, <2>6
  <1>5. QED
    BY <1>3, <1>4

LEMMA FailedAsk ==
  ASSUME TypeOK, NEW p \in Procs, NEW e, e # "nil", Become(p, Fail(req[p], e)),
         req[p].at \notin {"idle", "replied"}
  PROVE  Gate!Admit(p) \/ Gate!Refuse(p) \/ UNCHANGED Asks
  BY AnsweredAsk DEF Fail

LEMMA ServeAsks ==
  ASSUME IInv, NEW p \in Procs, Serve(p)
  PROVE  Gate!Admit(p) \/ Gate!Refuse(p) \/ Gate!Leave(p) \/ UNCHANGED Asks
  <1> DEFINE r == req[p]
             Goal == Gate!Admit(p) \/ Gate!Refuse(p) \/ UNCHANGED Asks
  <1>1. TypeOK /\ RequestSafe(r) /\ r \in Requests
    BY DEF IInv, TypeOK
  <1>2. r.late => r.at \in {"lookup", "validate", "replied"}
    BY <1>1 DEF RequestSafe
  <1>3. ASSUME FindUser(p)
        PROVE  Goal
    BY <1>1, <1>3, SameAsk, FailedAsk DEF FindUser, Requests, RequestRecords
  <1>4. ASSUME LoginSignAccess(p)
        PROVE  Goal
    BY <1>1, <1>4, SameAsk, FailedAsk DEF LoginSignAccess, Requests,
       RequestRecords, GenerationError
  <1>5. ASSUME LoginSignRefresh(p)
        PROVE  Goal
    BY <1>1, <1>2, <1>5, AnsweredAsk, FailedAsk DEF LoginSignRefresh,
       GenerationError
  <1>6. ASSUME IsTokenBlacklisted(p)
        PROVE  Goal
    BY <1>1, <1>6, SameAsk, FailedAsk DEF IsTokenBlacklisted, Requests,
       RequestRecords
  <1>7. ASSUME ValidateAccessToken(p)
        PROVE  Goal
    <2>1. Validates(r.shown["access"], "access", now) => ~r.late
      BY <1>1, <1>7 DEF ValidateAccessToken, RequestSafe, Checked
    <2>2. QED
      BY <1>1, <1>7, <2>1, AnsweredAsk, FailedAsk DEF ValidateAccessToken
  <1>8. ASSUME ValidateRefreshToken(p)
        PROVE  Goal
    BY <1>1, <1>8, SameAsk, FailedAsk DEF ValidateRefreshToken, Requests,
       RequestRecords
  <1>9. ASSUME NEW s \in TokenTypes, Generate(p, s)
        PROVE  Goal
    BY <1>1, <1>9, SameAsk DEF Generate, Requests, RequestRecords
  <1>10. ASSUME NEW s \in TokenTypes, CheckGenerated(p, s)
         PROVE  Goal
    BY <1>1, <1>10, SameAsk DEF CheckGenerated, Requests, RequestRecords
  <1>11. ASSUME AwaitGenerated(p)
         PROVE  Goal
    BY <1>1, <1>11, SameAsk, FailedAsk DEF AwaitGenerated, Requests,
       RequestRecords
  <1>12. ASSUME FinishRefresh(p) \/ FinishLogout(p)
         PROVE  Goal
    BY <1>1, <1>2, <1>12, AnsweredAsk, FailedAsk DEF FinishRefresh, FinishLogout
  <1>13. ASSUME NEW s \in TokenTypes,
                ParseTokenClaims(p, s) \/ CalculateTtl(p, s) \/ StoreEntry(p, s)
         PROVE  Goal
    BY <1>1, <1>13, SameAsk DEF ParseTokenClaims, CalculateTtl, StoreEntry,
       Requests, RequestRecords
  <1>14. ASSUME Deliver(p)
         PROVE  Gate!Leave(p) \/ UNCHANGED Asks
    <2>1. Asks' = [Asks EXCEPT ![p] = AskOf(Idle)]
      BY <1>1, <1>14, AskChanged DEF Deliver
    <2>2. AskOf(Idle) = Gate!NoAsk
      BY DEF AskOf, Idle, Gate!NoAsk
    <2>3. Asks[p] = AskOf(r) /\ Asks = [q \in Procs |-> Asks[q]]
      BY DEF Asks
    <2>4. AskOf(r) = Gate!NoAsk \/ AskOf(r).state \in {"admitted", "refused"}
      BY <1>14 DEF Deliver, AskOf, Gate!NoAsk
    <2>5. CASE AskOf(r) = Gate!NoAsk
      BY <2>1, <2>2, <2>3, <2>5
    <2>6. CASE AskOf(r).state \in {"admitted", "refused"}
      <3>1. Asks[p].state \in {"admitted", "refused"}
            /\ Asks' = [Asks EXCEPT ![p] = Gate!NoAsk]
        BY <2>1, <2>2, <2>3, <2>6
      <3>2. QED
        BY <3>1 DEF Gate!Leave, Asks
    <2>7. QED
      BY <2>4, <2>5, <2>6
  <1>15. QED
    BY <1>3, <1>4, <1>5, <1>6, <1>7, <1>8, <1>9, <1>10, <1>11, <1>12, <1>13,
       <1>14 DEF Serve

\* A request that shows a token enters the gate.
LEMMA EnteringAsk ==
  ASSUME TypeOK, NEW p \in Procs, NEW r, Become(p, r), req[p].at = "idle",
         r.op \in {"guard", "refresh"}, r.at = "lookup",
         NEW t \in Strings(Checked(r)), r.shown[Checked(r)] = t,
         r.late = Spent(BlacklistKey(Checked(r), t))
  PROVE  Gate!Enter(p)
  <1> DEFINE s == Checked(r)
             k == BlacklistKey(s, t)
  <1>1. s \in TokenTypes
    BY DEF Checked, TokenTypes
  <1>2. t # Missing
    BY <1>1, StringsNotMissing
  <1>3. r.late = (k \in DeadKeys)
    <2>1. Spent(k) <=> k \in DeadKeys
      BY <1>1, DoomedIffDead
    <2>2. r.late = Spent(k)
      OBVIOUS
    <2> HIDE DEF k
    <2>3. CASE k \in DeadKeys
      <3>1. Spent(k) = TRUE /\ (k \in DeadKeys) = TRUE
        BY <2>1, <2>3
      <3>2. QED
        BY <2>2, <3>1, Zenon
    <2>4. CASE k \notin DeadKeys
      <3>1. Spent(k) = FALSE /\ (k \in DeadKeys) = FALSE
        BY <2>1, <2>4
      <3>2. QED
        BY <2>2, <3>1, Zenon
    <2>5. QED
      BY <2>3, <2>4
  <1>4. AskOf(r) = [state |-> "asking", key |-> k, doomed |-> k \in DeadKeys]
    BY <1>2, <1>3 DEF AskOf, KeyOf
  <1>5. Asks[p] = Gate!NoAsk
    BY DEF Asks, AskOf, Gate!NoAsk
  <1>6. Asks' = [Asks EXCEPT ![p] = [state |-> "asking", key |-> k,
                                     doomed |-> k \in DeadKeys]]
    BY <1>4, AskChanged
  <1>7. Asks'[p].key = k
    <2>1. p \in DOMAIN Asks
      BY DEF Asks
    <2>2. QED
      BY <1>6, <2>1
  <1> HIDE DEF k
  <1>8. Asks' = [Asks EXCEPT ![p] = [state |-> "asking", key |-> Asks'[p].key,
                                     doomed |-> Asks'[p].key \in DeadKeys]]
    BY <1>6, <1>7
  <1>9. QED
    BY <1>5, <1>8 DEF Gate!Enter, Asks

\* A request with which nothing is asked of the gate.
LEMMA NoAskMade ==
  ASSUME TypeOK, NEW p \in Procs, NEW r, Become(p, r), req[p].at = "idle",
         r.op \notin {"guard", "refresh"} \/ r.shown[Checked(r)] = Missing
  PROVE  UNCHANGED Asks
  <1>1. AskOf(r) = AskOf(req[p])
    BY DEF AskOf
  <1>2. Asks[p] = AskOf(req[p]) /\ Asks = [q \in Procs |-> Asks[q]]
    BY DEF Asks
  <1>3. QED
    BY <1>1, <1>2, AskChanged

\* The history recorded with a request is whether its key was spent.
LEMMA ArrivalLate ==
  ASSUME NEW t
  PROVE  /\ Arrival("guard", t, Missing).late = Spent(BlacklistKey("access", t))
         /\ Arrival("refresh", Missing, t).late = Spent(BlacklistKey("refresh", t))
  <1> DEFINE new(o, a, r) ==
               [Idle EXCEPT !.op = o, !.shown = [s \in TokenTypes |->
                                               IF s = "access" THEN a ELSE r]]
             k(o, a, r) == KeyOf(new(o, a, r), Checked(new(o, a, r)))
  <1>1. k("guard", t, Missing) = BlacklistKey("access", t)
    BY DEF Idle, KeyOf, Checked, TokenTypes
  <1>2. k("refresh", Missing, t) = BlacklistKey("refresh", t)
    BY DEF Idle, KeyOf, Checked, TokenTypes
  <1>3. \A o, a, r : Arrival(o, a, r).late = (o # "logout" /\ Spent(k(o, a, r)))
    BY DEF Arrival, Idle
  <1>4. "guard" # "logout" /\ "refresh" # "logout"
    OBVIOUS
  <1>5. Spent(k("guard", t, Missing)) \in BOOLEAN
        /\ Spent(k("refresh", Missing, t)) \in BOOLEAN
    BY DEF Spent
  <1> HIDE DEF k
  <1>6. QED
    BY <1>1, <1>2, <1>3, <1>4, <1>5, Zenon

LEMMA ArriveAsks ==
  ASSUME TypeOK, NEW p \in Procs, Arrive(p)
  PROVE  Gate!Enter(p) \/ UNCHANGED Asks
  <1>1. ASSUME NEW u \in Users, StartLogin(p, u)
        PROVE  UNCHANGED Asks
    BY <1>1, NoAskMade DEF StartLogin, Idle
  <1>2. ASSUME NEW t \in Strings("access"), StartGuard(p, t)
        PROVE  Gate!Enter(p)
    <2> DEFINE r == [Arrival("guard", t, Missing) EXCEPT !.at = "lookup"]
    <2>1. /\ r.op = "guard" /\ r.at = "lookup" /\ Checked(r) = "access"
          /\ r.shown["access"] = t
      BY DEF Arrival, Idle, Checked, TokenTypes
    <2>2. r.late = Spent(BlacklistKey("access", t))
      BY ArrivalLate DEF Idle, Arrival
    <2>3. Become(p, r) /\ req[p].at = "idle"
      BY <1>2 DEF StartGuard
    <2> HIDE DEF r
    <2>4. QED
      BY <2>1, <2>2, <2>3, EnteringAsk
  <1>3. ASSUME NEW t \in Strings("refresh"), StartRefresh(p, t)
        PROVE  Gate!Enter(p)
    <2> DEFINE r == [Arrival("refresh", Missing, t) EXCEPT !.at = "lookup",
                                                           !.jti = serial + 1]
    <2>1. /\ r.op = "refresh" /\ r.at = "lookup" /\ Checked(r) = "refresh"
          /\ r.shown["refresh"] = t
      BY DEF Arrival, Idle, Checked, TokenTypes
    <2>2. r.late = Spent(BlacklistKey("refresh", t))
      BY ArrivalLate DEF Idle, Arrival
    <2>3. Become(p, r) /\ req[p].at = "idle"
      BY <1>3 DEF StartRefresh
    <2> HIDE DEF r
    <2>4. QED
      BY <2>1, <2>2, <2>3, EnteringAsk
  <1>4. ASSUME NEW a \in Strings("access"), NEW r \in Strings("refresh"),
               StartLogout(p, a, r)
        PROVE  UNCHANGED Asks
    BY <1>4, NoAskMade DEF StartLogout, Arrival, Idle
  <1>5. ASSUME NEW e \in HeaderErrors, GuardBadHeader(p, e)
        PROVE  UNCHANGED Asks
    BY <1>5, NoAskMade DEF GuardBadHeader, Reply, Arrival, Idle, Checked,
       TokenTypes
  <1>6. ASSUME LoginBadRequest(p) \/ RefreshNoCookie(p) \/ LogoutMissing(p)
        PROVE  UNCHANGED Asks
    <2>1. CASE LoginBadRequest(p)
      BY <2>1, NoAskMade DEF LoginBadRequest, Reply, Arrival, Idle, Checked, TokenTypes
    <2>2. CASE RefreshNoCookie(p)
      BY <2>2, NoAskMade DEF RefreshNoCookie, Reply, Arrival, Idle, Checked, TokenTypes
    <2>3. CASE LogoutMissing(p)
      BY <2>3, NoAskMade DEF LogoutMissing, Reply, Arrival, Idle, Checked, TokenTypes
    <2>4. QED
      BY <1>6, <2>1, <2>2, <2>3
  <1>7. QED
    BY <1>1, <1>2, <1>3, <1>4, <1>5, <1>6 DEF Arrive

\* The service implements the abstract gate: expired and revoked tokens stay
\* dead, and whoever shows a dead token is refused.
THEOREM Refinement == Spec => ImplementsTokenGate
  <1>1. Init => Gate!Init
    BY DEF Init, Gate!Init, Gate!NoAsk, AskOf, Idle
  <1>2. IInv /\ [Next]_vars => [Gate!Next]_<<DeadKeys, Asks>>
    <2> SUFFICES ASSUME IInv, [Next]_vars
                 PROVE  Gate!Next
      OBVIOUS
    <2>1. DeadKeys \subseteq DeadKeys'
      BY DeadStep
    <2>2. ASSUME NEW p \in Procs, Arrive(p)
          PROVE  Gate!Enter(p) \/ UNCHANGED Asks
      BY <2>2, ArriveAsks DEF IInv
    <2>3. ASSUME NEW p \in Procs, Serve(p)
          PROVE  Gate!Admit(p) \/ Gate!Refuse(p) \/ Gate!Leave(p) \/ UNCHANGED Asks
      BY <2>3, ServeAsks
    <2>4. CASE Tick \/ UNCHANGED vars
      <3>1. req' = req
        BY <2>4 DEF Tick, vars
      <3>2. UNCHANGED Asks
        BY <3>1 DEF Asks, AskOf, KeyOf, Checked
      <3>3. QED
        BY <2>1, <3>2 DEF Gate!Next, Asks
    <2>5. QED
      BY <2>1, <2>2, <2>3, <2>4 DEF Next, Gate!Next, Asks
  <1>3. QED
    BY <1>1, <1>2, Invariance, PTL DEF Spec, ImplementsTokenGate, Gate!Spec, Asks
=============================================================================
