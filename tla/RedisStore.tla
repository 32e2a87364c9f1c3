----------------------------- MODULE RedisStore -----------------------------
(***************************************************************************)
(* The part of Redis, and of the go-redis client, that the service relies  *)
(* on: SET with an expiration, GET, and the expiry of keys.  External      *)
(* code, modelled from the calls in token_blacklist_repository.go and      *)
(* redis_service.go.                                                       *)
(*                                                                         *)
(* Time is a number of ticks.  The client sends an expiration in whole     *)
(* milliseconds and Redis keeps a deadline in whole milliseconds, while    *)
(* the application's own instants are finer: MsTicks ticks make one        *)
(* millisecond.  A store is a function from the live keys to deadlines.    *)
(***************************************************************************)
EXTENDS Integers, Functions

CONSTANT MsTicks   \* ticks per millisecond

ASSUME MsTicksAssumption == MsTicks \in Nat \ {0}

\* The deadline of a key that was SET without an expiration.
NoExpiry == -1

\* The millisecond an instant lies in.
MillisOf(t) == t \div MsTicks

\* What go-redis puts on the wire for a positive expiration: whole
\* milliseconds, rounded down, but never 0.
WireTtl(ttl) == IF ttl < MsTicks THEN 1 ELSE MillisOf(ttl)

\* The deadline Redis stores for a SET that arrives at time t.  A zero or
\* negative expiration is sent as a plain SET, which never expires.
DeadlineOf(ttl, t) == IF ttl > 0 THEN MillisOf(t) + WireTtl(ttl) ELSE NoExpiry

\* Redis drops a key once the current millisecond is past its deadline.
Alive(deadline, t) == deadline = NoExpiry \/ MillisOf(t) <= deadline

EmptyStore == [k \in {} |-> 0]

Put(store, key, deadline) ==
  [k \in DOMAIN store \cup {key} |-> IF k = key THEN deadline ELSE store[k]]

Purge(store, t) == Restrict(store, {k \in DOMAIN store : Alive(store[k], t)})
=============================================================================
