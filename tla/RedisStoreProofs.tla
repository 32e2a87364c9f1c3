-------------------------- MODULE RedisStoreProofs --------------------------
(***************************************************************************)
(* Facts about deadlines, for every precision of the clock: what is lost   *)
(* by rounding to milliseconds never shortens the life of a key to before  *)
(* a whole-millisecond instant its expiration reaches.                     *)
(***************************************************************************)
EXTENDS RedisStore, TLAPS

\* Division with remainder, in the form the arithmetic below needs.
LEMMA Division ==
  ASSUME NEW t \in Nat, NEW m \in Nat \ {0}
  PROVE  /\ t \div m \in Nat
         /\ m * (t \div m) <= t
         /\ t < m * (t \div m) + m
  OBVIOUS

\* A multiple of m below m times x is at most m times x - 1.
LEMMA MultipleBelow ==
  ASSUME NEW k \in Nat, NEW x \in Nat, NEW m \in Nat \ {0}, k * m < m * x
  PROVE  k * m <= (x - 1) * m
  OBVIOUS

LEMMA MillisOfType ==
  ASSUME NEW t \in Nat
  PROVE  MillisOf(t) \in Nat
  BY Division, MsTicksAssumption DEF MillisOf

LEMMA DeadlineType ==
  ASSUME NEW ttl \in Nat, NEW t \in Nat
  PROVE  DeadlineOf(ttl, t) \in Nat \cup {NoExpiry}
  BY MillisOfType DEF DeadlineOf, WireTtl, NoExpiry

\* An instant on a whole millisecond that a TTL reaches is not past the end
\* of the deadline's millisecond.
LEMMA DeadlineCovers ==
  ASSUME NEW t \in Nat, NEW ttl \in Nat, ttl > 0,
         NEW k \in Nat, k * MsTicks <= t + ttl
  PROVE  k * MsTicks <= (DeadlineOf(ttl, t) + 1) * MsTicks
  <1>1. MsTicks \in Nat \ {0}
    BY MsTicksAssumption
  <1>2. PICK a \in Nat : a = MillisOf(t) /\ t < MsTicks * a + MsTicks
    BY <1>1, Division DEF MillisOf
  <1>3. PICK c \in Nat : c = MillisOf(ttl) /\ ttl < MsTicks * c + MsTicks
    BY <1>1, Division DEF MillisOf
  <1>4. CASE ttl < MsTicks
    <2>1. k * MsTicks < MsTicks * (a + 2)
      BY <1>1, <1>2, <1>4
    <2>2. k * MsTicks <= (a + 1) * MsTicks
      BY <1>1, <2>1, MultipleBelow
    <2>3. DeadlineOf(ttl, t) = a + 1
      BY <1>2, <1>4 DEF DeadlineOf, WireTtl
    <2>4. (a + 1) * MsTicks <= (a + 1 + 1) * MsTicks
      BY <1>1
    <2>5. QED
      BY <1>1, <2>2, <2>3, <2>4
  <1>5. CASE ~(ttl < MsTicks)
    <2>1. k * MsTicks < MsTicks * (a + c + 2)
      BY <1>1, <1>2, <1>3
    <2>2. k * MsTicks <= (a + c + 1) * MsTicks
      BY <1>1, <2>1, MultipleBelow
    <2>3. DeadlineOf(ttl, t) = a + c
      BY <1>2, <1>3, <1>5 DEF DeadlineOf, WireTtl
    <2>4. QED
      BY <2>2, <2>3
  <1>6. QED
    BY <1>4, <1>5

\* A key that Redis drops had its whole last millisecond.
LEMMA DroppedIsPast ==
  ASSUME NEW t \in Nat, NEW d \in Nat, ~Alive(d, t)
  PROVE  (d + 1) * MsTicks <= t
  <1>1. MsTicks \in Nat \ {0}
    BY MsTicksAssumption
  <1>2. MillisOf(t) \in Nat /\ MsTicks * MillisOf(t) <= t
    BY <1>1, Division DEF MillisOf
  <1>3. d + 1 <= MillisOf(t)
    BY <1>2 DEF Alive
  <1>4. (d + 1) * MsTicks <= MsTicks * MillisOf(t)
    BY <1>1, <1>2, <1>3
  <1>5. QED
    BY <1>1, <1>2, <1>4
=============================================================================
