-------------------------- MODULE UserSearchProofs --------------------------
(***************************************************************************)
(* Theorems about UserSearch, for every number of users, every range of    *)
(* integers, every page and size, and every number of searches.            *)
(***************************************************************************)
EXTENDS UserSearch, FiniteSetTheorems, TLAPS

-----------------------------------------------------------------------------
(* Arithmetic *)

LEMMA LimitsType ==
  /\ MaxInt \in Nat /\ DefaultSize \in 1..MaxInt /\ MaxSize \in 1..MaxInt
  /\ Cardinality(Uuids) + MaxSize <= MaxInt
  /\ Pages \subseteq Ints /\ Sizes \subseteq Ints
  BY SearchAssumption DEF Ints

LEMMA Remainder ==
  ASSUME NEW n \in Int, NEW m \in Nat \ {0}
  PROVE  n % m \in 0..m - 1
  OBVIOUS

LEMMA SmallRemainder ==
  ASSUME NEW m \in Nat \ {0}, NEW n \in 0..m - 1
  PROVE  n % m = n
  OBVIOUS

LEMMA WrapType ==
  ASSUME NEW n \in Int
  PROVE  Wrap(n) \in Ints
  <1>1. MaxInt \in Nat /\ 2 * MaxInt + 2 \in Nat \ {0} /\ n + MaxInt + 1 \in Int
    BY LimitsType
  <1>2. (n + MaxInt + 1) % (2 * MaxInt + 2) \in 0..(2 * MaxInt + 2) - 1
    BY <1>1, Remainder
  <1>3. QED
    BY <1>1, <1>2 DEF Wrap, Ints

\* Integers that are not too large are what they are.
LEMMA WrapExact ==
  ASSUME NEW n \in Ints
  PROVE  Wrap(n) = n
  <1>1. MaxInt \in Nat /\ 2 * MaxInt + 2 \in Nat \ {0} /\ n \in Int
    BY LimitsType DEF Ints
  <1>2. n + MaxInt + 1 \in 0..(2 * MaxInt + 2) - 1
    BY <1>1 DEF Ints
  <1>3. (n + MaxInt + 1) % (2 * MaxInt + 2) = n + MaxInt + 1
    BY <1>1, <1>2, SmallRemainder
  <1>4. QED
    BY <1>1, <1>3 DEF Wrap

LEMMA OffsetType ==
  ASSUME NEW page \in Ints, NEW size \in Ints
  PROVE  Offset(page, size) \in Ints
  <1>1. page \in Int /\ size \in Int /\ page - 1 \in Int
    BY LimitsType DEF Ints
  <1>2. Wrap(page - 1) \in Int
    BY <1>1, WrapType, LimitsType DEF Ints
  <1>3. Wrap(page - 1) * size \in Int
    BY <1>1, <1>2
  <1>4. QED
    BY <1>3, WrapType DEF Offset

\* The offset is the number of rows before the page, if that is an int.
LEMMA OffsetExact ==
  ASSUME NEW page \in Ints, NEW size \in Ints, size >= 1,
         (page - 1) * size \in Ints
  PROVE  Offset(page, size) = (page - 1) * size
  <1>1. MaxInt \in Nat /\ page \in Int /\ size \in Int
    BY LimitsType DEF Ints
  <1>2. page - 1 \in Ints
    <2>1. CASE page = -(MaxInt + 1)
      <3>1. (page - 1) * size = page * size - size
        BY <1>1
      <3>2. (page - 1) * size <= page - 1
        <4>1. PICK k \in Nat : k + 1 = size
          BY <1>1
        <4>2. PICK m \in Nat : page - 1 = -m
          BY <1>1, <2>1
        <4>3. m * (k + 1) = m * k + m /\ m * k \in Nat
          BY <4>1, <4>2
        <4>4. (page - 1) * size = -(m * (k + 1))
          BY <4>1, <4>2
        <4>5. QED
          BY <4>2, <4>3, <4>4
      <3>3. QED
        BY <1>1, <2>1, <3>2 DEF Ints
    <2>2. CASE page # -(MaxInt + 1)
      BY <1>1, <2>2 DEF Ints
    <2>3. QED
      BY <2>1, <2>2
  <1>3. QED
    BY <1>2, WrapExact DEF Offset

\* A product of a factor below 0 and one above is below 0.
LEMMA NegativeProduct ==
  ASSUME NEW a \in Int, a < 0, NEW b \in Int, b >= 1
  PROVE  a * b < 0
  OBVIOUS

LEMMA Division ==
  ASSUME NEW a \in Nat, NEW b \in Nat \ {0}
  PROVE  /\ a \div b \in Nat
         /\ b * (a \div b) <= a
         /\ a < b * (a \div b) + b
         /\ a \div b <= a
  OBVIOUS

LEMMA QuotientType ==
  ASSUME NEW a \in Ints, NEW b \in Int, b >= 1
  PROVE  Quotient(a, b) \in Ints
  <1>1. MaxInt \in Nat /\ a \in Int /\ b \in Nat \ {0}
    BY LimitsType DEF Ints
  <1>2. CASE a < 0
    <2>1. -a \in Nat /\ -a <= MaxInt + 1
      BY <1>1, <1>2 DEF Ints
    <2>2. (-a) \div b \in Nat /\ (-a) \div b <= -a
      BY <1>1, <2>1, Division
    <2>3. QED
      BY <1>1, <1>2, <2>1, <2>2 DEF Quotient, Ints
  <1>3. CASE a >= 0
    <2>1. a \div b \in Nat /\ a \div b <= a
      BY <1>1, <1>3, Division
    <2>2. QED
      BY <1>1, <1>3, <2>1 DEF Quotient, Ints
  <1>4. QED
    BY <1>1, <1>2, <1>3

\* The pages announced hold all rows, and one page less would not.
LEMMA TotalPageExact ==
  ASSUME NEW total \in Nat, NEW size \in Nat, size >= 1,
         total + size - 1 <= MaxInt
  PROVE  /\ TotalPage(total, size) \in Nat
         /\ total <= TotalPage(total, size) * size
         /\ TotalPage(total, size) * size < total + size
  <1>1. MaxInt \in Nat /\ total + size - 1 \in Nat /\ total + size - 1 \in Ints
    BY LimitsType DEF Ints
  <1>2. TotalPage(total, size) = (total + size - 1) \div size
    BY <1>1, WrapExact DEF TotalPage, Quotient
  <1> DEFINE n == (total + size - 1) \div size
  <1>3. /\ n \in Nat
        /\ size * n <= total + size - 1
        /\ total + size - 1 < size * n + size
    BY <1>1, Division
  <1>4. n * size = size * n
    BY <1>3
  <1> HIDE DEF n
  <1>5. size * n \in Nat
    BY <1>3
  <1>6. QED
    BY <1>2, <1>3, <1>4, <1>5 DEF n

-----------------------------------------------------------------------------
(* Rows in order of age *)

\* The rows of a table that are not older than u, u itself among them: how
\* many there are is the place of u in the order of the pages.
AtLeast(table, u) == {v \in DOMAIN table : table[v] >= table[u]}

Place(table, u) == Cardinality(AtLeast(table, u))

\* The part of the type invariant that is about the table.
TableOK ==
  DOMAIN users \subseteq Uuids /\ \A u \in DOMAIN users : users[u] \in Nat

LEMMA FiniteRows ==
  ASSUME NEW s, s \subseteq Uuids
  PROVE  /\ IsFiniteSet(s) /\ Cardinality(s) \in Nat
         /\ Cardinality(s) <= Cardinality(Uuids)
         /\ Cardinality(Uuids) \in Nat
  BY SearchAssumption, FS_Subset, FS_CardinalityType

LEMMA PlaceType ==
  ASSUME NEW table, DOMAIN table \subseteq Uuids, NEW u
  PROVE  Place(table, u) \in Nat /\ Place(table, u) <= Cardinality(DOMAIN table)
  <1>1. AtLeast(table, u) \subseteq DOMAIN table
    BY DEF AtLeast
  <1>2. IsFiniteSet(DOMAIN table)
    BY FiniteRows
  <1>3. QED
    BY <1>1, <1>2, FS_Subset, FS_CardinalityType DEF Place

\* The first k rows are k rows, or all there are.
LEMMA NewestSize ==
  ASSUME TableOK, NEW k \in Nat, NEW s \in Newest(k)
  PROVE  /\ s \subseteq DOMAIN users /\ IsFiniteSet(s)
         /\ Cardinality(s) \in Nat /\ Cardinality(s) <= k
         /\ Cardinality(s) = k \/ s = DOMAIN users
  <1>1. s \subseteq DOMAIN users
    BY DEF Newest
  <1>2. IsFiniteSet(s) /\ Cardinality(s) \in Nat
    BY <1>1, FiniteRows DEF TableOK
  <1>3. Cardinality(s) = k \/ (s = DOMAIN users /\ Cardinality(s) < k)
    BY DEF Newest
  <1>4. QED
    BY <1>1, <1>2, <1>3

\* A row whose place is within the first k is among them.
LEMMA PlaceMeansNewest ==
  ASSUME TableOK, NEW k \in Nat, NEW s \in Newest(k),
         NEW u \in DOMAIN users, Place(users, u) <= k
  PROVE  u \in s
  <1> SUFFICES ASSUME u \notin s
               PROVE  FALSE
    OBVIOUS
  <1>1. Cardinality(s) = k /\ IsFiniteSet(s) /\ s \subseteq DOMAIN users
    BY NewestSize
  <1>2. s \cup {u} \subseteq AtLeast(users, u)
    BY <1>1 DEF Newest, AtLeast, TableOK
  <1>3. Cardinality(s \cup {u}) = k + 1
    BY <1>1, FS_AddElement
  <1>4. AtLeast(users, u) \subseteq Uuids
    BY DEF AtLeast, TableOK
  <1>5. IsFiniteSet(AtLeast(users, u))
    BY <1>4, FiniteRows
  <1>6. Cardinality(s \cup {u}) <= Place(users, u)
    BY <1>2, <1>5, FS_Subset DEF Place
  <1>7. Place(users, u) \in Nat
    BY PlaceType DEF TableOK
  <1>8. QED
    BY <1>3, <1>6, <1>7

\* Where no two rows are of the same age, the first k have the first k places.
LEMMA NewestMeansPlace ==
  ASSUME TableOK, ~Tied(users), NEW k \in Nat, NEW s \in Newest(k), NEW u \in s
  PROVE  Place(users, u) <= k
  <1>1. s \subseteq DOMAIN users /\ IsFiniteSet(s) /\ Cardinality(s) \in Nat
        /\ Cardinality(s) <= k
    BY NewestSize
  <1>2. AtLeast(users, u) \subseteq s
    <2> SUFFICES ASSUME NEW v \in DOMAIN users, users[v] >= users[u], v \notin s
                 PROVE  FALSE
      BY DEF AtLeast
    <2>1. users[u] >= users[v]
      BY DEF Newest
    <2>2. users[u] \in Nat /\ users[v] \in Nat /\ u \in DOMAIN users
      BY <1>1 DEF TableOK
    <2>3. users[u] = users[v] /\ u # v
      BY <2>1, <2>2
    <2>4. QED
      BY <2>2, <2>3 DEF Tied
  <1>3. Place(users, u) <= Cardinality(s)
    BY <1>1, <1>2, FS_Subset DEF Place
  <1>4. Place(users, u) \in Nat
    BY PlaceType DEF TableOK
  <1>5. QED
    BY <1>1, <1>3, <1>4

\* Rows that are added leave the place of the others or move it back.
LEMMA PlaceGrows ==
  ASSUME NEW s, NEW t, DOMAIN t \subseteq Uuids, DOMAIN s \subseteq DOMAIN t,
         \A v \in DOMAIN s : t[v] = s[v], NEW u \in DOMAIN s
  PROVE  Place(s, u) <= Place(t, u)
  <1>1. AtLeast(s, u) \subseteq AtLeast(t, u)
    BY DEF AtLeast
  <1>2. AtLeast(t, u) \subseteq Uuids
    BY DEF AtLeast
  <1>3. QED
    BY <1>1, <1>2, FiniteRows, FS_Subset DEF Place
-----------------------------------------------------------------------------
(* The inductive invariant *)

\* No search counts in pages of nothing, and none is answered whose numbers
\* PostgreSQL would refuse.
Paged ==
  /\ req.size # 0
  /\ Answered => req.size >= 1 /\ Offset(req.page, req.size) >= 0

\* The total is that of the table, unless it has changed since it was counted.
CountFresh ==
  /\ req.total <= Cardinality(Uuids)
  /\ req.at = "page" /\ "between" \notin walk.met
       => req.total = Cardinality(DOMAIN users)
  /\ Answered => req.totalPage = TotalPage(req.total, req.size)

\* A walk asks for one page after the other, never far behind the last row.
Walking == walk.on /\ req.size \in 1..MaxSize

WalkPlaced ==
  /\ walk.on => /\ req.page >= 1 /\ req.err = "nil"
                /\ req.at \in {"count", "page", "replied"}
  /\ Walking => (req.page - 1) * req.size <= Cardinality(Uuids)
  /\ walk.on /\ "tied" \notin walk.met => ~Tied(users)

\* How many rows the pages read so far reach over.
Reached == (IF Answered THEN req.page ELSE req.page - 1) * req.size

\* The rows that were there when the walk began and that the client has not
\* seen are all behind the pages it has read.
UnseenBehind ==
  Walking /\ walk.met \cap {"dropped", "between", "tied", "lost"} = {} =>
    /\ walk.present \subseteq DOMAIN users
    /\ \A u \in walk.present : Place(users, u) <= Reached => u \in walk.seen

\* The rows the client has seen are all within the pages it has read.
SeenWithin ==
  Walking /\ walk.met \cap {"added", "tied"} = {} =>
    \A u \in walk.seen \cap DOMAIN users : Place(users, u) <= Reached

\* A client that does not walk sees one page.
OnePage ==
  ~walk.on => /\ walk.twice = {}
              /\ req.at \in {"count", "page"} => walk.seen = {}

SInv ==
  /\ TypeOK
  /\ Paged
  /\ CountFresh
  /\ WalkPlaced
  /\ UnseenBehind
  /\ SeenWithin
  /\ OnePage
  /\ WalkMissesNone
  /\ WalkRepeatsNone
  /\ PagesAsAnnounced

LEMMA TableType ==
  ASSUME TypeOK
  PROVE  TableOK
  BY SearchAssumption DEF TypeOK, TableOK

LEMMA RequestType ==
  ASSUME TypeOK
  PROVE  /\ req.at \in Places /\ req.page \in Ints /\ req.size \in Ints
         /\ req.err \in Errors /\ req.total \in Nat /\ req.totalPage \in Ints
         /\ req.data \subseteq Uuids
         /\ req.page \in Int /\ req.size \in Int /\ req.totalPage \in Int
         /\ MaxInt \in Nat
  BY LimitsType DEF TypeOK, Requests, Ints

LEMMA WalkType ==
  ASSUME TypeOK
  PROVE  /\ walk.on \in BOOLEAN /\ walk.present \subseteq Uuids
         /\ walk.seen \subseteq Uuids /\ walk.twice \subseteq Uuids
         /\ walk.met \subseteq Troubles
  BY DEF TypeOK, Walks

LEMMA NoWalkType ==
  /\ NoWalk \in Walks /\ NoWalk.on = FALSE /\ NoWalk.seen = {}
  /\ NoWalk.twice = {} /\ NoWalk.met = {} /\ NoWalk.present = {}
  BY DEF NoWalk, Walks

-----------------------------------------------------------------------------
(* What the steps do *)

LEMMA ListStep ==
  ASSUME NEW page \in Ints, NEW size \in Ints, StartList(page, size)
  PROVE  /\ req' \in Requests
         /\ req'.at = "count" /\ req'.err = "nil" /\ req'.total = 0
         /\ req'.page = DefaultPageOf(page) /\ req'.size = DefaultSizeOf(size)
         /\ req'.page # 0 /\ req'.size # 0
  <1>1. DefaultPageOf(page) \in Ints /\ DefaultPageOf(page) # 0
    <2>1. 1 \in Ints
      BY LimitsType DEF Ints
    <2>2. QED
      BY <2>1 DEF DefaultPageOf
  <1>2. DefaultSizeOf(size) \in Ints /\ DefaultSizeOf(size) # 0
    <2>1. DefaultSize \in Ints /\ DefaultSize # 0
      BY LimitsType DEF Ints
    <2>2. QED
      BY <2>1 DEF DefaultSizeOf
  <1>3. Idle \in Requests
    BY LimitsType DEF Idle, Requests, Places, Errors, Ints
  <1>4. QED
    BY <1>1, <1>2, <1>3 DEF StartList, Idle, Requests, Places

LEMMA FailStep ==
  ASSUME TypeOK, NEW e \in Errors, Fail(e)
  PROVE  /\ req' \in Requests /\ req'.at = "replied" /\ req'.err = e
         /\ req'.page = req.page /\ req'.size = req.size
         /\ req'.total = req.total /\ walk' = NoWalk
  BY DEF Fail, TypeOK, Requests, Places

LEMMA CountStep ==
  ASSUME TypeOK, CountRows
  PROVE  \/ Fail("ErrUserSearchFailed")
         \/ /\ req' \in Requests /\ req'.at = "page" /\ req'.err = req.err
            /\ req'.page = req.page /\ req'.size = req.size
            /\ req'.total = Cardinality(DOMAIN users) /\ walk' = walk
  <1>1. Cardinality(DOMAIN users) \in Nat
    BY FiniteRows DEF TypeOK
  <1>2. QED
    BY <1>1 DEF CountRows, TypeOK, Requests, Places

\* A page is answered with the rows between two parts of the table.
LEMMA FetchStep ==
  ASSUME TypeOK, Paged, FetchPage
  PROVE  \/ Fail("ErrUserSearchFailed")
         \/ LET skip == Offset(req.page, req.size)
            IN  /\ skip >= 0 /\ req.size >= 1
                /\ \E s \in Newest(skip), t \in Newest(skip + req.size) :
                     /\ s \subseteq t
                     /\ req'.data \subseteq t \ s
                     /\ req'.data = t \ s \/ "lost" \in walk'.met
                /\ req' \in Requests /\ req'.at = "replied" /\ req'.err = req.err
                /\ req'.page = req.page /\ req'.size = req.size
                /\ req'.total = req.total
                /\ req'.totalPage = TotalPage(req.total, req.size)
                /\ walk' \in Walks /\ walk'.on = walk.on
                /\ walk'.present = walk.present
                /\ walk'.seen = walk.seen \cup req'.data
                /\ walk'.twice = walk.twice \cup (walk.seen \cap req'.data)
                /\ walk.met \subseteq walk'.met
                /\ walk'.met \subseteq walk.met \cup {"lost"}
  <1> DEFINE skip == Offset(req.page, req.size)
  <1>1. CASE Fail("ErrUserSearchFailed")
    BY <1>1
  <1>2. CASE ~Fail("ErrUserSearchFailed")
    <2>1. PICK s \in Newest(skip), t \in Newest(skip + req.size),
               rows \in SUBSET Uuids, troubles \in {{}, {"lost"}} :
            /\ rows \subseteq t \ s
            /\ ~(skip < 0 \/ req.size < 0)
            /\ s \subseteq t
            /\ rows = t \ s \/ troubles = {"lost"}
            /\ req' = [req EXCEPT !.at = "replied", !.data = rows,
                                  !.totalPage = TotalPage(req.total, req.size)]
            /\ walk' = [walk EXCEPT !.seen = @ \cup rows,
                                    !.twice = @ \cup (walk.seen \cap rows),
                                    !.met = @ \cup troubles]
      <3> DEFINE Show(rows, troubles) ==
                   /\ req' = [req EXCEPT !.at = "replied", !.data = rows,
                                         !.totalPage = TotalPage(req.total, req.size)]
                   /\ walk' = [walk EXCEPT !.seen = @ \cup rows,
                                           !.twice = @ \cup (walk.seen \cap rows),
                                           !.met = @ \cup troubles]
      <3>1. ~(skip < 0 \/ req.size < 0)
        BY <1>2 DEF FetchPage
      <3>2. PICK s \in Newest(skip), t \in Newest(skip + req.size) :
              /\ s \subseteq t
              /\ Show(t \ s, {}) \/ \E rows \in SUBSET (t \ s) : Show(rows, {"lost"})
        BY <1>2 DEF FetchPage
      <3> HIDE DEF Show
      <3>3. t \subseteq Uuids
        BY DEF Newest, TypeOK
      <3>4. PICK rows \in SUBSET Uuids, troubles \in {{}, {"lost"}} :
              /\ rows \subseteq t \ s
              /\ rows = t \ s \/ troubles = {"lost"}
              /\ Show(rows, troubles)
        BY <3>2, <3>3
      <3>5. QED
        BY <3>1, <3>2, <3>4 DEF Show
    <2>2. skip \in Int /\ req.size \in Int /\ MaxInt \in Nat
      <3>1. req.page \in Ints /\ req.size \in Ints /\ req.size \in Int
        BY RequestType, LimitsType DEF Ints
      <3>2. skip \in Ints
        BY <3>1, RequestType, OffsetType
      <3> HIDE DEF skip
      <3>3. QED
        BY <3>1, <3>2, LimitsType DEF Ints
    <2>3. skip >= 0 /\ req.size >= 1
      BY <2>1, <2>2 DEF Paged
    <2>4. rows \subseteq Uuids
      OBVIOUS
    <2>5. TotalPage(req.total, req.size) \in Ints
      <3>1. req.total + req.size - 1 \in Int
        BY <2>2, RequestType
      <3>2. Wrap(req.total + req.size - 1) \in Ints
        BY <3>1, WrapType
      <3>3. QED
        BY <2>2, <2>3, <3>2, QuotientType DEF TotalPage
    <2> HIDE DEF skip
    <2>6. /\ req' \in Requests /\ req'.at = "replied" /\ req'.err = req.err
          /\ req'.page = req.page /\ req'.size = req.size
          /\ req'.total = req.total /\ req'.data = rows
          /\ req'.totalPage = TotalPage(req.total, req.size)
      BY <2>1, <2>4, <2>5 DEF TypeOK, Requests, Places
    <2>7. /\ walk' \in Walks /\ walk'.on = walk.on
          /\ walk'.present = walk.present
          /\ walk'.seen = walk.seen \cup rows
          /\ walk'.twice = walk.twice \cup (walk.seen \cap rows)
          /\ walk'.met = walk.met \cup troubles
      BY <2>1, <2>4 DEF TypeOK, Walks, Troubles
    <2>8. \E x \in Newest(skip), y \in Newest(skip + req.size) :
             /\ x \subseteq y
             /\ req'.data \subseteq y \ x
             /\ req'.data = y \ x \/ "lost" \in walk'.met
      BY <2>1, <2>6, <2>7
    <2>9. QED
      BY <2>3, <2>6, <2>7, <2>8 DEF skip
  <1>3. QED
    BY <1>1, <1>2

LEMMA ChangeStep ==
  ASSUME TypeOK, NEW table, NEW trouble \in {"added", "dropped"},
         Change(table, trouble)
  PROVE  /\ users' = table /\ req' = req
         /\ walk' \in Walks /\ walk'.on = walk.on
         /\ walk'.present = walk.present /\ walk'.seen = walk.seen
         /\ walk'.twice = walk.twice
         /\ walk.met \cup {trouble} \subseteq walk'.met
         /\ req.at = "page" => "between" \in walk'.met
         /\ Tied(table) => "tied" \in walk'.met
         /\ "between" \in walk'.met \ walk.met => req.at = "page"
         /\ walk'.met \cap {"lost"} = walk.met \cap {"lost"}
  BY DEF Change, TypeOK, Walks, Troubles
-----------------------------------------------------------------------------
(* Each step keeps the inductive invariant *)

LEMMA InitKeeps ==
  ASSUME Init
  PROVE  SInv
  <1>1. PICK present \in SUBSET Uuids : users \in [present -> Stamps]
    BY DEF Init
  <1>2. DOMAIN users \subseteq Uuids /\ \A u \in DOMAIN users : users[u] \in Stamps
    BY <1>1
  <1>3. Idle \in Requests
    BY LimitsType DEF Idle, Requests, Places, Errors, Ints
  <1>4. TypeOK
    BY <1>2, <1>3, NoWalkType DEF Init, TypeOK
  <1>5. Cardinality(Uuids) \in Nat
    BY FiniteRows
  <1>6. QED
    BY <1>4, <1>5, NoWalkType
    DEF SInv, Init, Idle, Answered, Paged, CountFresh, WalkPlaced, Walking,
        UnseenBehind, SeenWithin, OnePage, WalkMissesNone, WalkEnded,
        WalkRepeatsNone, PagesAsAnnounced

LEMMA FailKeeps ==
  ASSUME SInv, NEW e \in Errors \ {"nil"}, Fail(e), users' = users,
         {serial', writes'} \subseteq Nat
  PROVE  SInv'
  <1>1. TypeOK /\ Paged /\ CountFresh
    BY DEF SInv
  <1>2. /\ req' \in Requests /\ req'.at = "replied" /\ req'.err = e
        /\ req'.page = req.page /\ req'.size = req.size
        /\ req'.total = req.total /\ walk' = NoWalk
    BY <1>1, FailStep
  <1>3. TypeOK'
    BY <1>1, <1>2, NoWalkType DEF TypeOK
  <1>4. ~Answered'
    BY <1>2 DEF Answered
  <1>5. QED
    BY <1>1, <1>2, <1>3, <1>4, NoWalkType
    DEF SInv, Paged, CountFresh, WalkPlaced, Walking,
        UnseenBehind, SeenWithin, OnePage, WalkMissesNone, WalkEnded,
        WalkRepeatsNone, PagesAsAnnounced

LEMMA LookKeeps ==
  ASSUME SInv, NEW page \in Pages, NEW size \in Sizes, Look(page, size)
  PROVE  SInv'
  <1>1. TypeOK /\ users' = users /\ walk' = NoWalk /\ {serial', writes'} \subseteq Nat
    BY DEF SInv, Look, Arrive, TypeOK
  <1>2. page \in Ints /\ size \in Ints
    BY LimitsType
  <1>3. /\ req' \in Requests /\ req'.at = "count" /\ req'.total = 0
        /\ req'.size # 0
    BY <1>2, ListStep DEF Look
  <1>4. TypeOK'
    BY <1>1, <1>3, NoWalkType DEF TypeOK
  <1>5. Cardinality(Uuids) \in Nat
    BY FiniteRows
  <1>6. QED
    BY <1>1, <1>3, <1>4, <1>5, NoWalkType
    DEF SInv, Answered, Paged, CountFresh, WalkPlaced, Walking,
        UnseenBehind, SeenWithin, OnePage, WalkMissesNone, WalkEnded,
        WalkRepeatsNone, PagesAsAnnounced

LEMMA FirstPageKeeps ==
  ASSUME SInv, NEW size \in Sizes, FirstPage(size)
  PROVE  SInv'
  <1>1. TypeOK /\ users' = users /\ {serial', writes'} \subseteq Nat
    BY DEF SInv, FirstPage, Arrive, TypeOK
  <1>2. 1 \in Ints /\ size \in Ints /\ DefaultPageOf(1) = 1
    BY LimitsType DEF Ints, DefaultPageOf
  <1>3. /\ req' \in Requests /\ req'.at = "count" /\ req'.total = 0
        /\ req'.page = 1 /\ req'.size # 0 /\ req'.err = "nil"
    BY <1>2, ListStep DEF FirstPage
  <1>4. /\ walk' \in Walks /\ walk'.on = TRUE /\ walk'.present = DOMAIN users
        /\ walk'.seen = {} /\ walk'.twice = {}
        /\ Tied(users) => "tied" \in walk'.met
    BY <1>1, NoWalkType DEF FirstPage, NoWalk, Walks, TypeOK, Troubles
  <1>5. TypeOK'
    BY <1>1, <1>3, <1>4 DEF TypeOK
  <1>6. Cardinality(Uuids) \in Nat
    BY FiniteRows
  <1>7. req'.size \in Int
    BY <1>3, LimitsType DEF Requests, Ints
  <1>8. ~Answered' /\ Reached' = 0
    BY <1>3, <1>7 DEF Answered, Reached
  <1>9. UnseenBehind'
    <2>1. \A u \in DOMAIN users : Place(users, u) >= 1
      <3> SUFFICES ASSUME NEW u \in DOMAIN users
                   PROVE  Place(users, u) >= 1
        OBVIOUS
      <3>1. TableOK
        BY <1>1, TableType
      <3>2. users[u] \in Nat /\ AtLeast(users, u) \subseteq Uuids
        BY <3>1 DEF TableOK, AtLeast
      <3>3. u \in AtLeast(users, u)
        BY <3>2 DEF AtLeast
      <3>4. IsFiniteSet(AtLeast(users, u))
        BY <3>2, FiniteRows
      <3>5. Place(users, u) # 0 /\ Place(users, u) \in Nat
        BY <3>3, <3>4, FS_EmptySet, FS_CardinalityType DEF Place
      <3>6. QED
        BY <3>5
    <2>2. \A u \in DOMAIN users : Place(users, u) \in Nat
      BY <1>1, PlaceType DEF TypeOK
    <2>3. QED
      BY <1>1, <1>4, <1>8, <2>1, <2>2 DEF UnseenBehind
  <1>10. WalkPlaced'
    <2>1. (req'.page - 1) * req'.size = 0
      BY <1>3, <1>7
    <2>2. Tied(users)' = Tied(users')
      BY DEF Tied
    <2>3. QED
      BY <1>1, <1>3, <1>4, <1>6, <2>1, <2>2 DEF WalkPlaced, Walking
  <1>11. QED
    BY <1>1, <1>3, <1>4, <1>5, <1>6, <1>8, <1>9, <1>10
    DEF SInv, Answered, Paged, CountFresh, Walking,
        SeenWithin, OnePage, WalkMissesNone, WalkEnded,
        WalkRepeatsNone, PagesAsAnnounced
LEMMA NextPageKeeps ==
  ASSUME SInv, NextPage
  PROVE  SInv'
  <1>1. /\ TypeOK /\ users' = users /\ walk' = walk
        /\ {serial', writes'} \subseteq Nat
    BY DEF SInv, NextPage, Arrive, TypeOK
  <1>2. Answered /\ walk.on /\ req.page < req.totalPage /\ req.at = "replied"
    BY DEF NextPage, Answered
  <1>3. /\ req.page \in Int /\ req.size \in Int /\ req.size \in Ints
        /\ req.totalPage \in Ints /\ req.total \in Nat /\ MaxInt \in Nat
    BY <1>1, RequestType
  <1>4. req.page >= 1 /\ req.size >= 1
    BY <1>2 DEF SInv, WalkPlaced, Paged
  <1>5. req.page + 1 \in Ints
    BY <1>2, <1>3, <1>4 DEF Ints
  <1>6. DefaultPageOf(req.page + 1) = req.page + 1 /\ DefaultSizeOf(req.size) = req.size
    BY <1>3, <1>4 DEF DefaultPageOf, DefaultSizeOf
  <1>7. /\ req' \in Requests /\ req'.at = "count" /\ req'.total = 0
        /\ req'.page = req.page + 1 /\ req'.size = req.size /\ req'.err = "nil"
    BY <1>3, <1>5, <1>6, ListStep DEF NextPage
  <1>8. TypeOK'
    BY <1>1, <1>7 DEF TypeOK
  <1>9. (req'.page - 1) * req'.size = req.page * req.size
    BY <1>3, <1>7
  <1>10. Reached' = Reached /\ ~Answered'
    BY <1>2, <1>7, <1>9 DEF Reached, Answered
  <1>11. Cardinality(Uuids) \in Nat
    BY FiniteRows
  <1>12. WalkPlaced'
    <2>1. ASSUME req.size \in 1..MaxSize
          PROVE  req.page * req.size <= Cardinality(Uuids)
      <3>1. req.total <= Cardinality(Uuids) /\ req.totalPage = TotalPage(req.total, req.size)
        BY <1>2 DEF SInv, CountFresh
      <3>2. req.total + req.size - 1 <= MaxInt
        BY <1>3, <1>11, <2>1, <3>1, LimitsType
      <3>3. /\ req.totalPage \in Nat
            /\ req.totalPage * req.size < req.total + req.size
        BY <1>3, <1>4, <3>1, <3>2, TotalPageExact
      <3> DEFINE d == req.totalPage - req.page - 1
      <3>4. d \in Nat /\ req.totalPage = req.page + 1 + d
        BY <1>2, <1>3, <3>3
      <3> HIDE DEF d
      <3>5. (req.page + 1 + d) * req.size = req.page * req.size + req.size + d * req.size
        BY <1>3, <3>4
      <3>6. d * req.size \in Nat /\ req.page * req.size \in Int
        BY <1>3, <1>4, <3>4
      <3>7. QED
        BY <1>3, <1>11, <3>1, <3>3, <3>4, <3>5, <3>6
    <2>2. Tied(users)' = Tied(users')
      BY DEF Tied
    <2>3. QED
      BY <1>1, <1>2, <1>3, <1>4, <1>7, <1>9, <2>1, <2>2
      DEF SInv, WalkPlaced, Walking
  <1>13. UnseenBehind' /\ SeenWithin'
    BY <1>1, <1>7, <1>10 DEF SInv, UnseenBehind, SeenWithin, Walking
  <1>14. QED
    BY <1>1, <1>2, <1>4, <1>7, <1>8, <1>10, <1>11, <1>12, <1>13
    DEF SInv, Answered, Paged, CountFresh, OnePage, WalkMissesNone, WalkEnded,
        WalkRepeatsNone, PagesAsAnnounced

LEMMA CountKeeps ==
  ASSUME SInv, CountRows, ~Fail("ErrUserSearchFailed")
  PROVE  SInv'
  <1>1. TypeOK /\ req.at = "count" /\ UNCHANGED <<users, serial, writes>>
    BY DEF SInv, CountRows
  <1>2. /\ req' \in Requests /\ req'.at = "page" /\ req'.err = req.err
        /\ req'.page = req.page /\ req'.size = req.size
        /\ req'.total = Cardinality(DOMAIN users) /\ walk' = walk
    BY <1>1, CountStep
  <1>3. TypeOK'
    BY <1>1, <1>2 DEF TypeOK
  <1>4. ~Answered /\ ~Answered' /\ Reached' = Reached
    BY <1>1, <1>2 DEF Answered, Reached
  <1>5. DOMAIN users \subseteq Uuids
    BY <1>1 DEF TypeOK
  <1>6. CountFresh'
    BY <1>1, <1>2, <1>4, <1>5, FiniteRows DEF CountFresh
  <1>7. Tied(users)' = Tied(users')
    BY DEF Tied
  <1>8. QED
    BY <1>1, <1>2, <1>3, <1>4, <1>6, <1>7
    DEF SInv, Paged, WalkPlaced, Walking,
        UnseenBehind, SeenWithin, OnePage, WalkMissesNone, WalkEnded,
        WalkRepeatsNone, PagesAsAnnounced

LEMMA ChangeKeeps ==
  ASSUME SInv, NEW table, NEW trouble \in {"added", "dropped"},
         Change(table, trouble),
         DOMAIN table \subseteq Uuids, \A u \in DOMAIN table : table[u] \in Stamps,
         trouble = "added" => /\ DOMAIN users \subseteq DOMAIN table
                              /\ \A u \in DOMAIN users : table[u] = users[u],
         trouble = "dropped" => /\ DOMAIN table \subseteq DOMAIN users
                                /\ \A u \in DOMAIN table : users[u] = table[u]
  PROVE  SInv'
  <1>1. TypeOK /\ {serial', writes'} \subseteq Nat
    BY DEF SInv, Change, TypeOK
  <1>2. /\ users' = table /\ req' = req
        /\ walk' \in Walks /\ walk'.on = walk.on
        /\ walk'.present = walk.present /\ walk'.seen = walk.seen
        /\ walk'.twice = walk.twice
        /\ walk.met \cup {trouble} \subseteq walk'.met
        /\ req.at = "page" => "between" \in walk'.met
        /\ Tied(table) => "tied" \in walk'.met
    BY <1>1, ChangeStep
  <1>3. TypeOK'
    BY <1>1, <1>2 DEF TypeOK
  <1>4. Answered' = Answered /\ Reached' = Reached /\ Walking' = Walking
    BY <1>2 DEF Answered, Reached, Walking
  <1>5. Tied(users)' = Tied(users')
    BY DEF Tied
  <1>6. Paged' /\ CountFresh' /\ WalkPlaced' /\ OnePage'
    BY <1>2, <1>4, <1>5 DEF SInv, Paged, CountFresh, WalkPlaced, OnePage, Walking
  <1>7. DOMAIN users \subseteq Uuids
    BY <1>1 DEF TypeOK
  <1>8. Reached \in Int
    BY <1>1, RequestType DEF Reached
  <1>9. UnseenBehind'
    <2> SUFFICES ASSUME Walking, walk'.met \cap {"dropped", "between", "tied", "lost"} = {}
                 PROVE  /\ walk.present \subseteq DOMAIN table
                        /\ \A u \in walk.present : Place(table, u) <= Reached
                                                     => u \in walk.seen
      BY <1>2, <1>4 DEF UnseenBehind
    <2>1. walk.met \cap {"dropped", "between", "tied", "lost"} = {}
      BY <1>2
    <2>2. trouble = "added"
      BY <1>2
    <2>3. ASSUME NEW u \in walk.present, Place(table, u) <= Reached
          PROVE  u \in walk.seen
      <3>1. u \in DOMAIN users
        BY <2>1 DEF SInv, UnseenBehind
      <3>2. Place(users, u) <= Place(table, u)
        BY <2>2, <3>1, PlaceGrows
      <3>3. Place(users, u) \in Nat /\ Place(table, u) \in Nat
        BY <1>7, PlaceType
      <3>4. Place(users, u) <= Reached
        BY <1>8, <2>3, <3>2, <3>3
      <3>5. QED
        BY <2>1, <3>4 DEF SInv, UnseenBehind
    <2>4. QED
      BY <2>1, <2>2, <2>3 DEF SInv, UnseenBehind
  <1>10. SeenWithin'
    <2> SUFFICES ASSUME Walking, walk'.met \cap {"added", "tied"} = {},
                        NEW u \in walk.seen \cap DOMAIN table
                 PROVE  Place(table, u) <= Reached
      BY <1>2, <1>4 DEF SeenWithin
    <2>1. walk.met \cap {"added", "tied"} = {}
      BY <1>2
    <2>2. trouble = "dropped"
      BY <1>2
    <2>3. Place(table, u) <= Place(users, u)
      BY <1>7, <2>2, PlaceGrows
    <2>4. Place(users, u) \in Nat /\ Place(table, u) \in Nat
      BY <1>7, PlaceType
    <2>5. Place(users, u) <= Reached
      BY <2>1, <2>2 DEF SInv, SeenWithin
    <2>6. QED
      BY <1>8, <2>3, <2>4, <2>5
  <1>11. QED
    BY <1>2, <1>3, <1>4, <1>6, <1>9, <1>10
    DEF SInv, WalkMissesNone, WalkEnded, WalkRepeatsNone, PagesAsAnnounced,
        Announced, Representable

LEMMA AppearKeeps ==
  ASSUME SInv, NEW u \in Uuids, NEW stamp \in Stamps, Appear(u, stamp)
  PROVE  SInv'
  <1> DEFINE table == [v \in DOMAIN users \cup {u} |-> IF v = u THEN stamp ELSE users[v]]
  <1>1. u \notin DOMAIN users /\ Change(table, "added")
    BY DEF Appear
  <1>2. DOMAIN table = DOMAIN users \cup {u}
    OBVIOUS
  <1>3. \A v \in DOMAIN users : table[v] = users[v]
    BY <1>1
  <1>4. DOMAIN table \subseteq Uuids /\ \A v \in DOMAIN table : table[v] \in Stamps
    BY DEF SInv, TypeOK
  <1> HIDE DEF table
  <1>5. QED
    BY <1>1, <1>2, <1>3, <1>4, ChangeKeeps

LEMMA VanishKeeps ==
  ASSUME SInv, NEW u \in Uuids, Vanish(u)
  PROVE  SInv'
  <1> DEFINE table == [v \in DOMAIN users \ {u} |-> users[v]]
  <1>1. Change(table, "dropped")
    BY DEF Vanish
  <1>2. /\ DOMAIN table \subseteq DOMAIN users
        /\ \A v \in DOMAIN table : users[v] = table[v]
    OBVIOUS
  <1>3. DOMAIN table \subseteq Uuids /\ \A v \in DOMAIN table : table[v] \in Stamps
    BY DEF SInv, TypeOK
  <1> HIDE DEF table
  <1>4. QED
    BY <1>1, <1>2, <1>3, ChangeKeeps
\* The pages before the last one announced are full, and so on: what the rows
\* between the first skip and the first skip + size of n rows are.
LEMMA PageOfRows ==
  ASSUME TableOK, NEW page \in Nat, page >= 1, NEW size \in Nat, size >= 1,
         NEW s \in Newest((page - 1) * size), NEW t \in Newest((page - 1) * size + size),
         s \subseteq t, NEW pages \in Nat,
         Cardinality(DOMAIN users) <= pages * size,
         pages * size < Cardinality(DOMAIN users) + size
  PROVE  /\ page < pages => Cardinality(t \ s) = size
         /\ page = pages => t \ s # {}
         /\ page > pages => t \ s = {}
  <1> DEFINE n == Cardinality(DOMAIN users)
             skip == (page - 1) * size
  <1>1. n \in Nat /\ skip \in Nat /\ skip + size \in Nat
    <2>1. page - 1 \in Nat
      OBVIOUS
    <2>2. QED
      BY <2>1, FiniteRows DEF TableOK
  <1>2. /\ s \subseteq DOMAIN users /\ IsFiniteSet(s) /\ Cardinality(s) \in Nat
        /\ Cardinality(s) <= skip
        /\ Cardinality(s) = skip \/ s = DOMAIN users
    BY <1>1, NewestSize
  <1>3. /\ t \subseteq DOMAIN users /\ IsFiniteSet(t) /\ Cardinality(t) \in Nat
        /\ Cardinality(t) <= skip + size
        /\ Cardinality(t) = skip + size \/ t = DOMAIN users
    BY <1>1, NewestSize
  <1>4. Cardinality(t \ s) = Cardinality(t) - Cardinality(s)
    <2>1. t \cap s = s
      OBVIOUS
    <2>2. Cardinality(t \ s) = Cardinality(t) - Cardinality(t \cap s)
      BY <1>3, FS_Difference
    <2>3. QED
      BY <2>1, <2>2
  <1>5. page * size = skip + size
    OBVIOUS
  <1> HIDE DEF n, skip
  <1>6. n = Cardinality(DOMAIN users)
    BY DEF n
  <1>7. CASE page < pages
    <2> DEFINE d == pages - page - 1
    <2>1. d \in Nat /\ pages = page + 1 + d
      BY <1>7
    <2> HIDE DEF d
    <2>2. pages * size = page * size + size + d * size /\ d * size \in Nat
      BY <2>1
    <2>3. skip + size < n
      BY <1>1, <1>5, <1>6, <2>2
    <2>4. Cardinality(t) = skip + size /\ Cardinality(s) = skip
      BY <1>1, <1>2, <1>3, <1>6, <2>3
    <2>5. QED
      BY <1>1, <1>4, <1>7, <2>4
  <1>8. CASE page = pages
    <2>1. skip < n
      BY <1>1, <1>5, <1>6, <1>8
    <2>2. Cardinality(s) < Cardinality(t)
      BY <1>1, <1>2, <1>3, <1>6, <2>1
    <2>3. s # t
      BY <1>2, <2>2
    <2>4. t \ s # {}
      BY <2>3
    <2>5. ~(page < pages) /\ ~(page > pages)
      BY <1>8
    <2>6. QED
      BY <2>4, <2>5
  <1>9. CASE page > pages
    <2> DEFINE d == page - 1 - pages
    <2>1. d \in Nat /\ page - 1 = pages + d
      BY <1>9
    <2> HIDE DEF d
    <2>2. skip = pages * size + d * size /\ d * size \in Nat
      BY <2>1 DEF skip
    <2>3. n <= skip
      BY <1>1, <1>6, <2>2
    <2>4. s = DOMAIN users
      <3>1. CASE Cardinality(s) = skip
        <4>1. IsFiniteSet(DOMAIN users) /\ Cardinality(s) <= n
          BY <1>2, <1>6, FiniteRows, FS_Subset DEF TableOK
        <4>2. Cardinality(s) = n
          BY <1>1, <1>2, <2>3, <3>1, <4>1
        <4>3. QED
          BY <1>2, <1>6, <4>1, <4>2, FS_Subset
      <3>2. QED
        BY <1>2, <3>1
    <2>5. t \ s = {}
      BY <1>3, <2>4
    <2>6. QED
      BY <1>9, <2>5
  <1>10. QED
    BY <1>7, <1>8, <1>9

LEMMA FetchKeeps ==
  ASSUME SInv, FetchPage, ~Fail("ErrUserSearchFailed")
  PROVE  SInv'
  <1> DEFINE skip == Offset(req.page, req.size)
  <1>1. TypeOK /\ req.at = "page" /\ UNCHANGED <<users, serial, writes>>
    BY DEF SInv, FetchPage
  <1>2. PICK s \in Newest(skip), t \in Newest(skip + req.size) :
          /\ s \subseteq t
          /\ req'.data \subseteq t \ s
          /\ req'.data = t \ s \/ "lost" \in walk'.met
    BY <1>1, FetchStep DEF SInv
  <1>3. /\ skip >= 0 /\ req.size >= 1
        /\ req' \in Requests /\ req'.at = "replied" /\ req'.err = req.err
        /\ req'.page = req.page /\ req'.size = req.size
        /\ req'.total = req.total
        /\ req'.totalPage = TotalPage(req.total, req.size)
        /\ walk' \in Walks /\ walk'.on = walk.on
        /\ walk'.present = walk.present
        /\ walk'.seen = walk.seen \cup req'.data
        /\ walk'.twice = walk.twice \cup (walk.seen \cap req'.data)
        /\ walk.met \subseteq walk'.met
        /\ walk'.met \subseteq walk.met \cup {"lost"}
    BY <1>1, FetchStep DEF SInv
  <1>4. TypeOK' /\ TableOK
    BY <1>1, <1>3, TableType DEF TypeOK
  <1>5. /\ req.page \in Int /\ req.size \in Nat /\ req.total \in Nat /\ MaxInt \in Nat
        /\ req.page \in Ints /\ req.size \in Ints
    BY <1>1, <1>3, RequestType
  <1>6. skip \in Nat /\ skip + req.size \in Nat
    <2>1. skip \in Ints
      BY <1>5, OffsetType
    <2> HIDE DEF skip
    <2>a. skip \in Int
      BY <1>5, <2>1 DEF Ints
    <2>2. QED
      BY <1>3, <1>5, <2>a DEF skip
  <1>7. Cardinality(Uuids) \in Nat /\ Cardinality(Uuids) + MaxSize <= MaxInt
        /\ MaxSize \in Nat
    BY FiniteRows, LimitsType
  <1>8. /\ s \subseteq DOMAIN users /\ t \subseteq DOMAIN users
        /\ DOMAIN users \subseteq Uuids
    BY <1>4, <1>6, NewestSize DEF TableOK
  <1>9. ~Answered
    BY <1>1 DEF Answered
  <1>10. Paged' /\ CountFresh' /\ WalkPlaced' /\ OnePage'
    <2>1. Tied(users)' = Tied(users')
      BY DEF Tied
    <2>2. Paged'
      BY <1>3 DEF SInv, Paged
    <2>3. CountFresh'
      BY <1>1, <1>3 DEF SInv, CountFresh
    <2>4. WalkPlaced'
      BY <1>1, <1>3, <2>1 DEF SInv, WalkPlaced, Walking
    <2>5. OnePage'
      BY <1>1, <1>3 DEF SInv, OnePage
    <2>6. QED
      BY <2>2, <2>3, <2>4, <2>5
  <1>11. ASSUME Walking
         PROVE  /\ skip = Reached /\ Answered' /\ Reached' = Reached + req.size
                /\ Reached' = req.page * req.size /\ req.page \in Nat /\ req.page >= 1
    <2>1. req.page >= 1 /\ req.err = "nil" /\ (req.page - 1) * req.size <= Cardinality(Uuids)
      BY <1>11 DEF SInv, WalkPlaced, Walking
    <2>2. (req.page - 1) * req.size \in Nat
      <3>1. req.page - 1 \in Nat
        BY <1>5, <2>1
      <3>2. QED
        BY <1>5, <3>1
    <2>3. (req.page - 1) * req.size \in Ints
      BY <1>5, <1>7, <2>1, <2>2 DEF Ints
    <2>4. skip = (req.page - 1) * req.size
      BY <1>3, <1>5, <2>3, OffsetExact
    <2>5. Answered'
      BY <1>3, <2>1 DEF Answered
    <2>6. req.page * req.size = (req.page - 1) * req.size + req.size
      BY <1>5
    <2>7. QED
      BY <1>3, <1>5, <1>9, <2>1, <2>4, <2>5, <2>6 DEF Reached
  <1>12. \A u \in DOMAIN users : Place(users, u) \in Nat
    BY <1>8, PlaceType
  <1>13. UnseenBehind'
    <2> SUFFICES ASSUME Walking, walk'.met \cap {"dropped", "between", "tied", "lost"} = {}
                 PROVE  /\ walk.present \subseteq DOMAIN users
                        /\ \A u \in walk.present : Place(users, u) <= Reached'
                                                     => u \in walk'.seen
      BY <1>1, <1>3 DEF UnseenBehind, Walking
    <2>1. walk.met \cap {"dropped", "between", "tied", "lost"} = {}
      BY <1>3
    <2>2. ~Tied(users) /\ walk.present \subseteq DOMAIN users
      BY <2>1 DEF SInv, WalkPlaced, Walking, UnseenBehind
    <2>3. req'.data = t \ s
      BY <1>2
    <2>4. ASSUME NEW u \in walk.present, Place(users, u) <= Reached'
          PROVE  u \in walk'.seen
      <3>1. u \in t
        BY <1>4, <1>6, <1>11, <2>2, <2>4, PlaceMeansNewest
      <3>2. CASE u \in s
        <4>1. Place(users, u) <= skip
          BY <1>4, <1>6, <2>2, <3>2, NewestMeansPlace
        <4>2. u \in walk.seen
          BY <1>11, <2>1, <4>1 DEF SInv, UnseenBehind
        <4>3. QED
          BY <1>3, <4>2
      <3>3. CASE u \notin s
        BY <1>3, <2>3, <3>1, <3>3
      <3>4. QED
        BY <3>2, <3>3
    <2>5. QED
      BY <2>2, <2>4
  <1>14. SeenWithin'
    <2> SUFFICES ASSUME Walking, walk'.met \cap {"added", "tied"} = {},
                        NEW u \in walk'.seen \cap DOMAIN users
                 PROVE  Place(users, u) <= Reached'
      BY <1>1, <1>3 DEF SeenWithin, Walking
    <2>1. walk.met \cap {"added", "tied"} = {}
      BY <1>3
    <2>2. ~Tied(users)
      BY <2>1 DEF SInv, WalkPlaced, Walking
    <2>3. CASE u \in walk.seen
      <3>1. Place(users, u) <= Reached
        BY <2>1, <2>3 DEF SInv, SeenWithin
      <3>2. QED
        BY <1>5, <1>6, <1>11, <1>12, <3>1
    <2>4. CASE u \in req'.data
      <3>1. u \in t
        BY <1>2, <2>4
      <3>2. Place(users, u) <= skip + req.size
        BY <1>4, <1>6, <2>2, <3>1, NewestMeansPlace
      <3>3. QED
        BY <1>11, <3>2
    <2>5. QED
      BY <1>3, <2>3, <2>4
  <1>15. WalkRepeatsNone'
    <2> SUFFICES ASSUME req.size \in 1..MaxSize, walk'.met \cap {"added", "tied"} = {}
                 PROVE  walk'.twice = {}
      BY <1>3 DEF WalkRepeatsNone
    <2>1. walk.met \cap {"added", "tied"} = {}
      BY <1>3
    <2>2. walk.twice = {}
      BY <2>1 DEF SInv, WalkRepeatsNone
    <2>3. ASSUME walk.on, NEW u \in walk.seen \cap req'.data
          PROVE  FALSE
      <3>1. u \in t /\ u \notin s /\ u \in DOMAIN users
        BY <1>2, <1>8, <2>3
      <3>2. Walking
        BY <2>3 DEF Walking
      <3>3. Place(users, u) <= skip
        BY <1>11, <2>1, <2>3, <3>1, <3>2 DEF SInv, SeenWithin
      <3>4. QED
        BY <1>4, <1>6, <3>1, <3>3, PlaceMeansNewest
    <2>4. ~walk.on => walk.seen = {}
      BY <1>1 DEF SInv, OnePage
    <2>5. QED
      BY <1>3, <2>2, <2>3, <2>4
  <1>16. WalkMissesNone'
    <2> SUFFICES ASSUME WalkEnded', Walking,
                        walk'.met \cap {"dropped", "between", "tied", "lost"} = {}
                 PROVE  walk'.present \subseteq walk'.seen
      BY <1>3 DEF WalkMissesNone, WalkEnded, Walking
    <2>1. req.total = Cardinality(DOMAIN users)
      BY <1>1, <1>3 DEF SInv, CountFresh
    <2>2. req.page >= TotalPage(req.total, req.size)
      BY <1>3 DEF WalkEnded
    <2>3. req.total + req.size - 1 <= MaxInt
      <3>1. req.total <= Cardinality(Uuids) /\ req.size <= MaxSize
        BY DEF SInv, CountFresh, Walking
      <3>2. QED
        BY <1>5, <1>7, <3>1
    <2>4. /\ TotalPage(req.total, req.size) \in Nat
          /\ req.total <= TotalPage(req.total, req.size) * req.size
      BY <1>3, <1>5, <2>3, TotalPageExact
    <2>5. req.total <= Reached'
      <3> DEFINE m == TotalPage(req.total, req.size)
                 d == req.page - m
      <3>1. d \in Nat /\ req.page = m + d /\ m \in Nat /\ req.total <= m * req.size
        BY <1>5, <2>2, <2>4
      <3> HIDE DEF m, d
      <3>2. req.page * req.size = m * req.size + d * req.size
            /\ d * req.size \in Nat /\ m * req.size \in Nat
        BY <1>5, <3>1
      <3>3. QED
        BY <1>5, <1>11, <3>1, <3>2
    <2>6. ASSUME NEW u \in walk'.present
          PROVE  u \in walk'.seen
      <3>1. walk'.present \subseteq DOMAIN users
            /\ (Place(users, u) <= Reached' => u \in walk'.seen)
        BY <1>1, <1>3, <1>13, <2>6 DEF UnseenBehind, Walking
      <3>2. Place(users, u) <= Cardinality(DOMAIN users)
        BY <1>8, PlaceType
      <3>3. Reached' \in Int
        BY <1>5, <1>11
      <3>4. QED
        BY <1>5, <1>12, <2>1, <2>5, <2>6, <3>1, <3>2, <3>3
    <2>7. QED
      BY <2>6
  <1>17. PagesAsAnnounced'
    <2> SUFFICES ASSUME req.page >= 1, req.size \in 1..MaxSize,
                        (req.page - 1) * req.size \in Ints,
                        walk'.met \cap {"between", "lost"} = {}
                 PROVE  LET m == TotalPage(req.total, req.size)
                        IN  /\ req.page < m => Cardinality(t \ s) = req.size
                            /\ req.page = m => t \ s # {}
                            /\ req.page > m => t \ s = {}
      BY <1>2, <1>3 DEF PagesAsAnnounced, Announced, Representable
    <2>1. req.total = Cardinality(DOMAIN users)
      BY <1>1, <1>3 DEF SInv, CountFresh
    <2>2. skip = (req.page - 1) * req.size
      BY <1>3, <1>5, OffsetExact
    <2>3. req.total + req.size - 1 <= MaxInt
      <3>1. req.total <= Cardinality(Uuids) /\ req.size <= MaxSize
        BY DEF SInv, CountFresh
      <3>2. QED
        BY <1>5, <1>7, <3>1
    <2>4. /\ TotalPage(req.total, req.size) \in Nat
          /\ req.total <= TotalPage(req.total, req.size) * req.size
          /\ TotalPage(req.total, req.size) * req.size < req.total + req.size
      BY <1>3, <1>5, <2>3, TotalPageExact
    <2>5. req.page \in Nat
      BY <1>5
    <2> DEFINE m == TotalPage(req.total, req.size)
    <2>6. /\ m \in Nat
          /\ Cardinality(DOMAIN users) <= m * req.size
          /\ m * req.size < Cardinality(DOMAIN users) + req.size
      BY <2>1, <2>4
    <2> HIDE DEF m
    <2>7. /\ s \in Newest((req.page - 1) * req.size)
          /\ t \in Newest((req.page - 1) * req.size + req.size)
      BY <2>2
    <2>8. /\ req.page < m => Cardinality(t \ s) = req.size
          /\ req.page = m => t \ s # {}
          /\ req.page > m => t \ s = {}
      BY <1>2, <1>3, <1>4, <1>5, <2>5, <2>6, <2>7, PageOfRows
    <2>9. QED
      BY <2>8 DEF m
  <1>18. QED
    BY <1>4, <1>10, <1>13, <1>14, <1>15, <1>16, <1>17 DEF SInv
-----------------------------------------------------------------------------
(* Theorems *)

LEMMA SearchStep ==
  ASSUME SInv, [Next]_vars
  PROVE  SInv'
  <1>1. CASE BadQuery
    <2>1. Fail("ErrBadRequest") /\ users' = users /\ {serial', writes'} \subseteq Nat
      BY <1>1 DEF BadQuery, Arrive, SInv, TypeOK
    <2>2. QED
      BY <2>1, FailKeeps DEF Errors
  <1>2. CASE NextPage
    BY <1>2, NextPageKeeps
  <1>3. ASSUME NEW size \in Sizes, FirstPage(size)
        PROVE  SInv'
    BY <1>3, FirstPageKeeps
  <1>4. ASSUME NEW size \in Sizes, NEW page \in Pages, Look(page, size)
        PROVE  SInv'
    BY <1>4, LookKeeps
  <1>5. CASE CountRows \/ FetchPage
    <2>1. UNCHANGED <<users, serial, writes>>
      BY <1>5 DEF CountRows, FetchPage
    <2>2. CASE Fail("ErrUserSearchFailed")
      BY <2>1, <2>2, FailKeeps DEF Errors, SInv, TypeOK
    <2>3. CASE ~Fail("ErrUserSearchFailed")
      BY <1>5, <2>3, CountKeeps, FetchKeeps
    <2>4. QED
      BY <2>2, <2>3
  <1>6. ASSUME NEW u \in Uuids, Vanish(u) \/ \E stamp \in Stamps : Appear(u, stamp)
        PROVE  SInv'
    BY <1>6, VanishKeeps, AppearKeeps
  <1>7. CASE UNCHANGED vars
    <2>1. UNCHANGED <<users, req, serial, writes, walk>>
      BY <1>7 DEF vars
    <2>2. Tied(users)' = Tied(users)
      BY <2>1 DEF Tied
    <2>3. Reached' = Reached /\ Answered' = Answered /\ Walking' = Walking
      BY <2>1 DEF Reached, Answered, Walking
    <2>4. /\ TypeOK' /\ Paged' /\ CountFresh' /\ WalkPlaced' /\ OnePage'
      BY <2>1, <2>2, <2>3 DEF SInv, TypeOK, Paged, CountFresh, WalkPlaced, OnePage
    <2>5. UnseenBehind' /\ SeenWithin'
      BY <2>1, <2>3 DEF SInv, UnseenBehind, SeenWithin
    <2>6. WalkMissesNone' /\ WalkRepeatsNone' /\ PagesAsAnnounced'
      BY <2>1, <2>3 DEF SInv, WalkMissesNone, WalkEnded, WalkRepeatsNone,
         PagesAsAnnounced, Announced, Representable
    <2>7. QED
      BY <2>4, <2>5, <2>6 DEF SInv
  <1>8. QED
    BY <1>1, <1>2, <1>3, <1>4, <1>5, <1>6, <1>7 DEF Next

\* The inductive invariant holds in every reachable state.
THEOREM SearchInvariance == Spec => []SInv
  <1>1. Init => SInv
    BY InitKeeps
  <1>2. SInv /\ [Next]_vars => SInv'
    BY SearchStep
  <1>3. QED
    BY <1>1, <1>2, PTL DEF Spec

\* Type correctness: in particular the number of the next page and the total of
\* pages are integers of the program, and the division never is one by 0.
THEOREM SearchTypeCorrect == Spec => []TypeOK
  <1>1. SInv => TypeOK
    BY DEF SInv
  <1>2. QED
    BY <1>1, SearchInvariance, PTL

\* A client that reads page after page until the last one announced has seen
\* every user there from the start, although users were added meanwhile.
THEOREM WalksMissNone == Spec => []WalkMissesNone
  <1>1. SInv => WalkMissesNone
    BY DEF SInv
  <1>2. QED
    BY <1>1, SearchInvariance, PTL

\* Such a client is shown nobody twice, although users were deleted meanwhile.
THEOREM WalksRepeatNone == Spec => []WalkRepeatsNone
  <1>1. SInv => WalkRepeatsNone
    BY DEF SInv
  <1>2. QED
    BY <1>1, SearchInvariance, PTL

\* The pages before the last one announced are full, the last one is not empty,
\* and there is nothing behind it.
THEOREM AnnouncedPagesRight == Spec => []PagesAsAnnounced
  <1>1. SInv => PagesAsAnnounced
    BY DEF SInv
  <1>2. QED
    BY <1>1, SearchInvariance, PTL

\* A request for a negative page or size is refused, unless the number of rows to
\* skip is beyond the integers; 0 is replaced by its default (SetDefault, Search).
THEOREM NegativePagesRefused == Spec => []NegativeRefused
  <1>1. SInv => NegativeRefused
    <2> SUFFICES ASSUME SInv, Answered, Representable
                 PROVE  req.page >= 1 /\ req.size >= 1
      BY DEF NegativeRefused
    <2>1. /\ req.page \in Int /\ req.size \in Int
          /\ req.page \in Ints /\ req.size \in Ints
      BY RequestType DEF SInv
    <2>2. req.size >= 1 /\ Offset(req.page, req.size) >= 0
      BY DEF SInv, Paged
    <2>3. (req.page - 1) * req.size >= 0
      BY <2>1, <2>2, OffsetExact DEF Representable
    <2>4. req.page - 1 \in Int
      BY <2>1
    <2>5. ~(req.page - 1 < 0)
      BY <2>1, <2>2, <2>3, <2>4, NegativeProduct
    <2>6. QED
      BY <2>1, <2>2, <2>5
  <1>2. QED
    BY <1>1, SearchInvariance, PTL
=============================================================================
