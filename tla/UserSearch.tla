----------------------------- MODULE UserSearch -----------------------------
(***************************************************************************)
(* GET /api/users: UserController.List, UserService.Search and the two     *)
(* statements of UserRepository.Search, one that counts the users a filter *)
(* matches and one that reads a page of them, newest first.  A client pages *)
(* through the users while others are added, renamed and deleted.          *)
(***************************************************************************)
EXTENDS Integers, FiniteSets

CONSTANTS
  Uuids,        \* accounts there may be
  Stamps,       \* values of created_at
  Pages, Sizes, \* what a query string may ask for
  DefaultSize,  \* the size a request without one gets
  MaxSize,      \* the largest size the request type announces
  MaxInt,       \* the largest int
  Faults,       \* the calls that may fail
  MaxRequests,  \* bound: number of requests
  MaxWrites     \* bound: number of changes of the table

\* "query": a statement fails; "rows": the connection is lost while the rows of
\* a page are read, which nobody notices because rows.Err() is not asked.
FaultKinds == {"query", "rows"}

ASSUME SearchAssumption ==
  /\ Stamps \subseteq Nat /\ IsFiniteSet(Uuids)
  /\ MaxInt \in Nat /\ {DefaultSize, MaxSize} \subseteq 1..MaxInt
  /\ Cardinality(Uuids) + MaxSize <= MaxInt
  /\ Pages \cup Sizes \subseteq -(MaxInt + 1)..MaxInt
  /\ Faults \subseteq FaultKinds
  /\ {MaxRequests, MaxWrites} \subseteq Nat

VARIABLES
  users,   \* the rows the filter matches: UUID -> created_at
  req,     \* the request, which stays until the next one
  serial,  \* number of requests so far
  writes,  \* number of changes so far
  walk     \* what the client has met and seen, on one page or many

vars == <<users, req, serial, writes, walk>>

-----------------------------------------------------------------------------
(* Integers of the program *)

\* Overflow.
Wrap(n) == ((n + MaxInt + 1) % (2 * MaxInt + 2)) - (MaxInt + 1)

\* Division truncates.
Quotient(a, b) == IF a < 0 THEN -((-a) \div b) ELSE a \div b

\* Mutant: pages are counted from 0.
OffsetFromZero(page, size) == Wrap(page * size)

\* Mutant: a negative offset is taken for 0.
OffsetClamped(page, size) ==
  IF Wrap(Wrap(page - 1) * size) < 0 THEN 0 ELSE Wrap(Wrap(page - 1) * size)

Offset(page, size) == Wrap(Wrap(page - 1) * size)

\* Mutant: one page too many when the last one is full.
TotalPageFull(total, size) == Quotient(Wrap(total + size), size)

TotalPage(total, size) == Quotient(Wrap(total + size - 1), size)

\* SetDefault replaces nothing but 0.
DefaultPageOf(page) == IF page = 0 THEN 1 ELSE page
DefaultSizeOf(size) == IF size = 0 THEN DefaultSize ELSE size

-----------------------------------------------------------------------------
(* State *)

Ints == -(MaxInt + 1)..MaxInt

Places == {"idle", "count", "page", "replied"}

Errors == {"nil", "ErrBadRequest", "ErrUserSearchFailed"}

Requests == [at : Places, page : Ints, size : Ints, err : Errors,
             total : Nat, totalPage : Ints, data : SUBSET Uuids]

Idle == [at |-> "idle", page |-> 1, size |-> 1, err |-> "nil", total |-> 0,
         totalPage |-> 0, data |-> {}]

\* What may disturb a client: rows that appear or go, a change between the two
\* statements of a search, rows of equal age, and rows lost unnoticed.
Troubles == {"added", "dropped", "between", "tied", "lost"}

Walks == [on : BOOLEAN,             \* whether the client pages through
          present : SUBSET Uuids,   \* rows there were when it began
          seen : SUBSET Uuids,      \* rows it was shown
          twice : SUBSET Uuids,     \* rows it was shown on two pages
          met : SUBSET Troubles]

NoWalk == [on |-> FALSE, present |-> {}, seen |-> {}, twice |-> {}, met |-> {}]

TypeOK ==
  /\ DOMAIN users \subseteq Uuids /\ \A u \in DOMAIN users : users[u] \in Stamps
  /\ req \in Requests
  /\ {serial, writes} \subseteq Nat
  /\ walk \in Walks

Init ==
  /\ \E present \in SUBSET Uuids : users \in [present -> Stamps]
  /\ req = Idle
  /\ serial = 0
  /\ writes = 0
  /\ walk = NoWalk

-----------------------------------------------------------------------------
(* A search *)

Answered == req.at = "replied" /\ req.err = "nil"

Fail(e) == req' = [req EXCEPT !.at = "replied", !.err = e] /\ walk' = NoWalk

\* The query is parsed and never validated.
StartList(page, size) ==
  req' = [Idle EXCEPT !.at = "count", !.page = DefaultPageOf(page),
                      !.size = DefaultSizeOf(size)]

CountRows ==
  /\ req.at = "count"
  /\ \/ /\ req' = [req EXCEPT !.at = "page", !.total = Cardinality(DOMAIN users)]
        /\ UNCHANGED walk
     \/ "query" \in Faults /\ Fail("ErrUserSearchFailed")
  /\ UNCHANGED <<users, serial, writes>>

\* Mutant: ORDER BY is forgotten.
NewestUnordered(k) ==
  {s \in SUBSET DOMAIN users :
     Cardinality(s) = k \/ (s = DOMAIN users /\ Cardinality(s) < k)}

\* The first k rows ORDER BY created_at DESC; rows of equal age in any order.
Newest(k) ==
  {s \in SUBSET DOMAIN users :
     /\ Cardinality(s) = k \/ (s = DOMAIN users /\ Cardinality(s) < k)
     /\ \A u \in s, v \in DOMAIN users \ s : users[u] >= users[v]}

\* PostgreSQL refuses a negative OFFSET or LIMIT.
FetchPage ==
  LET skip == Offset(req.page, req.size)
      refused == skip < 0 \/ req.size < 0
      Show(rows, troubles) ==
        /\ req' = [req EXCEPT !.at = "replied", !.data = rows,
                              !.totalPage = TotalPage(req.total, req.size)]
        /\ walk' = [walk EXCEPT !.seen = @ \cup rows,
                                !.twice = @ \cup (walk.seen \cap rows),
                                !.met = @ \cup troubles]
  IN  /\ req.at = "page"
      /\ \/ /\ ~refused
            /\ \E s \in Newest(skip), t \in Newest(skip + req.size) :
                 /\ s \subseteq t
                 /\ \/ Show(t \ s, {})
                    \/ /\ "rows" \in Faults
                       /\ \E rows \in SUBSET (t \ s) \ {t \ s} : Show(rows, {"lost"})
         \/ (refused \/ "query" \in Faults) /\ Fail("ErrUserSearchFailed")
      /\ UNCHANGED <<users, serial, writes>>

-----------------------------------------------------------------------------
(* The client *)

Tied(t) == \E u, v \in DOMAIN t : u # v /\ t[u] = t[v]

Arrive ==
  /\ req.at \in {"idle", "replied"}
  /\ serial < MaxRequests
  /\ serial' = serial + 1
  /\ UNCHANGED <<users, writes>>

BadQuery == Arrive /\ Fail("ErrBadRequest")

Look(page, size) == Arrive /\ StartList(page, size) /\ walk' = NoWalk

FirstPage(size) ==
  /\ Arrive
  /\ StartList(1, size)
  /\ walk' = [NoWalk EXCEPT !.on = TRUE, !.present = DOMAIN users,
                            !.met = IF Tied(users) THEN {"tied"} ELSE {}]

NextPage ==
  /\ Answered /\ walk.on /\ req.page < req.totalPage
  /\ Arrive
  /\ StartList(req.page + 1, req.size)
  /\ UNCHANGED walk

-----------------------------------------------------------------------------
(* The table changes *)

Change(table, trouble) ==
  /\ writes < MaxWrites
  /\ writes' = writes + 1
  /\ users' = table
  /\ walk' = [walk EXCEPT !.met = @ \cup {trouble}
                                    \cup (IF req.at = "page" THEN {"between"} ELSE {})
                                    \cup (IF Tied(table) THEN {"tied"} ELSE {})]
  /\ UNCHANGED <<req, serial>>

\* Mutant: the row is inserted without created_at.
AppearUndated(u, stamp) ==
  /\ u \notin DOMAIN users
  /\ Change([v \in DOMAIN users \cup {u} |-> IF v = u THEN 0 ELSE users[v]], "added")

\* A user is created, or one is renamed so that the filter matches it.  NOW()
\* is when the transaction began, so a row may come in behind others.
Appear(u, stamp) ==
  /\ u \notin DOMAIN users
  /\ Change([v \in DOMAIN users \cup {u} |-> IF v = u THEN stamp ELSE users[v]], "added")

\* A user is deleted, or renamed so that the filter matches it no more.
Vanish(u) ==
  /\ u \in DOMAIN users
  /\ Change([v \in DOMAIN users \ {u} |-> users[v]], "dropped")

-----------------------------------------------------------------------------

Next ==
  \/ BadQuery \/ NextPage
  \/ \E size \in Sizes : FirstPage(size) \/ \E page \in Pages : Look(page, size)
  \/ CountRows \/ FetchPage
  \/ \E u \in Uuids : Vanish(u) \/ \E stamp \in Stamps : Appear(u, stamp)

Spec == Init /\ [][Next]_vars

-----------------------------------------------------------------------------
(* Properties *)

\* Within the limits the request type announces.
Announced == req.page >= 1 /\ req.size \in 1..MaxSize

\* The number of rows to skip does not overflow.
Representable == (req.page - 1) * req.size \in Ints

WalkEnded == Answered /\ walk.on /\ req.page >= req.totalPage

\* A client that reads page after page until the last one announced has seen
\* every user there from the start, although users were added meanwhile; for
\* users of different ages that stay, and if no change fell between the count
\* and the page of one search (Search, List).
WalkMissesNone ==
  /\ WalkEnded /\ req.size \in 1..MaxSize
  /\ walk.met \cap {"dropped", "between", "tied", "lost"} = {}
  => walk.present \subseteq walk.seen

\* Such a client is shown nobody twice, although users were deleted meanwhile
\* and wherever the deletions fell; for users of different ages, and if none
\* was added (Search, List).
WalkRepeatsNone ==
  req.size \in 1..MaxSize /\ walk.met \cap {"added", "tied"} = {} => walk.twice = {}

\* The total of pages is right about the pages: those before the last one
\* announced are full, the last one is not empty, and there is nothing behind
\* it; within the limits the request type announces, as long as the number of
\* rows to skip does not overflow, and if nothing changed between the two
\* statements (Search, the arithmetic of List).
PagesAsAnnounced ==
  Answered /\ Announced /\ Representable /\ walk.met \cap {"between", "lost"} = {} =>
    /\ req.page < req.totalPage => Cardinality(req.data) = req.size
    /\ req.page = req.totalPage => req.data # {}
    /\ req.page > req.totalPage => req.data = {}

\* A request for a negative page or size is refused with an error and never
\* answered with somebody's page, unless the number of rows to skip is beyond
\* the integers; 0 is no such request, it is replaced by its default and answered
\* (SetDefault, Search).
NegativeRefused ==
  Answered /\ Representable => req.page >= 1 /\ req.size >= 1
=============================================================================
