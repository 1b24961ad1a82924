----------------------------- MODULE OrderLists -----------------------------
(***************************************************************************)
(* The lists of orders of both services, read page by page while orders     *)
(* appear and change status: all orders of a customer, the orders of a      *)
(* venue in one status, and the kitchen's local orders.  They share one     *)
(* scheme.  The position after a page is the key of its last row, creation  *)
(* time and identifier, and a page is what comes after that key, newest     *)
(* first.                                                                   *)
(*                                                                          *)
(* The time of creation is taken before the insertion, so an order may      *)
(* appear among older ones.  Identifiers are ordered, as UUIDs are.         *)
(***************************************************************************)
EXTENDS Pages, Naturals, FiniteSets

CONSTANTS
  Orders,       \* order identifiers
  Times,        \* creation times
  Statuses,     \* the statuses that the lists tell apart
  Everything    \* the list without a status

VARIABLES
  orders,       \* the table: a row or None
  reader,       \* a client on its way through one list
  stayed        \* the orders that were in that list ever since it started

vars == <<orders, reader, stayed>>

Lists == Statuses \cup {Everything}
Row == [createdAt : Times, status : Statuses]
Position == [scope : Lists, createdAt : Times, id : Orders]

ASSUME OrdersAreOrdered == Orders \subseteq Nat /\ IsFiniteSet(Orders)
ASSUME TimesAreOrdered == Times \subseteq Nat
ASSUME LimitsArePositive == Limits \subseteq Nat \ {0}
ASSUME NoneIsAbsent == None \notin Row /\ None \notin Position /\ None \notin Lists

NoReader == [list |-> None, cursor |-> None, page |-> {}, got |-> {}]

Init ==
  /\ orders = [o \in Orders |-> None]
  /\ reader = NoReader
  /\ stayed = {}

-----------------------------------------------------------------------------
(* Keys, lists and pages. *)

\* The row with the first key comes before the one with the second: newest
\* first, then by identifier.
Comes(at, o, time, p) == time < at \/ (time = at /\ p < o)

InList(o, list) ==
  orders[o] # None /\ (list = Everything \/ orders[o].status = list)

\* Variant: the row the cursor was made from is in the next page again.
Beyond_Or(cursor, o) ==
  cursor # None =>
    ~Comes(orders[o].createdAt, o, cursor.createdAt, cursor.id)

\* Variant: identifiers do not decide between orders of one time.
Beyond_ByTime(cursor, o) ==
  cursor # None => orders[o].createdAt < cursor.createdAt

Beyond(cursor, o) ==
  cursor # None => Comes(cursor.createdAt, cursor.id, orders[o].createdAt, o)

\* What a query without a limit returns.
Candidates(list, cursor) ==
  {o \in Orders : InList(o, list) /\ Beyond(cursor, o)}

RowsBefore(rows, o) ==
  {p \in rows : Comes(orders[p].createdAt, p, orders[o].createdAt, o)}

\* Variant: the row that is only fetched to see whether there is more is kept.
FirstRows_OneMore(rows, limit) ==
  {o \in rows : Cardinality(RowsBefore(rows, o)) <= limit}

\* The first rows of a query, no more than the limit.
FirstRows(rows, limit) ==
  {o \in rows : Cardinality(RowsBefore(rows, o)) < limit}

\* Variant: a full page always has a next one.
HasMore_WhenFull(rows, limit) == Cardinality(rows) >= limit

\* One row more than the limit is queried; it comes if there are more rows.
HasMore(rows, limit) == Cardinality(rows) > limit

LastRow(page) ==
  CHOOSE o \in page : \A p \in page \ {o} :
    Comes(orders[p].createdAt, p, orders[o].createdAt, o)

\* buildOrderPage: the last row of the page is where the next one starts.
CursorAfter(list, page) ==
  [scope |-> list, createdAt |-> orders[LastRow(page)].createdAt,
   id |-> LastRow(page)]

-----------------------------------------------------------------------------
(* The orders. *)

Insert(o, at) ==
  /\ orders[o] = None
  /\ \E status \in Statuses :
       orders' = [orders EXCEPT ![o] = [createdAt |-> at, status |-> status]]
  /\ UNCHANGED <<reader, stayed>>

\* Statuses only move on in the platform; in the kitchen they may step back
\* (VenueSync).
ChangeStatus(o, status) ==
  /\ orders[o] # None /\ orders[o].status # status
  /\ orders' = [orders EXCEPT ![o].status = status]
  /\ stayed' = IF reader.list = Everything THEN stayed ELSE stayed \ {o}
  /\ UNCHANGED reader

(* The reader. *)

Turn(list, cursor, limit, before) ==
  LET rows == Candidates(list, cursor)
      page == FirstRows(rows, limit)
  IN reader' = [list |-> list, page |-> page, got |-> before \cup page,
                cursor |-> IF HasMore(rows, limit) THEN CursorAfter(list, page)
                           ELSE None]

FirstPage(list, limit) ==
  /\ Turn(list, None, limit, {})
  /\ stayed' = {o \in Orders : InList(o, list)}
  /\ UNCHANGED orders

\* decodePageCursor: the scope of the cursor is that of the request.
Belongs(cursor, list) == cursor.scope = list

\* A cursor of another list is refused, and the reader may try again.
NextPage(list, limit) ==
  /\ reader.cursor # None
  /\ Belongs(reader.cursor, list)
  /\ Turn(list, reader.cursor, limit, reader.got)
  /\ UNCHANGED <<orders, stayed>>

Next ==
  \/ \E o \in Orders, at \in Times : Insert(o, at)
  \/ \E o \in Orders, status \in Statuses : ChangeStatus(o, status)
  \/ \E list \in Lists, limit \in Limits :
       FirstPage(list, limit) \/ NextPage(list, limit)

Spec == Init /\ [][Next]_vars

-----------------------------------------------------------------------------
(* Properties. *)

Typed ==
  /\ orders \in [Orders -> {None} \cup Row]
  /\ reader \in [list : Lists \cup {None}, cursor : Position \cup {None},
                 page : SUBSET Orders, got : SUBSET Orders]
  /\ stayed \subseteq Orders

\* The type of every variable; no page is larger than was asked for.
TypeOK ==
  /\ Typed
  /\ reader.page # {} => \E limit \in Limits : Cardinality(reader.page) <= limit

\* docs/contract-decisions.md: nothing moves from page to page as it does with
\* OFFSET.  A client who has read a list to its end was given every order that
\* was in the list all the time, however many appeared before and between
\* them, left, or came back.
NothingIsSkipped ==
  reader.list # None /\ reader.cursor = None => stayed \subseteq reader.got

\* No order is on two pages of one reading, whatever its status did meanwhile.
NoOrderTwice ==
  [][\A list \in Lists, limit \in Limits :
       NextPage(list, limit) => reader'.page \cap reader.got = {}]_vars

\* A cursor is only given when there is something after it.
CursorLeadsOn ==
  [][reader'.cursor # None /\ reader' # reader =>
       Candidates(reader'.list, reader'.cursor) # {}]_vars
=============================================================================
