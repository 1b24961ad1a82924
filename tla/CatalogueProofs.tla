-------------------------- MODULE CatalogueProofs --------------------------
(***************************************************************************)
(* The catalogue of venues is a list of orders seen in a mirror, for any     *)
(* number of venues, names, cities and page sizes.                           *)
(***************************************************************************)
EXTENDS VenueCatalogue, FiniteSetTheorems, WellFoundedInduction, TLAPS

-----------------------------------------------------------------------------
(* The mirror. *)

V(v) == Mirror(Venues, v)
N(name) == Mirror(Names, name)

\* The mirror turns the order around, and twice it shows the same.
LEMMA MirrorMeans ==
  ASSUME CatalogueConstants
  PROVE  /\ IsFiniteSet(Venues)
         /\ \A v \in Venues : v \in Nat /\ V(v) \in Venues /\ V(V(v)) = v
         /\ \A v, w \in Venues : V(v) < V(w) <=> w < v
         /\ \A x \in Names : x \in Nat /\ N(x) \in Names
         /\ \A x, y \in Names : N(x) < N(y) <=> y < x
         /\ \A x, y \in Names : N(x) = N(y) <=> x = y
<1>1. PICK n, m \in Nat : /\ n = Max(Venues) /\ m = Max(Names)
                          /\ Venues = 1 .. n /\ Names = 1 .. m
  BY DEF CatalogueConstants
<1>2. /\ \A v \in 1 .. n : V(v) = n + 1 - v /\ V(v) \in 1 .. n
      /\ \A x \in 1 .. m : N(x) = m + 1 - x /\ N(x) \in 1 .. m
  <2>1. \A v : V(v) = n + 1 - v /\ N(v) = m + 1 - v
    BY <1>1 DEF V, N, Mirror
  <2> QED BY <2>1
<1>3. IsFiniteSet(Venues)
  BY <1>1, FS_Interval
<1>4. /\ \A v \in 1 .. n : v \in Nat /\ V(v) \in 1 .. n /\ V(V(v)) = v
      /\ \A v, w \in 1 .. n : V(v) < V(w) <=> w < v
  <2>1. ASSUME NEW v \in 1 .. n PROVE V(V(v)) = v
    <3>1. V(v) \in 1 .. n /\ V(v) = n + 1 - v
      BY <1>2
    <3>2. V(V(v)) = n + 1 - V(v)
      BY <1>2, <3>1
    <3> QED BY <3>1, <3>2
  <2>2. ASSUME NEW v \in 1 .. n, NEW w \in 1 .. n
        PROVE  V(v) < V(w) <=> w < v
    <3>1. V(v) = n + 1 - v /\ V(w) = n + 1 - w
      BY <1>2
    <3> QED BY <3>1
  <2> QED BY <1>2, <2>1, <2>2
<1>5. /\ \A x \in 1 .. m : x \in Nat /\ N(x) \in 1 .. m
      /\ \A x, y \in 1 .. m : N(x) < N(y) <=> y < x
      /\ \A x, y \in 1 .. m : N(x) = N(y) <=> x = y
  <2>1. ASSUME NEW x \in 1 .. m, NEW y \in 1 .. m
        PROVE  (N(x) < N(y) <=> y < x) /\ (N(x) = N(y) <=> x = y)
    <3>1. N(x) = m + 1 - x /\ N(y) = m + 1 - y
      BY <1>2
    <3> QED BY <3>1
  <2> QED BY <1>2, <2>1
<1> QED BY <1>1, <1>3, <1>4, <1>5

\* A set in the mirror has the same elements, and as many.
LEMMA SetsInMirror ==
  ASSUME CatalogueConstants, NEW S \in SUBSET Venues
  PROVE  /\ MirroredVenues(S) \in SUBSET Venues
         /\ \A v \in Venues : V(v) \in MirroredVenues(S) <=> v \in S
         /\ IsFiniteSet(S) /\ Cardinality(S) \in Nat
         /\ Cardinality(MirroredVenues(S)) = Cardinality(S)
<1>1. MirroredVenues(S) = {V(v) : v \in S}
  BY DEF MirroredVenues, V
<1>2. MirroredVenues(S) \in SUBSET Venues
  BY <1>1, MirrorMeans
<1>3. \A v \in Venues : V(v) \in MirroredVenues(S) <=> v \in S
  BY <1>1, MirrorMeans
<1>4. IsFiniteSet(S) /\ Cardinality(S) \in Nat
  BY MirrorMeans, FS_Subset, FS_CardinalityType
<1>5. Cardinality(MirroredVenues(S)) = Cardinality(S)
  <2> DEFINE f == [v \in S |-> V(v)]
  <2>1. f \in Bijection(S, MirroredVenues(S))
    <3>1. f \in [S -> MirroredVenues(S)]
      BY <1>1
    <3>2. \A v, w \in S : f[v] = f[w] => v = w
      BY MirrorMeans
    <3>3. \A o \in MirroredVenues(S) : \E v \in S : f[v] = o
      BY <1>1
    <3> HIDE DEF f
    <3> QED BY <3>1, <3>2, <3>3 DEF Bijection, Injection, Surjection, IsInjective
  <2> HIDE DEF f
  <2>2. ExistsBijection(S, MirroredVenues(S))
    BY <2>1 DEF ExistsBijection
  <2> QED BY <1>4, <2>2, FS_Bijection
<1> QED BY <1>2, <1>3, <1>4, <1>5

LEMMA IsMirrored ==
  ASSUME CatalogueConstants, NEW S \in SUBSET Venues, NEW T \in SUBSET Venues,
         \A v \in Venues : V(v) \in T <=> v \in S
  PROVE  T = MirroredVenues(S)
<1>1. MirroredVenues(S) = {V(v) : v \in S}
  BY DEF MirroredVenues, V
<1> QED BY <1>1, MirrorMeans

-----------------------------------------------------------------------------
(* The rows. *)

\* The type of every variable.
CatalogueType ==
  /\ venues \in [Venues -> {None} \cup VenueRow]
  /\ browser \in [city : Cities \cup {AnyCity, None},
                  cursor : VenueCursor \cup {None},
                  page : SUBSET Venues, got : SUBSET Venues]
  /\ listed \in SUBSET Venues

Rows == {v \in Venues : venues[v] # None}

LEMMA RowInMirror ==
  ASSUME CatalogueConstants, CatalogueType, NEW v \in Venues
  PROVE  /\ V(v) \in Venues
         /\ v \notin Rows => MirroredOrders[V(v)] = None
         /\ v \in Rows =>
              /\ venues[v] \in VenueRow
              /\ MirroredOrders[V(v)] # None
              /\ MirroredOrders[V(v)].createdAt = N(venues[v].name)
              /\ MirroredOrders[V(v)].status = venues[v].city
<1>1. V(v) \in Venues /\ V(V(v)) = v
  BY MirrorMeans
<1>2. MirroredOrders[V(v)] =
        IF venues[v] = None THEN None
        ELSE [createdAt |-> N(venues[v].name), status |-> venues[v].city]
  BY <1>1 DEF MirroredOrders, V, N
<1>3. ASSUME v \in Rows
      PROVE  /\ venues[v] \in VenueRow
             /\ [createdAt |-> N(venues[v].name), status |-> venues[v].city] # None
  <2>1. venues[v] \in VenueRow
    BY <1>3 DEF CatalogueType, Rows
  <2>2. N(venues[v].name) \in Names /\ venues[v].city \in Cities
    BY <2>1, MirrorMeans DEF VenueRow
  <2>3. [createdAt |-> N(venues[v].name), status |-> venues[v].city]
          \in InMirror!Row
    BY <2>2 DEF InMirror!Row
  <2> QED BY <2>1, <2>3 DEF CatalogueConstants
<1> QED BY <1>1, <1>2, <1>3 DEF Rows

\* The order of the catalogue is the order of the list.
LEMMA OrderInMirror ==
  ASSUME CatalogueConstants,
         NEW x \in Names, NEW v \in Venues, NEW y \in Names, NEW w \in Venues
  PROVE  InMirror!Comes(N(x), V(v), N(y), V(w)) <=> Precedes(x, v, y, w)
BY MirrorMeans DEF InMirror!Comes, Precedes

\* What a query finds.
LEMMA FoundInMirror ==
  ASSUME CatalogueConstants, CatalogueType,
         NEW city, NEW cursor \in VenueCursor \cup {None}
  PROVE  /\ Found(city, cursor) \in SUBSET Rows
         /\ InMirror!Candidates(city, MirroredCursor(cursor))
              = MirroredVenues(Found(city, cursor))
<1>1. Found(city, cursor) \in SUBSET Rows
  BY DEF Found, InCity, Rows
<1>2. InMirror!Candidates(city, MirroredCursor(cursor)) \in SUBSET Venues
  BY DEF InMirror!Candidates
<1>3. ASSUME NEW v \in Rows
      PROVE  InMirror!Beyond(MirroredCursor(cursor), V(v)) <=> After(cursor, v)
  <2>1. CASE cursor = None
    BY <2>1 DEF InMirror!Beyond, After, MirroredCursor
  <2>2. CASE cursor # None
    <3>1. cursor \in VenueCursor
      BY <2>2
    <3>2. cursor.name \in Names /\ cursor.id \in Venues /\ v \in Venues
          /\ cursor.scope \in Cities \cup {AnyCity}
      BY <3>1 DEF VenueCursor, Rows
    <3>3. venues[v].name \in Names
          /\ MirroredOrders[V(v)].createdAt = N(venues[v].name)
      BY <1>3, <3>2, RowInMirror DEF VenueRow
    <3>4. MirroredCursor(cursor) = [scope |-> cursor.scope,
             createdAt |-> N(cursor.name), id |-> V(cursor.id)]
      BY <2>2 DEF MirroredCursor, N, V
    <3>5. MirroredCursor(cursor) # None
      <4>1. N(cursor.name) \in Names /\ V(cursor.id) \in Venues
        BY <3>2, MirrorMeans
      <4>2. MirroredCursor(cursor) \in InMirror!Position
        BY <3>2, <3>4, <4>1 DEF InMirror!Position, InMirror!Lists
      <4> QED BY <4>2 DEF CatalogueConstants
    <3>6. InMirror!Beyond(MirroredCursor(cursor), V(v)) <=>
            InMirror!Comes(N(cursor.name), V(cursor.id),
                           N(venues[v].name), V(v))
      BY <3>3, <3>4, <3>5 DEF InMirror!Beyond
    <3>7. After(cursor, v) <=>
            Precedes(cursor.name, cursor.id, venues[v].name, v)
      BY <2>2 DEF After
    <3> QED BY <3>2, <3>3, <3>6, <3>7, OrderInMirror
  <2> QED BY <2>1, <2>2
<1>4. ASSUME NEW v \in Venues
      PROVE  InMirror!InList(V(v), city) <=> InCity(v, city)
  BY RowInMirror DEF InMirror!InList, InCity, Rows
<1>5. ASSUME NEW v \in Venues
      PROVE  V(v) \in InMirror!Candidates(city, MirroredCursor(cursor))
               <=> v \in Found(city, cursor)
  <2>1. V(v) \in Venues
    BY MirrorMeans
  <2>2. InCity(v, city) => v \in Rows
    BY DEF InCity, Rows
  <2> QED BY <1>3, <1>4, <2>1, <2>2 DEF InMirror!Candidates, Found
<1>6. Found(city, cursor) \in SUBSET Venues
  BY DEF Found
<1> QED BY <1>1, <1>2, <1>5, <1>6, IsMirrored

-----------------------------------------------------------------------------
(* Pages. *)

\* The mirror counts as the catalogue does.
LEMMA CountInMirror == \A S : InMirror!Cardinality(S) = Cardinality(S)
BY DEF InMirror!Cardinality, Cardinality

PrecedesRow(w, v) == Precedes(venues[w].name, w, venues[v].name, v)

LEMMA RowsInMirror ==
  ASSUME CatalogueConstants, CatalogueType, NEW v \in Rows, NEW w \in Rows
  PROVE  InMirror!Comes(MirroredOrders[V(w)].createdAt, V(w),
                        MirroredOrders[V(v)].createdAt, V(v))
           <=> PrecedesRow(w, v)
<1>1. v \in Venues /\ w \in Venues
  BY DEF Rows
<1>2. /\ venues[v].name \in Names /\ venues[w].name \in Names
      /\ MirroredOrders[V(v)].createdAt = N(venues[v].name)
      /\ MirroredOrders[V(w)].createdAt = N(venues[w].name)
  BY <1>1, RowInMirror DEF VenueRow
<1> QED BY <1>1, <1>2, OrderInMirror DEF PrecedesRow

\* A page of the catalogue is a page of the list.
LEMMA PageInMirror ==
  ASSUME CatalogueConstants, CatalogueType, NEW rows \in SUBSET Rows, NEW limit
  PROVE  /\ FirstVenues(rows, limit) \in SUBSET rows
         /\ InMirror!FirstRows(MirroredVenues(rows), limit)
              = MirroredVenues(FirstVenues(rows, limit))
<1>1. rows \in SUBSET Venues /\ FirstVenues(rows, limit) \in SUBSET rows
  BY DEF Rows, FirstVenues
<1>2. /\ MirroredVenues(rows) \in SUBSET Venues
      /\ \A v \in Venues : V(v) \in MirroredVenues(rows) <=> v \in rows
  BY <1>1, SetsInMirror
<1>3. InMirror!FirstRows(MirroredVenues(rows), limit) \in SUBSET Venues
  BY <1>2 DEF InMirror!FirstRows
<1>4. ASSUME NEW v \in rows
      PROVE  Cardinality(InMirror!RowsBefore(MirroredVenues(rows), V(v)))
               = Cardinality({w \in rows : PrecedesRow(w, v)})
  <2> DEFINE S == {w \in rows : PrecedesRow(w, v)}
             T == InMirror!RowsBefore(MirroredVenues(rows), V(v))
  <2>1. S \in SUBSET Venues /\ T \in SUBSET Venues
    BY <1>1, <1>2 DEF InMirror!RowsBefore
  <2>2. ASSUME NEW w \in Venues PROVE V(w) \in T <=> w \in S
    <3>1. V(w) \in T <=>
            /\ w \in rows
            /\ InMirror!Comes(MirroredOrders[V(w)].createdAt, V(w),
                              MirroredOrders[V(v)].createdAt, V(v))
      BY <1>2 DEF InMirror!RowsBefore
    <3> QED BY <3>1, RowsInMirror
  <2> HIDE DEF S, T
  <2>3. T = MirroredVenues(S)
    BY <2>1, <2>2, IsMirrored
  <2>4. Cardinality(T) = Cardinality(S)
    BY <2>1, <2>3, SetsInMirror
  <2> QED BY <2>4 DEF S, T
<1>5. ASSUME NEW v \in Venues
      PROVE  V(v) \in InMirror!FirstRows(MirroredVenues(rows), limit)
               <=> v \in FirstVenues(rows, limit)
  BY <1>2, <1>4, CountInMirror DEF InMirror!FirstRows, FirstVenues, PrecedesRow
<1> QED BY <1>1, <1>3, <1>5, IsMirrored

\* Numbers have a least one.
LEMMA LeastNumber ==
  ASSUME NEW S \in SUBSET Nat, S # {}
  PROVE  \E x \in S : \A y \in S : x <= y
<1> DEFINE R == {ss \in Nat \X Nat : ss[1] < ss[2]}
<1>1. IsWellFoundedOn(R, Nat)
  BY NatLessThanWellFounded DEF OpToRel
<1>2. \A i, j \in Nat : i < j => <<i, j>> \in R
  OBVIOUS
<1> HIDE DEF R
<1>3. PICK x \in S : \A y \in S : ~(<<y, x>> \in R)
  BY <1>1, WFMin
<1>4. \A y \in S : ~(y < x)
  BY <1>2, <1>3
<1>5. \A y \in S : x <= y
  BY <1>4
<1> QED BY <1>5

\* Some row precedes all the others, and some row is preceded by them.
LEMMA FirstAndLastVenue ==
  ASSUME CatalogueConstants, CatalogueType, NEW rows \in SUBSET Rows, rows # {}
  PROVE  /\ \E v \in rows : \A w \in rows : ~PrecedesRow(w, v)
         /\ \E v \in rows : \A w \in rows \ {v} : PrecedesRow(w, v)
<1> DEFINE name(v) == venues[v].name
<1>1. \A v \in rows : name(v) \in Names /\ v \in Venues
  BY RowInMirror DEF Rows, VenueRow
<1>2. \A v \in rows : /\ name(v) \in Nat /\ v \in Nat
                      /\ N(name(v)) \in Nat /\ V(v) \in Nat
  BY <1>1, MirrorMeans
<1>3. \E v \in rows : \A w \in rows : ~PrecedesRow(w, v)
  <2>1. PICK u \in rows : \A w \in rows : name(u) <= name(w)
    <3> DEFINE S == {name(w) : w \in rows}
    <3>1. S \in SUBSET Nat /\ S # {}
      BY <1>2
    <3>2. PICK x \in S : \A y \in S : x <= y
      BY <3>1, LeastNumber
    <3> QED BY <3>2
  <2>2. PICK v \in rows : /\ name(v) = name(u)
                          /\ \A w \in rows : name(w) = name(u) => v <= w
    <3> DEFINE S == {w \in rows : name(w) = name(u)}
    <3>1. S \in SUBSET Nat /\ S # {}
      BY <1>2
    <3> HIDE DEF S
    <3>2. PICK v \in S : \A w \in S : v <= w
      BY <3>1, LeastNumber
    <3> QED BY <3>2 DEF S
  <2>3. ASSUME NEW w \in rows PROVE ~PrecedesRow(w, v)
    BY <1>2, <2>1, <2>2 DEF PrecedesRow, Precedes
  <2> QED BY <2>3
<1>4. \E v \in rows : \A w \in rows \ {v} : PrecedesRow(w, v)
  <2>1. PICK u \in rows : \A w \in rows : N(name(u)) <= N(name(w))
    <3> DEFINE S == {N(name(w)) : w \in rows}
    <3>1. S \in SUBSET Nat /\ S # {}
      BY <1>2
    <3>2. PICK x \in S : \A y \in S : x <= y
      BY <3>1, LeastNumber
    <3> QED BY <3>2
  <2>2. PICK v \in rows : /\ name(v) = name(u)
                          /\ \A w \in rows : name(w) = name(u) => V(v) <= V(w)
    <3> DEFINE S == {V(w) : w \in {x \in rows : name(x) = name(u)}}
    <3>1. S \in SUBSET Nat /\ S # {}
      BY <1>2
    <3>2. PICK o \in S : \A p \in S : o <= p
      BY <3>1, LeastNumber
    <3> QED BY <3>2
  <2>3. ASSUME NEW w \in rows \ {v} PROVE PrecedesRow(w, v)
    <3>1. ~(name(u) < name(w))
      BY <1>1, <1>2, <2>1, MirrorMeans
    <3>2. name(w) = name(u) => ~(v < w)
      BY <1>1, <1>2, <2>2, MirrorMeans
    <3> QED BY <1>2, <2>2, <3>1, <3>2 DEF PrecedesRow, Precedes
  <2> QED BY <2>3
<1> QED BY <1>3, <1>4

LastVenue(page) ==
  CHOOSE v \in page : \A w \in page \ {v} :
    Precedes(venues[w].name, w, venues[v].name, v)

\* The last row of a page is the last row of the list's page.
LEMMA LastInMirror ==
  ASSUME CatalogueConstants, CatalogueType, NEW page \in SUBSET Rows, page # {}
  PROVE  /\ LastVenue(page) \in page
         /\ InMirror!LastRow(MirroredVenues(page)) = V(LastVenue(page))
<1> DEFINE last == LastVenue(page)
           row == InMirror!LastRow(MirroredVenues(page))
<1>1. last \in page /\ \A w \in page \ {last} : PrecedesRow(w, last)
  BY FirstAndLastVenue DEF LastVenue, PrecedesRow
<1>2. page \in SUBSET Venues
  BY DEF Rows
<1>3. /\ MirroredVenues(page) \in SUBSET Venues
      /\ \A v \in Venues : V(v) \in MirroredVenues(page) <=> v \in page
  BY <1>2, SetsInMirror
<1> DEFINE IsLast(o) == \A p \in MirroredVenues(page) \ {o} :
             InMirror!Comes(MirroredOrders[p].createdAt, p,
                            MirroredOrders[o].createdAt, o)
<1>4. row = CHOOSE o \in MirroredVenues(page) : IsLast(o)
  BY DEF InMirror!LastRow
<1> HIDE DEF last, row
<1>5. V(last) \in MirroredVenues(page) /\ IsLast(V(last))
  <2>1. ASSUME NEW p \in MirroredVenues(page) \ {V(last)}
        PROVE  InMirror!Comes(MirroredOrders[p].createdAt, p,
                              MirroredOrders[V(last)].createdAt, V(last))
    <3>1. p \in Venues /\ V(p) \in Venues /\ p = V(V(p))
      BY <1>3, MirrorMeans
    <3>2. V(p) \in page \ {last}
      BY <1>3, <3>1
    <3>3. PrecedesRow(V(p), last)
      BY <1>1, <3>2
    <3> QED BY <1>1, <3>1, <3>2, <3>3, RowsInMirror
  <2> QED BY <1>1, <1>2, <1>3, <2>1
<1>6. ASSUME NEW o \in MirroredVenues(page), IsLast(o) PROVE o = V(last)
  <2>1. o \in Venues /\ V(o) \in Venues /\ o = V(V(o))
    BY <1>3, MirrorMeans
  <2>2. V(o) \in page
    BY <1>3, <2>1
  <2>3. ASSUME o # V(last) PROVE FALSE
    <3>1. V(o) # last
      BY <2>1, <2>3
    <3>2. PrecedesRow(V(o), last)
      BY <1>1, <2>2, <3>1
    <3>3. InMirror!Comes(MirroredOrders[V(last)].createdAt, V(last),
                         MirroredOrders[o].createdAt, o)
      BY <1>5, <1>6, <2>3
    <3>4. PrecedesRow(last, V(o))
      BY <1>1, <2>1, <2>2, <3>3, RowsInMirror
    <3>5. /\ venues[last].name \in Nat /\ venues[V(o)].name \in Nat
          /\ last \in Nat /\ V(o) \in Nat
      BY <1>1, <1>2, <2>2, RowInMirror, MirrorMeans DEF VenueRow
    <3> QED BY <3>2, <3>4, <3>5 DEF PrecedesRow, Precedes
  <2> QED BY <2>3
<1> HIDE DEF IsLast
<1>7. row = V(last)
  BY <1>4, <1>5, <1>6
<1> QED BY <1>1, <1>7 DEF row, last

-----------------------------------------------------------------------------
(* Steps. *)

\* Showing a page is a turn of the list's reader.
LEMMA TurnInMirror ==
  ASSUME CatalogueConstants, CatalogueType,
         NEW city \in Cities \cup {AnyCity},
         NEW cursor \in VenueCursor \cup {None},
         NEW limit \in Limits, NEW before \in SUBSET Venues,
         ShowPage(city, cursor, limit, before), UNCHANGED venues
  PROVE  /\ InMirror!Turn(city, MirroredCursor(cursor), limit,
                          MirroredVenues(before))
         /\ browser' \in [city : Cities \cup {AnyCity, None},
                          cursor : VenueCursor \cup {None},
                          page : SUBSET Venues, got : SUBSET Venues]
<1> DEFINE rows == Found(city, cursor)
           page == FirstVenues(rows, limit)
           last == LastVenue(page)
           more == Cardinality(rows) > limit
           next == IF more THEN [scope |-> city, name |-> venues[last].name,
                                 id |-> last]
                   ELSE None
           rowsSeen == InMirror!Candidates(city, MirroredCursor(cursor))
           pageSeen == InMirror!FirstRows(rowsSeen, limit)
           nextSeen == IF InMirror!HasMore(rowsSeen, limit)
                       THEN InMirror!CursorAfter(city, pageSeen) ELSE None
<1>1. limit \in Nat \ {0}
  BY DEF CatalogueConstants
<1>2. rows \in SUBSET Rows /\ rows \in SUBSET Venues
      /\ rowsSeen = MirroredVenues(rows)
  BY FoundInMirror DEF Rows
<1>3. Cardinality(rows) \in Nat /\ IsFiniteSet(rows)
      /\ Cardinality(rowsSeen) = Cardinality(rows)
  BY <1>2, SetsInMirror
<1>4. browser' = [city |-> city, page |-> page, got |-> before \cup page,
                  cursor |-> next]
  <2>1. last = CHOOSE v \in page : \A w \in page \ {v} :
                 Precedes(venues[w].name, w, venues[v].name, v)
    BY DEF LastVenue
  <2>2. next = IF Cardinality(rows) <= limit THEN None
               ELSE [scope |-> city, name |-> venues[last].name, id |-> last]
    BY <1>1, <1>3
  <2> HIDE DEF last, next
  <2> QED BY <2>1, <2>2 DEF ShowPage
<1> HIDE DEF rows, rowsSeen
<1>5. page \in SUBSET rows /\ pageSeen = MirroredVenues(page)
  BY <1>2, PageInMirror
<1>6. more => page # {}
  <2> SUFFICES ASSUME more PROVE page # {}
    OBVIOUS
  <2>1. rows # {}
    BY <1>1, <1>3, FS_EmptySet
  <2>2. PICK v \in rows : \A w \in rows : ~PrecedesRow(w, v)
    BY <1>2, <2>1, FirstAndLastVenue
  <2>3. {w \in rows : PrecedesRow(w, v)} = {}
    BY <2>2
  <2>4. Cardinality({w \in rows : PrecedesRow(w, v)}) < limit
    BY <1>1, <2>3, FS_EmptySet
  <2>5. v \in page
    BY <2>4 DEF FirstVenues, PrecedesRow
  <2> QED BY <2>5
<1>7. InMirror!HasMore(rowsSeen, limit) <=> more
  BY <1>3, CountInMirror DEF InMirror!HasMore
<1> HIDE DEF page, pageSeen, last
<1>8. more => /\ last \in Rows /\ last \in Venues
              /\ venues[last].name \in Names
              /\ InMirror!LastRow(pageSeen) = V(last)
              /\ MirroredOrders[V(last)].createdAt = N(venues[last].name)
  <2> SUFFICES ASSUME more
               PROVE  /\ last \in Rows /\ last \in Venues
                      /\ venues[last].name \in Names
                      /\ InMirror!LastRow(pageSeen) = V(last)
                      /\ MirroredOrders[V(last)].createdAt = N(venues[last].name)
    OBVIOUS
  <2>1. page # {} /\ page \in SUBSET Rows
    BY <1>2, <1>5, <1>6
  <2>2. last \in page /\ InMirror!LastRow(pageSeen) = V(last)
    BY <1>5, <2>1, LastInMirror DEF last
  <2>3. last \in Rows /\ last \in Venues
    BY <2>1, <2>2 DEF Rows
  <2> QED BY <2>2, <2>3, RowInMirror DEF VenueRow
<1> HIDE DEF more
<1>9. next \in VenueCursor \cup {None}
  BY <1>8 DEF VenueCursor
<1>10. MirroredCursor(next) = nextSeen
  <2>1. CASE ~more
    BY <1>7, <2>1 DEF MirroredCursor
  <2>2. CASE more
    <3> DEFINE position == [scope |-> city, name |-> venues[last].name, id |-> last]
    <3>1. next = position /\ position \in VenueCursor
      BY <1>8, <2>2 DEF VenueCursor
    <3>2. position # None
      BY <3>1 DEF CatalogueConstants
    <3>3. MirroredCursor(position) =
            [scope |-> city, createdAt |-> N(venues[last].name), id |-> V(last)]
      BY <3>2 DEF MirroredCursor, N, V
    <3>4. nextSeen = InMirror!CursorAfter(city, pageSeen)
      BY <1>7, <2>2
    <3>5. InMirror!CursorAfter(city, pageSeen) =
            [scope |-> city, createdAt |-> N(venues[last].name), id |-> V(last)]
      BY <1>8, <2>2 DEF InMirror!CursorAfter
    <3> QED BY <3>1, <3>3, <3>4, <3>5
  <2> QED BY <2>1, <2>2
<1> HIDE DEF next, nextSeen
<1>11. MirroredReader' = [list |-> city, page |-> pageSeen,
                          got |-> MirroredVenues(before) \cup pageSeen,
                          cursor |-> nextSeen]
  <2>1. MirroredVenues(before \cup page) = MirroredVenues(before) \cup pageSeen
    BY <1>5 DEF MirroredVenues
  <2>2. /\ browser'.city = city /\ browser'.page = page
        /\ browser'.got = before \cup page /\ browser'.cursor = next
    BY <1>4
  <2>3. MirroredReader' =
          [list |-> browser'.city, page |-> MirroredVenues(browser'.page),
           got |-> MirroredVenues(browser'.got),
           cursor |-> MirroredCursor(browser'.cursor)]
    BY DEF MirroredReader, MirroredVenues, MirroredCursor
  <2> QED BY <1>5, <1>10, <2>1, <2>2, <2>3
<1>12. InMirror!Turn(city, MirroredCursor(cursor), limit, MirroredVenues(before))
  BY <1>11 DEF InMirror!Turn, rowsSeen, pageSeen, nextSeen
<1>13. browser' \in [city : Cities \cup {AnyCity, None},
                     cursor : VenueCursor \cup {None},
                     page : SUBSET Venues, got : SUBSET Venues]
  BY <1>2, <1>4, <1>5, <1>9
<1> QED BY <1>12, <1>13

\* A venue that is added is an order that is inserted.
LEMMA AddInMirror ==
  ASSUME CatalogueConstants, CatalogueType,
         NEW v \in Venues, NEW name \in Names, NEW city \in Cities,
         AddVenue(v, name, city)
  PROVE  CatalogueType' /\ InMirror!Next
<1>1. /\ venues[v] = None
      /\ venues' = [venues EXCEPT ![v] = [name |-> name, city |-> city]]
      /\ UNCHANGED <<browser, listed>>
  BY DEF AddVenue
<1>2. [name |-> name, city |-> city] \in VenueRow
      /\ [name |-> name, city |-> city] # None
  BY DEF VenueRow, CatalogueConstants
<1>3. CatalogueType'
  BY <1>1, <1>2 DEF CatalogueType
<1>4. V(v) \in Venues /\ N(name) \in Names /\ MirroredOrders[V(v)] = None
  BY <1>1, MirrorMeans, RowInMirror DEF Rows
<1>5. MirroredOrders' = [MirroredOrders EXCEPT ![V(v)] =
                           [createdAt |-> N(name), status |-> city]]
  <2> DEFINE seen(row) == IF row = None THEN None
                          ELSE [createdAt |-> N(row.name), status |-> row.city]
  <2>1. MirroredOrders = [o \in Venues |-> seen(venues[V(o)])]
    BY DEF MirroredOrders, V, N
  <2>2. MirroredOrders' = [o \in Venues |-> seen(venues'[V(o)])]
    BY DEF MirroredOrders, V, N
  <2>3. seen([name |-> name, city |-> city])
          = [createdAt |-> N(name), status |-> city]
    BY <1>2
  <2>4. ASSUME NEW o \in Venues
        PROVE  venues'[V(o)] = IF o = V(v) THEN [name |-> name, city |-> city]
                               ELSE venues[V(o)]
    <3>1. V(o) \in Venues /\ (V(o) = v <=> o = V(v))
      BY MirrorMeans
    <3> QED BY <1>1, <3>1 DEF CatalogueType
  <2> HIDE DEF seen
  <2> QED BY <1>4, <2>1, <2>2, <2>3, <2>4
<1>6. MirroredReader' = MirroredReader
      /\ MirroredVenues(listed)' = MirroredVenues(listed)
  BY <1>1 DEF MirroredReader, MirroredVenues, MirroredCursor
<1>7. InMirror!Insert(V(v), N(name))
  BY <1>4, <1>5, <1>6 DEF InMirror!Insert
<1> QED BY <1>3, <1>4, <1>7 DEF InMirror!Next

\* The first page of a city is the first page of a list.
LEMMA ListInMirror ==
  ASSUME CatalogueConstants, CatalogueType,
         NEW city \in Cities \cup {AnyCity}, NEW limit \in Limits,
         ListVenues(city, limit)
  PROVE  CatalogueType' /\ InMirror!Next
<1>1. /\ ShowPage(city, None, limit, {}) /\ UNCHANGED venues
      /\ listed' = {v \in Venues : InCity(v, city)}
  BY DEF ListVenues
<1>2. MirroredVenues({}) = {} /\ MirroredCursor(None) = None
  BY DEF MirroredVenues, MirroredCursor
<1>3. /\ InMirror!Turn(city, MirroredCursor(None), limit, MirroredVenues({}))
      /\ browser' \in [city : Cities \cup {AnyCity, None},
                       cursor : VenueCursor \cup {None},
                       page : SUBSET Venues, got : SUBSET Venues]
  BY <1>1, TurnInMirror
<1>4. CatalogueType'
  BY <1>1, <1>3 DEF CatalogueType
<1>5. MirroredOrders' = MirroredOrders
  BY <1>1 DEF MirroredOrders
<1>6. MirroredVenues(listed)' = {o \in Venues : InMirror!InList(o, city)}
  <2> DEFINE S == {v \in Venues : InCity(v, city)}
             T == {o \in Venues : InMirror!InList(o, city)}
  <2>1. ASSUME NEW v \in Venues PROVE V(v) \in T <=> v \in S
    <3>1. InMirror!InList(V(v), city) <=> InCity(v, city)
      BY RowInMirror DEF InMirror!InList, InCity, Rows
    <3> QED BY <3>1, MirrorMeans
  <2>2. T = MirroredVenues(S)
    <3>1. S \in SUBSET Venues /\ T \in SUBSET Venues
      OBVIOUS
    <3> HIDE DEF S, T
    <3> QED BY <2>1, <3>1, IsMirrored
  <2>3. MirroredVenues(listed)' = MirroredVenues(listed')
    BY DEF MirroredVenues
  <2> QED BY <1>1, <2>2, <2>3
<1>7. InMirror!FirstPage(city, limit)
  BY <1>2, <1>3, <1>5, <1>6 DEF InMirror!FirstPage
<1> QED BY <1>4, <1>7 DEF InMirror!Next, InMirror!Lists

\* So is every further page.
LEMMA ListMoreInMirror ==
  ASSUME CatalogueConstants, CatalogueType,
         NEW city \in Cities \cup {AnyCity}, NEW limit \in Limits,
         ListMoreVenues(city, limit)
  PROVE  CatalogueType' /\ InMirror!Next
<1>1. /\ browser.cursor # None /\ browser.cursor.scope = city
      /\ ShowPage(city, browser.cursor, limit, browser.got)
      /\ UNCHANGED <<venues, listed>>
  BY DEF ListMoreVenues, Acceptable
<1>2. browser.cursor \in VenueCursor /\ browser.got \in SUBSET Venues
  BY <1>1 DEF CatalogueType
<1>3. PICK cursor, got : cursor = browser.cursor /\ got = browser.got
  OBVIOUS
<1>4. /\ InMirror!Turn(city, MirroredCursor(cursor), limit, MirroredVenues(got))
      /\ browser' \in [city : Cities \cup {AnyCity, None},
                       cursor : VenueCursor \cup {None},
                       page : SUBSET Venues, got : SUBSET Venues]
  BY <1>1, <1>2, <1>3, TurnInMirror
<1>5. CatalogueType'
  BY <1>1, <1>4 DEF CatalogueType
<1>6. MirroredOrders' = MirroredOrders
      /\ MirroredVenues(listed)' = MirroredVenues(listed)
  BY <1>1 DEF MirroredOrders, MirroredVenues
<1>7. /\ MirroredReader.cursor = MirroredCursor(cursor)
      /\ MirroredReader.got = MirroredVenues(got)
  BY <1>3 DEF MirroredReader
<1>8. MirroredCursor(cursor) # None /\ MirroredCursor(cursor).scope = city
  <2>1. cursor.name \in Names /\ cursor.id \in Venues
        /\ cursor.scope \in Cities \cup {AnyCity}
    BY <1>2, <1>3 DEF VenueCursor
  <2>2. MirroredCursor(cursor) = [scope |-> cursor.scope,
           createdAt |-> N(cursor.name), id |-> V(cursor.id)]
    BY <1>1, <1>3 DEF MirroredCursor, N, V
  <2>3. MirroredCursor(cursor) \in InMirror!Position
    BY <2>1, <2>2, MirrorMeans DEF InMirror!Position, InMirror!Lists
  <2> QED BY <1>1, <1>3, <2>2, <2>3 DEF CatalogueConstants
<1>9. InMirror!NextPage(city, limit)
  BY <1>4, <1>6, <1>7, <1>8 DEF InMirror!NextPage, InMirror!Belongs
<1> QED BY <1>5, <1>9 DEF InMirror!Next, InMirror!Lists

-----------------------------------------------------------------------------
(* The theorem. *)

LEMMA InitInMirror ==
  ASSUME CatalogueConstants, CatalogueInit
  PROVE  CatalogueType /\ InMirror!Init
<1>1. CatalogueType
  BY DEF CatalogueInit, NoBrowser, CatalogueType
<1>2. MirroredVenues({}) = {} /\ MirroredCursor(None) = None
  BY DEF MirroredVenues, MirroredCursor
<1>3. MirroredOrders = [o \in Venues |-> None]
  <2>1. \A o \in Venues : venues[Mirror(Venues, o)] = None
    BY MirrorMeans DEF CatalogueInit, V
  <2> QED BY <2>1 DEF MirroredOrders
<1>4. MirroredReader = InMirror!NoReader
  BY <1>2 DEF CatalogueInit, NoBrowser, MirroredReader, InMirror!NoReader
<1> QED BY <1>1, <1>2, <1>3, <1>4 DEF CatalogueInit, InMirror!Init

LEMMA StepInMirror ==
  ASSUME CatalogueConstants, CatalogueType, [CatalogueNext]_catalogueVars
  PROVE  CatalogueType' /\ [InMirror!Next]_(InMirror!vars)
<1>1. CASE UNCHANGED catalogueVars
  BY <1>1 DEF catalogueVars, CatalogueType, InMirror!vars, MirroredOrders,
              MirroredReader, MirroredVenues, MirroredCursor
<1>2. CASE CatalogueNext
  BY <1>2, AddInMirror, ListInMirror, ListMoreInMirror DEF CatalogueNext
<1> QED BY <1>1, <1>2

\* Whoever adds venues while a client pages through a city's catalogue, the
\* client reads a list of orders in a mirror: the theorems about those lists
\* hold of it.
THEOREM CatalogueImplementsLists == CatalogueSpec => CatalogueIsAList
<1>1. CatalogueInit => CatalogueType /\ InMirror!Init
  BY CatalogueAssumption, InitInMirror
<1>2. CatalogueType /\ [CatalogueNext]_catalogueVars
        => CatalogueType' /\ [InMirror!Next]_(InMirror!vars)
  BY CatalogueAssumption, StepInMirror
<1> QED BY <1>1, <1>2, PTL
        DEF CatalogueSpec, CatalogueIsAList, InMirror!Spec

-----------------------------------------------------------------------------
(* What was proved of the lists, said of the catalogue. *)

Mirrored == INSTANCE OrderListsProofs WITH
  Orders <- Venues, Times <- Names, Statuses <- Cities, Everything <- AnyCity,
  orders <- MirroredOrders, reader <- MirroredReader,
  stayed <- MirroredVenues(listed)

\* The constants are what the lists assume of theirs.
LEMMA ConstantsInMirror ==
  ASSUME CatalogueConstants
  PROVE  /\ Venues \subseteq Nat /\ Mirrored!IsFiniteSet(Venues)
         /\ Names \subseteq Nat /\ Limits \subseteq Nat \ {0}
         /\ None \notin Mirrored!Row /\ None \notin Mirrored!Position
         /\ None \notin Mirrored!Lists
<1>1. Mirrored!IsFiniteSet(Venues) = IsFiniteSet(Venues)
  BY DEF Mirrored!IsFiniteSet, IsFiniteSet
<1>2. Mirrored!Row = InMirror!Row
  BY DEF Mirrored!Row, InMirror!Row
<1>3. Mirrored!Position = InMirror!Position
  BY DEF Mirrored!Position, InMirror!Position, InMirror!Lists, Mirrored!Lists
<1> QED BY MirrorMeans, <1>1, <1>2, <1>3
        DEF CatalogueConstants, Mirrored!Lists

\* The two instances of the lists are one specification.
LEMMA OneMirror ==
  /\ InMirror!Init => Mirrored!Init
  /\ [InMirror!Next]_(InMirror!vars) => [Mirrored!Next]_(Mirrored!vars)
<1>1. InMirror!Init => Mirrored!Init
  BY DEF InMirror!Init, Mirrored!Init, InMirror!NoReader, Mirrored!NoReader
<1>2. InMirror!Next => Mirrored!Next
  BY DEF InMirror!Next, InMirror!Insert, InMirror!ChangeStatus,
         InMirror!FirstPage, InMirror!NextPage, InMirror!Turn, InMirror!Lists,
         InMirror!Candidates, InMirror!InList, InMirror!Beyond,
         InMirror!FirstRows, InMirror!RowsBefore, InMirror!Comes,
         InMirror!HasMore, InMirror!CursorAfter, InMirror!LastRow,
         InMirror!Belongs, InMirror!Cardinality,
         Mirrored!Next, Mirrored!Insert, Mirrored!ChangeStatus,
         Mirrored!FirstPage, Mirrored!NextPage, Mirrored!Turn, Mirrored!Lists,
         Mirrored!Candidates, Mirrored!InList, Mirrored!Beyond,
         Mirrored!FirstRows, Mirrored!RowsBefore, Mirrored!Comes,
         Mirrored!HasMore, Mirrored!CursorAfter, Mirrored!LastRow,
         Mirrored!Belongs, Mirrored!Cardinality
<1>3. InMirror!vars = Mirrored!vars
  BY DEF InMirror!vars, Mirrored!vars
<1>4. UNCHANGED InMirror!vars => UNCHANGED Mirrored!vars
  BY DEF InMirror!vars, Mirrored!vars
<1> QED BY <1>1, <1>2, <1>4

CatalogueInv == CatalogueType /\ Mirrored!IInv

\* The invariant of the lists, in the mirror, holds whoever adds venues.
THEOREM CatalogueInductive == CatalogueSpec => []CatalogueInv
<1>1. CatalogueInit => CatalogueInv
  BY CatalogueAssumption, InitInMirror, OneMirror, ConstantsInMirror,
     Mirrored!InitIInv DEF CatalogueInv
<1>2. CatalogueInv /\ [CatalogueNext]_catalogueVars => CatalogueInv'
  <2> SUFFICES ASSUME CatalogueInv, [CatalogueNext]_catalogueVars
               PROVE  CatalogueInv'
    OBVIOUS
  <2>1. CatalogueConstants /\ CatalogueType /\ Mirrored!IInv
    BY CatalogueAssumption DEF CatalogueInv
  <2>2. CatalogueType' /\ [InMirror!Next]_(InMirror!vars)
    BY <2>1, StepInMirror
  <2>3. [Mirrored!Next]_(Mirrored!vars)
    BY <2>2, OneMirror
  <2>4. Mirrored!IInv'
    BY <2>1, <2>3, ConstantsInMirror, Mirrored!StepKeepsIInv
  <2> QED BY <2>2, <2>4 DEF CatalogueInv
<1> QED BY <1>1, <1>2, PTL DEF CatalogueSpec

\* A client who has read a city's venues to the end was given all that were in
\* it from the start: venues that are added before or between the pages it has
\* read do not move the others.
THEOREM CatalogueIsComplete == CatalogueSpec => []NoVenueIsMissed
<1>1. ASSUME CatalogueInv, browser.cursor = None, NEW v \in listed
      PROVE  v \in browser.got
  <2>1. CatalogueConstants /\ listed \in SUBSET Venues
        /\ browser.got \in SUBSET Venues
    BY <1>1, CatalogueAssumption DEF CatalogueInv, CatalogueType
  <2>2. V(v) \in MirroredVenues(listed)
    BY <1>1, <2>1, SetsInMirror
  <2>3. MirroredReader.cursor = None
        /\ MirroredReader.got = MirroredVenues(browser.got)
    BY <1>1 DEF MirroredReader, MirroredCursor
  <2>4. V(v) \in MirroredVenues(browser.got)
    BY <1>1, <2>2, <2>3 DEF CatalogueInv, Mirrored!IInv, Mirrored!BehindIsGiven
  <2> QED BY <1>1, <2>1, <2>4, SetsInMirror
<1>2. CatalogueInv => NoVenueIsMissed
  BY <1>1 DEF NoVenueIsMissed
<1> QED BY <1>2, CatalogueInductive, PTL

\* A page after the first has none of the venues that were given before, and
\* all of its venues are of the city that the reading began with.
THEOREM VenuesComeOnce == CatalogueSpec => NoVenueTwice
<1>1. ASSUME CatalogueInv,
             NEW city \in Cities \cup {AnyCity}, NEW limit \in Limits,
             ListMoreVenues(city, limit)
      PROVE  /\ browser'.page \cap browser.got = {}
             /\ \A v \in browser'.page : InCity(v, browser.city)
  <2> DEFINE cursor == browser.cursor
  <2>1. /\ CatalogueConstants /\ CatalogueType
        /\ browser.got \in SUBSET Venues
        /\ cursor \in VenueCursor /\ cursor # None /\ cursor.scope = city
        /\ browser'.page \subseteq Found(city, cursor)
    BY <1>1, CatalogueAssumption
       DEF CatalogueInv, CatalogueType, ListMoreVenues, Acceptable, ShowPage,
           FirstVenues
  <2>2. /\ MirroredReader.got = MirroredVenues(browser.got)
        /\ MirroredReader.list = browser.city
        /\ MirroredReader.cursor = MirroredCursor(cursor)
    BY DEF MirroredReader
  <2>3. MirroredCursor(cursor) # None /\ MirroredCursor(cursor).scope = city
    <3>1. MirroredCursor(cursor)
            = [scope |-> city, createdAt |-> N(cursor.name), id |-> V(cursor.id)]
      BY <2>1 DEF MirroredCursor, N, V
    <3>2. MirroredCursor(cursor) \in InMirror!Position
      BY <2>1, <3>1, MirrorMeans
         DEF VenueCursor, InMirror!Position, InMirror!Lists
    <3> QED BY <2>1, <3>1, <3>2 DEF CatalogueConstants
  <2>4. browser.city = city
    BY <1>1, <2>2, <2>3
       DEF CatalogueInv, Mirrored!IInv, Mirrored!CursorBelongs, Mirrored!Belongs
  <2>5. ASSUME NEW v \in Found(city, cursor), v \in browser.got PROVE FALSE
    <3>1. Found(city, cursor) \in SUBSET Venues
      BY DEF Found
    <3>2. V(v) \in MirroredVenues(browser.got)
          /\ V(v) \in MirroredVenues(Found(city, cursor))
      BY <2>1, <2>5, <3>1, SetsInMirror
    <3>3. InMirror!Beyond(MirroredCursor(cursor), V(v))
      BY <2>1, <3>2, FoundInMirror DEF InMirror!Candidates
    <3>4. Mirrored!Beyond(MirroredCursor(cursor), V(v))
      BY <3>3
         DEF InMirror!Beyond, InMirror!Comes, Mirrored!Beyond, Mirrored!Comes
    <3> QED BY <1>1, <2>2, <2>3, <3>2, <3>4
            DEF CatalogueInv, Mirrored!IInv, Mirrored!GivenIsBehind
  <2>6. \A v \in Found(city, cursor) : InCity(v, city)
    BY DEF Found
  <2> QED BY <2>1, <2>4, <2>5, <2>6
<1>2. CatalogueInv => \A city \in Cities \cup {AnyCity}, limit \in Limits :
        ListMoreVenues(city, limit) =>
          /\ browser'.page \cap browser.got = {}
          /\ \A v \in browser'.page : InCity(v, browser.city)
  BY <1>1
<1> QED BY <1>2, CatalogueInductive, PTL DEF NoVenueTwice
=============================================================================
