-------------------------- MODULE OrderListsProofs --------------------------
(***************************************************************************)
(* The lists of orders, for any number of orders, times, statuses and page   *)
(* sizes: pages are as large as was asked for, nothing that stays in a list  *)
(* is skipped, nothing is given twice, and a cursor leads to more.           *)
(***************************************************************************)
EXTENDS OrderLists, FiniteSetTheorems, WellFoundedInduction, TLAPS

\* The order of two rows in every list.
Before(p, o) == Comes(orders[p].createdAt, p, orders[o].createdAt, o)

\* The rows of the table.
Present == {o \in Orders : orders[o] # None}

-----------------------------------------------------------------------------
(* Rows in their order. *)

\* Creation time and identifier order the rows of the table.
LEMMA RowsAreOrdered ==
  ASSUME Typed
  PROVE  /\ \A o \in Present : orders[o].createdAt \in Nat /\ o \in Nat
         /\ \A o \in Present : ~Before(o, o)
         /\ \A o, p, q \in Present : Before(o, p) /\ Before(p, q) => Before(o, q)
         /\ \A o, p \in Present : o = p \/ Before(o, p) \/ Before(p, o)
<1>1. \A o \in Present : orders[o].createdAt \in Nat /\ o \in Nat
  BY OrdersAreOrdered, TimesAreOrdered DEF Typed, Present, Row
<1> QED BY <1>1 DEF Before, Comes

\* A finite set has an element without a smaller one.
LEMMA MinimalElement ==
  ASSUME NEW S, IsFiniteSet(S), S # {}, NEW R,
         \A x \in S : <<x, x>> \notin R,
         \A x, y, z \in S : <<x, y>> \in R /\ <<y, z>> \in R => <<x, z>> \in R
  PROVE  \E x \in S : \A y \in S : <<y, x>> \notin R
<1> DEFINE Below(x) == {y \in S : <<y, x>> \in R}
           T == {Below(x) : x \in S}
<1>1. IsWellFoundedOn(StrictSubsetOrdering(S), SUBSET S)
  BY FS_StrictSubsetOrderingWellFounded, FS_FiniteSubsetsOfFinite
<1>2. T \subseteq SUBSET S /\ T # {}
  <2>1. PICK x : x \in S
    OBVIOUS
  <2>2. Below(x) \in T
    BY <2>1
  <2>3. T \subseteq SUBSET S
    <3>1. \A y \in S : Below(y) \subseteq S
      OBVIOUS
    <3> HIDE DEF Below
    <3> QED BY <3>1
  <2> QED BY <2>2, <2>3
<1>3. PICK B \in T : \A C \in T : <<C, B>> \notin StrictSubsetOrdering(S)
  <2> HIDE DEF T
  <2> QED BY <1>1, <1>2, WFMin
<1>4. PICK x \in S : B = Below(x)
  OBVIOUS
<1>5. ASSUME NEW y \in S, <<y, x>> \in R PROVE FALSE
  <2>1. Below(y) \subseteq Below(x) /\ Below(y) # Below(x)
    BY <1>5
  <2>2. <<Below(y), Below(x)>> \in StrictSubsetOrdering(S)
    BY <2>1 DEF StrictSubsetOrdering
  <2> QED BY <1>3, <1>4, <2>2
<1> QED BY <1>5

\* Rows have a first one, and LastRow is one of them after all others.
LEMMA FirstAndLastRow ==
  ASSUME Typed, NEW rows \in SUBSET Present, rows # {}
  PROVE  /\ \E o \in rows : \A p \in rows : ~Before(p, o)
         /\ LastRow(rows) \in rows
         /\ \A p \in rows \ {LastRow(rows)} : Before(p, LastRow(rows))
<1>1. IsFiniteSet(rows)
  BY OrdersAreOrdered, FS_Subset DEF Present
<1>2. \E o \in rows : \A p \in rows : ~Before(p, o)
  <2> DEFINE R == {pair \in rows \X rows : Before(pair[1], pair[2])}
  <2>1. \A p, o \in rows : <<p, o>> \in R <=> Before(p, o)
    OBVIOUS
  <2> HIDE DEF R
  <2>2. \A o \in rows : <<o, o>> \notin R
    BY <2>1, RowsAreOrdered
  <2>3. \A o, p, q \in rows :
          <<o, p>> \in R /\ <<p, q>> \in R => <<o, q>> \in R
    BY <2>1, RowsAreOrdered
  <2>4. \E o \in rows : \A p \in rows : <<p, o>> \notin R
    BY <1>1, <2>2, <2>3, MinimalElement
  <2> QED BY <2>1, <2>4
<1>3. \E o \in rows : \A p \in rows : ~Before(o, p)
  <2> DEFINE R == {pair \in rows \X rows : Before(pair[2], pair[1])}
  <2>1. \A p, o \in rows : <<p, o>> \in R <=> Before(o, p)
    OBVIOUS
  <2> HIDE DEF R
  <2>2. \A o \in rows : <<o, o>> \notin R
    BY <2>1, RowsAreOrdered
  <2>3. \A o, p, q \in rows :
          <<o, p>> \in R /\ <<p, q>> \in R => <<o, q>> \in R
    BY <2>1, RowsAreOrdered
  <2>4. \E o \in rows : \A p \in rows : <<p, o>> \notin R
    BY <1>1, <2>2, <2>3, MinimalElement
  <2> QED BY <2>1, <2>4
<1>4. \E o \in rows : \A p \in rows \ {o} : Before(p, o)
  BY <1>3, RowsAreOrdered
<1> QED BY <1>2, <1>4 DEF LastRow, Before
-----------------------------------------------------------------------------
(* Pages. *)

\* Of the rows of a query, a page is an initial part: as large as was asked for
\* at most, all of them if there are no more, and closed towards the first row.
LEMMA PageOfRows ==
  ASSUME Typed, NEW rows \in SUBSET Present, NEW limit \in Limits
  PROVE  LET page == FirstRows(rows, limit)
         IN /\ IsFiniteSet(rows) /\ page \subseteq rows
            /\ Cardinality(page) <= limit
            /\ ~HasMore(rows, limit) => page = rows
            /\ HasMore(rows, limit) => page # {} /\ rows \ page # {}
            /\ \A o \in page, p \in rows : Before(p, o) => p \in page
<1> DEFINE page == FirstRows(rows, limit)
           Rank(o) == Cardinality(RowsBefore(rows, o))
<1>1. IsFiniteSet(rows) /\ Cardinality(rows) \in Nat
  BY OrdersAreOrdered, FS_Subset, FS_CardinalityType DEF Present
<1>2. limit \in Nat /\ limit > 0
  BY LimitsArePositive
<1>3. page \subseteq rows /\ IsFiniteSet(page) /\ Cardinality(page) \in Nat
  <2>1. page \subseteq rows
    BY DEF FirstRows
  <2> QED BY <1>1, <2>1, FS_Subset, FS_CardinalityType
<1>4. \A o \in rows : /\ RowsBefore(rows, o) \subseteq rows \ {o}
                      /\ IsFiniteSet(RowsBefore(rows, o))
                      /\ Rank(o) \in Nat /\ Rank(o) < Cardinality(rows)
  <2> SUFFICES ASSUME NEW o \in rows
               PROVE  /\ RowsBefore(rows, o) \subseteq rows \ {o}
                      /\ IsFiniteSet(RowsBefore(rows, o))
                      /\ Rank(o) \in Nat /\ Rank(o) < Cardinality(rows)
    OBVIOUS
  <2>1. RowsBefore(rows, o) \subseteq rows \ {o}
    BY RowsAreOrdered DEF RowsBefore, Before
  <2>2. IsFiniteSet(rows \ {o}) /\ Cardinality(rows \ {o}) = Cardinality(rows) - 1
    BY <1>1, FS_RemoveElement
  <2>3. /\ IsFiniteSet(RowsBefore(rows, o))
        /\ Rank(o) <= Cardinality(rows \ {o})
    BY <2>1, <2>2, FS_Subset
  <2>4. Rank(o) \in Nat
    BY <2>3, FS_CardinalityType
  <2> QED BY <1>1, <2>1, <2>2, <2>3, <2>4
<1>5. \A o, p \in rows : Before(p, o) => Rank(p) < Rank(o)
  <2> SUFFICES ASSUME NEW o \in rows, NEW p \in rows, Before(p, o)
               PROVE  Rank(p) < Rank(o)
    OBVIOUS
  <2>1. RowsBefore(rows, p) \subseteq RowsBefore(rows, o)
    <3> SUFFICES ASSUME NEW q \in rows, Before(q, p) PROVE Before(q, o)
      BY DEF RowsBefore, Before
    <3> QED BY RowsAreOrdered
  <2>2. p \in RowsBefore(rows, o) /\ p \notin RowsBefore(rows, p)
    BY RowsAreOrdered DEF RowsBefore, Before
  <2>3. /\ Rank(p) <= Rank(o)
        /\ Rank(o) = Rank(p) => RowsBefore(rows, o) = RowsBefore(rows, p)
    BY <1>4, <2>1, FS_Subset
  <2> QED BY <1>4, <2>2, <2>3
<1>6. Cardinality(page) <= limit
  <2> DEFINE rank == [o \in page |-> Rank(o)]
  <2>1. rank \in Injection(page, 0 .. limit - 1)
    <3>1. \A o \in page : Rank(o) \in 0 .. limit - 1
      <4> SUFFICES ASSUME NEW o \in page PROVE Rank(o) \in 0 .. limit - 1
        OBVIOUS
      <4>1. Rank(o) < limit
        BY DEF FirstRows
      <4>2. Rank(o) \in Nat
        BY <1>3, <1>4
      <4> HIDE DEF Rank
      <4> QED BY <1>2, <4>1, <4>2
    <3>2. \A o, p \in page : Rank(o) = Rank(p) => o = p
      <4> SUFFICES ASSUME NEW o \in page, NEW p \in page, o # p
                   PROVE  Rank(o) # Rank(p)
        OBVIOUS
      <4>1. Before(o, p) \/ Before(p, o)
        BY <1>3, RowsAreOrdered
      <4>2. Rank(o) < Rank(p) \/ Rank(p) < Rank(o)
        BY <1>3, <1>5, <4>1
      <4>3. Rank(o) \in Nat /\ Rank(p) \in Nat
        BY <1>3, <1>4
      <4> HIDE DEF Rank
      <4> QED BY <4>2, <4>3
    <3>3. /\ rank \in [page -> 0 .. limit - 1]
          /\ \A o, p \in page : rank[o] = rank[p] => o = p
      <4> HIDE DEF Rank, page
      <4> QED BY <3>1, <3>2
    <3> HIDE DEF rank, page
    <3> QED BY <3>3 DEF Injection, IsInjective
  <2>2. IsFiniteSet(0 .. limit - 1) /\ Cardinality(0 .. limit - 1) = limit
    BY <1>2, FS_Interval
  <2> HIDE DEF rank
  <2> QED BY <2>1, <2>2, FS_Injection
<1>7. ~HasMore(rows, limit) => page = rows
  <2> SUFFICES ASSUME ~HasMore(rows, limit), NEW o \in rows PROVE o \in page
    BY <1>3
  <2>1. Cardinality(rows) <= limit
    BY <1>1, <1>2 DEF HasMore
  <2>2. Rank(o) < limit
    <3>1. Rank(o) \in Nat /\ Rank(o) < Cardinality(rows)
      BY <1>4
    <3> HIDE DEF Rank
    <3> QED BY <1>1, <1>2, <2>1, <3>1
  <2> QED BY <2>2 DEF FirstRows
<1>8. ASSUME HasMore(rows, limit) PROVE page # {} /\ rows \ page # {}
  <2>1. limit < Cardinality(rows)
    BY <1>1, <1>2, <1>8 DEF HasMore
  <2>2. rows # page
    BY <1>1, <1>2, <1>3, <1>6, <2>1
  <2>3. rows # {}
    BY <1>2, <2>1, FS_EmptySet
  <2>4. PICK o \in rows : \A p \in rows : ~Before(p, o)
    BY <2>3, FirstAndLastRow
  <2>5. RowsBefore(rows, o) = {}
    BY <2>4 DEF RowsBefore, Before
  <2>6. o \in page
    BY <1>2, <2>5, FS_EmptySet DEF FirstRows
  <2> QED BY <1>3, <2>2, <2>6
<1>9. ASSUME NEW o \in page, NEW p \in rows, Before(p, o) PROVE p \in page
  <2>1. Rank(o) < limit
    BY DEF FirstRows
  <2>2. Rank(p) < limit
    <3>1. Rank(p) < Rank(o) /\ Rank(p) \in Nat /\ Rank(o) \in Nat
      BY <1>3, <1>4, <1>5, <1>9
    <3> HIDE DEF Rank
    <3> QED BY <1>2, <2>1, <3>1
  <2> QED BY <2>2 DEF FirstRows
<1> QED BY <1>1, <1>3, <1>6, <1>7, <1>8, <1>9
-----------------------------------------------------------------------------
(* The inductive invariant. *)

\* What stayed is in the list.
StayedIsListed == \A o \in stayed : InList(o, reader.list)

\* What was given is not after the cursor.
GivenIsBehind ==
  \A o \in reader.got :
    orders[o] # None /\ (reader.cursor # None => ~Beyond(reader.cursor, o))

\* What stayed and is not after the cursor was given.
BehindIsGiven ==
  \A o \in stayed :
    reader.cursor = None \/ ~Beyond(reader.cursor, o) => o \in reader.got

CursorBelongs ==
  reader.cursor # None => Belongs(reader.cursor, reader.list)

PageFits ==
  reader.page # {} => \E limit \in Limits : Cardinality(reader.page) <= limit

IInv ==
  /\ Typed /\ PageFits /\ CursorBelongs
  /\ StayedIsListed /\ GivenIsBehind /\ BehindIsGiven

\* An empty table that nobody has read satisfies the invariant.
LEMMA InitIInv == Init => IInv
BY DEF Init, IInv, Typed, PageFits, CursorBelongs, StayedIsListed, GivenIsBehind,
       BehindIsGiven, NoReader

\* The rows of the table that a query finds.
LEMMA CandidatesArePresent ==
  ASSUME NEW list, NEW cursor
  PROVE  Candidates(list, cursor) \in SUBSET Present
BY DEF Candidates, InList, Present

\* If there are more rows than the page holds, the cursor after it is between
\* the page and the other rows.
LEMMA CursorOfTurn ==
  ASSUME Typed, NEW list \in Lists, NEW limit \in Limits,
         NEW cursor \in Position \cup {None}, NEW before \in SUBSET Orders,
         Turn(list, cursor, limit, before),
         HasMore(Candidates(list, cursor), limit)
  PROVE  LET rows == Candidates(list, cursor)
             page == FirstRows(rows, limit)
         IN /\ reader'.cursor \in Position /\ reader'.cursor # None
            /\ Belongs(reader'.cursor, list)
            /\ LastRow(page) \in page
            /\ \A o \in Present : Beyond(reader'.cursor, o)
                                 <=> Before(LastRow(page), o)
            /\ \A o \in rows : o \in page <=> ~Before(LastRow(page), o)
<1> DEFINE rows == Candidates(list, cursor)
           page == FirstRows(rows, limit)
           last == LastRow(page)
<1>1. HasMore(rows, limit) /\ reader'.cursor = CursorAfter(list, page)
  BY DEF Turn
<1>2. rows \in SUBSET Present
  BY CandidatesArePresent
<1>3. /\ page \subseteq rows /\ page # {}
      /\ \A o \in page, p \in rows : Before(p, o) => p \in page
  BY <1>1, <1>2, PageOfRows
<1>4. last \in page /\ \A p \in page \ {last} : Before(p, last)
  BY <1>2, <1>3, FirstAndLastRow
<1>5. last \in Present
  BY <1>2, <1>3, <1>4
<1> HIDE DEF rows, page
<1>6. reader'.cursor = [scope |-> list, createdAt |-> orders[last].createdAt,
                        id |-> last]
  BY <1>1 DEF CursorAfter
<1> HIDE DEF last
<1>7. reader'.cursor \in Position /\ reader'.cursor # None
  <2>1. last \in Orders /\ orders[last].createdAt \in Times
    BY <1>5 DEF Present, Typed, Row
  <2>2. reader'.cursor \in Position
    BY <1>6, <2>1 DEF Position
  <2> QED BY <2>2, NoneIsAbsent
<1>8. \A o \in Present : Beyond(reader'.cursor, o) <=> Before(last, o)
  BY <1>6, <1>7 DEF Beyond, Before
<1>9. \A o \in rows : o \in page <=> ~Before(last, o)
  <2> SUFFICES ASSUME NEW o \in rows PROVE o \in page <=> ~Before(last, o)
    OBVIOUS
  <2>1. CASE o = last
    BY <1>4, <1>5, <2>1, RowsAreOrdered
  <2>2. CASE o # last
    <3>1. Before(o, last) \/ Before(last, o)
      BY <1>2, <1>5, <2>2, RowsAreOrdered
    <3>2. ~(Before(o, last) /\ Before(last, o))
      BY <1>2, <1>5, RowsAreOrdered
    <3> QED BY <1>3, <1>4, <2>2, <3>1, <3>2
  <2> QED BY <2>1, <2>2
<1>10. Belongs(reader'.cursor, list)
  BY <1>6 DEF Belongs
<1> QED BY <1>4, <1>7, <1>8, <1>9, <1>10 DEF rows, page, last

\* A turn keeps the invariant, whether it starts the reading or goes on with it.
LEMMA TurnKeepsIInv ==
  ASSUME Typed, NEW list \in Lists, NEW limit \in Limits,
         NEW cursor \in Position \cup {None}, NEW before \in SUBSET Orders,
         Turn(list, cursor, limit, before), orders' = orders,
         stayed' \subseteq Orders,
         \A o \in stayed' : InList(o, list),
         \A o \in before : o \in Present /\ ~Beyond(cursor, o),
         \A o \in stayed' : ~Beyond(cursor, o) => o \in before
  PROVE  IInv'
<1> DEFINE rows == Candidates(list, cursor)
           page == FirstRows(rows, limit)
           last == LastRow(page)
<1>1. rows \in SUBSET Present /\ Present \subseteq Orders
  BY CandidatesArePresent DEF Present
<1>2. /\ page \subseteq rows /\ Cardinality(page) <= limit
      /\ ~HasMore(rows, limit) => page = rows
  BY <1>1, PageOfRows
<1>3. /\ reader' = [list |-> list, page |-> page, got |-> before \cup page,
                    cursor |-> IF HasMore(rows, limit)
                               THEN CursorAfter(list, page) ELSE None]
  BY DEF Turn
<1>4. /\ reader'.list = list /\ reader'.page = page
      /\ reader'.got = before \cup page
  BY <1>3
<1>5. /\ \A o \in stayed' : Beyond(cursor, o) => o \in rows
      /\ \A o \in page : o \in Present /\ Beyond(cursor, o)
  BY <1>1, <1>2 DEF Candidates
<1> HIDE DEF rows, page, last
<1>6. StayedIsListed'
  BY <1>4 DEF StayedIsListed, InList
<1>7. PageFits'
  BY <1>2, <1>4 DEF PageFits
<1>8. \A o : Beyond(reader.cursor, o)' <=> Beyond(reader'.cursor, o)
  BY DEF Beyond
<1>9. CASE HasMore(rows, limit)
  <2>1. /\ reader'.cursor \in Position /\ reader'.cursor # None
        /\ Belongs(reader'.cursor, list)
        /\ last \in page
        /\ \A o \in Present : Beyond(reader'.cursor, o) <=> Before(last, o)
        /\ \A o \in rows : o \in page <=> ~Before(last, o)
    BY <1>9, CursorOfTurn DEF rows, page, last
  <2>2. reader' \in [list : Lists \cup {None}, cursor : Position \cup {None},
                    page : SUBSET Orders, got : SUBSET Orders]
    BY <1>1, <1>2, <1>3, <1>9, <2>1
  <2>3. Typed' /\ CursorBelongs'
    BY <1>4, <2>1, <2>2 DEF Typed, CursorBelongs, Belongs
  <2>4. \A o \in before : ~Beyond(reader'.cursor, o)
    \* The last row is after the cursor of before, and what is after the last
    \* row is after that cursor as well.
    <3> SUFFICES ASSUME NEW o \in before, Beyond(reader'.cursor, o)
                 PROVE  Beyond(cursor, o)
      OBVIOUS
    <3>1. o \in Present /\ Before(last, o) /\ last \in Present
      BY <1>5, <2>1
    <3>2. Beyond(cursor, last)
      BY <1>5, <2>1
    <3>3. CASE cursor = None
      BY <3>3 DEF Beyond
    <3>4. CASE cursor # None
      <4>1. cursor.createdAt \in Nat /\ cursor.id \in Nat
        BY <3>4, TimesAreOrdered, OrdersAreOrdered DEF Position
      <4>2. /\ orders[o].createdAt \in Nat /\ o \in Nat
            /\ orders[last].createdAt \in Nat /\ last \in Nat
        BY <3>1, RowsAreOrdered
      <4> QED BY <3>1, <3>2, <3>4, <4>1, <4>2 DEF Beyond, Before, Comes
    <3> QED BY <3>3, <3>4
  <2>5. \A o \in page : ~Beyond(reader'.cursor, o)
    BY <1>2, <1>5, <2>1
  <2>6. GivenIsBehind'
    BY <1>4, <1>5, <1>8, <2>4, <2>5 DEF GivenIsBehind, Present
  <2>7. ASSUME NEW o \in stayed', ~Beyond(reader'.cursor, o)
        PROVE  o \in reader'.got
    <3>1. o \in Present
      BY DEF InList, Present
    <3> QED BY <1>4, <1>5, <2>1, <2>7, <3>1
  <2>8. BehindIsGiven'
    BY <1>8, <2>1, <2>7 DEF BehindIsGiven
  <2> QED BY <1>6, <1>7, <2>3, <2>6, <2>8 DEF IInv
<1>10. CASE ~HasMore(rows, limit)
  <2>1. reader'.cursor = None /\ page = rows
    BY <1>2, <1>3, <1>10
  <2>2. reader' \in [list : Lists \cup {None}, cursor : Position \cup {None},
                    page : SUBSET Orders, got : SUBSET Orders]
    BY <1>1, <1>2, <1>3, <1>10
  <2>3. Typed' /\ CursorBelongs'
    BY <2>1, <2>2 DEF Typed, CursorBelongs
  <2>4. GivenIsBehind'
    BY <1>4, <1>5, <2>1 DEF GivenIsBehind, Present
  <2>5. BehindIsGiven'
    BY <1>4, <1>5, <2>1 DEF BehindIsGiven
  <2> QED BY <1>6, <1>7, <2>3, <2>4, <2>5 DEF IInv
<1> QED BY <1>9, <1>10

\* The rest of the reading, if there is one, goes on after the cursor.
LEMMA NextPageIsTurn ==
  ASSUME IInv, NEW list \in Lists, NEW limit \in Limits, NextPage(list, limit)
  PROVE  /\ Typed /\ reader.cursor \in Position \cup {None}
         /\ reader.got \in SUBSET Orders
         /\ Turn(list, reader.cursor, limit, reader.got)
         /\ orders' = orders /\ stayed' = stayed /\ reader.list = list
         /\ \A o \in reader.got : o \in Present /\ ~Beyond(reader.cursor, o)
BY DEF IInv, NextPage, Typed, CursorBelongs, Belongs, GivenIsBehind, Present

\* Every step keeps the invariant.
LEMMA StepKeepsIInv ==
  ASSUME IInv, [Next]_vars
  PROVE  IInv'
<1>1. ASSUME NEW o \in Orders, NEW at \in Times, Insert(o, at) PROVE IInv'
  <2>1. /\ orders[o] = None /\ reader' = reader /\ stayed' = stayed
        /\ orders' \in [Orders -> {None} \cup Row]
        /\ \A p \in Orders \ {o} : orders'[p] = orders[p]
    BY <1>1 DEF Insert, IInv, Typed, Row
  <2>2. o \notin stayed /\ o \notin reader.got
    BY <2>1 DEF IInv, StayedIsListed, GivenIsBehind, InList
  <2>3. \A p \in stayed \cup reader.got : p \in Orders \ {o}
    BY <2>2 DEF IInv, Typed
  <2>4. Typed' /\ PageFits' /\ CursorBelongs'
    BY <2>1 DEF IInv, Typed, PageFits, CursorBelongs, Belongs
  <2>5. StayedIsListed'
    BY <2>1, <2>3 DEF IInv, StayedIsListed, InList
  <2>6. GivenIsBehind' /\ BehindIsGiven'
    BY <2>1, <2>3 DEF IInv, GivenIsBehind, BehindIsGiven, Beyond
  <2> QED BY <2>4, <2>5, <2>6 DEF IInv
<1>2. ASSUME NEW o \in Orders, NEW status \in Statuses, ChangeStatus(o, status)
      PROVE  IInv'
  <2>1. /\ reader' = reader /\ orders[o] \in Row /\ orders[o] # None
        /\ orders' = [orders EXCEPT ![o].status = status]
        /\ stayed' = IF reader.list = Everything THEN stayed ELSE stayed \ {o}
    BY <1>2 DEF ChangeStatus, IInv, Typed
  <2>2. /\ orders'[o] = [orders[o] EXCEPT !.status = status]
        /\ \A p \in Orders \ {o} : orders'[p] = orders[p]
        /\ orders' \in [Orders -> {None} \cup Row]
    BY <2>1 DEF IInv, Typed, Row
  <2>3. /\ orders'[o] \in Row /\ orders'[o] # None
        /\ orders'[o].createdAt = orders[o].createdAt
    BY <2>1, <2>2, NoneIsAbsent DEF Row
  <2>4. stayed' \subseteq stayed /\ stayed \cup reader.got \subseteq Orders
    BY <2>1 DEF IInv, Typed
  <2>5. Typed' /\ PageFits' /\ CursorBelongs'
    BY <2>1, <2>2, <2>4 DEF IInv, Typed, PageFits, CursorBelongs, Belongs
  <2>6. StayedIsListed'
    BY <2>1, <2>2, <2>3, <2>4 DEF IInv, StayedIsListed, InList
  <2>7. GivenIsBehind' /\ BehindIsGiven'
    BY <2>1, <2>2, <2>3, <2>4 DEF IInv, GivenIsBehind, BehindIsGiven, Beyond
  <2> QED BY <2>5, <2>6, <2>7 DEF IInv
<1>3. ASSUME NEW list \in Lists, NEW limit \in Limits, FirstPage(list, limit)
      PROVE  IInv'
  <2>1. /\ Typed /\ Turn(list, None, limit, {}) /\ orders' = orders
        /\ stayed' \subseteq Orders /\ \A o \in stayed' : InList(o, list)
        /\ \A o : Beyond(None, o)
    BY <1>3 DEF FirstPage, IInv, Beyond
  <2> QED BY <2>1, TurnKeepsIInv
<1>4. ASSUME NEW list \in Lists, NEW limit \in Limits, NextPage(list, limit)
      PROVE  IInv'
  <2>1. /\ stayed' \subseteq Orders /\ \A o \in stayed' : InList(o, list)
        /\ \A o \in stayed' : ~Beyond(reader.cursor, o) => o \in reader.got
    BY <1>4, NextPageIsTurn DEF IInv, Typed, StayedIsListed, BehindIsGiven
  <2> QED BY <1>4, <2>1, NextPageIsTurn, TurnKeepsIInv
<1>5. CASE UNCHANGED vars
  BY <1>5 DEF vars, IInv, Typed, PageFits, CursorBelongs, Belongs, StayedIsListed,
              GivenIsBehind, BehindIsGiven, InList, Beyond
<1> QED BY <1>1, <1>2, <1>3, <1>4, <1>5 DEF Next

-----------------------------------------------------------------------------
(* The theorems. *)

\* The invariant holds in every state, whatever the orders and the reader do.
THEOREM Inductive == Spec => []IInv
<1>1. IInv /\ [Next]_vars => IInv'
  BY StepKeepsIInv
<1> QED BY <1>1, InitIInv, PTL DEF Spec

\* The variables have their types, and no page is larger than was asked for.
THEOREM PagesFit == Spec => []TypeOK
<1>1. IInv => TypeOK
  BY DEF IInv, TypeOK, PageFits
<1> QED BY <1>1, Inductive, PTL

\* A client who has read a list to its end was given every order that was in it
\* all the time: orders that appear with an earlier time, leave or come back
\* between two pages do not move the others.
THEOREM ListsAreComplete == Spec => []NothingIsSkipped
<1>1. IInv => NothingIsSkipped
  BY DEF IInv, NothingIsSkipped, BehindIsGiven
<1> QED BY <1>1, Inductive, PTL

\* A page after the first has none of the orders that were given before.
THEOREM OrdersComeOnce == Spec => NoOrderTwice
<1>1. ASSUME IInv, NEW list \in Lists, NEW limit \in Limits,
             NextPage(list, limit)
      PROVE  reader'.page \cap reader.got = {}
  <2>1. reader'.page = FirstRows(Candidates(list, reader.cursor), limit)
    BY <1>1 DEF NextPage, Turn
  <2>2. \A o \in reader'.page : Beyond(reader.cursor, o)
    BY <2>1 DEF FirstRows, Candidates
  <2> QED BY <1>1, <2>2, NextPageIsTurn
<1>2. IInv => \A list \in Lists, limit \in Limits :
        NextPage(list, limit) => reader'.page \cap reader.got = {}
  BY <1>1
<1> QED BY <1>2, Inductive, PTL DEF NoOrderTwice

\* A turn that gives a cursor leaves something to come.
LEMMA TurnLeadsOn ==
  ASSUME Typed, NEW list \in Lists, NEW limit \in Limits,
         NEW cursor \in Position \cup {None}, NEW before \in SUBSET Orders,
         Turn(list, cursor, limit, before), reader'.cursor # None
  PROVE  Candidates(reader'.list, reader'.cursor) # {}
<1> DEFINE rows == Candidates(list, cursor)
           page == FirstRows(rows, limit)
<1>1. HasMore(rows, limit) /\ reader'.list = list
  BY DEF Turn
<1>2. rows \in SUBSET Present
  BY CandidatesArePresent
<1>3. PICK o \in rows : o \notin page
  BY <1>1, <1>2, PageOfRows
<1>4. Beyond(reader'.cursor, o)
  BY <1>1, <1>2, <1>3, CursorOfTurn
<1> QED BY <1>1, <1>4 DEF Candidates

\* A cursor is only given when something is left to come after it, so that no
\* client is sent to fetch an empty page.
THEOREM CursorsLeadOn == Spec => CursorLeadsOn
<1>1. ASSUME IInv, [Next]_vars, reader'.cursor # None, reader' # reader
      PROVE  Candidates(reader'.list, reader'.cursor) # {}
  <2>1. PICK list \in Lists, limit \in Limits :
          FirstPage(list, limit) \/ NextPage(list, limit)
    BY <1>1 DEF Next, vars, Insert, ChangeStatus
  <2>2. CASE FirstPage(list, limit)
    <3>1. Typed /\ Turn(list, None, limit, {})
      BY <1>1, <2>2 DEF FirstPage, IInv
    <3> QED BY <1>1, <3>1, TurnLeadsOn
  <2>3. CASE NextPage(list, limit)
    BY <1>1, <2>3, NextPageIsTurn, TurnLeadsOn
  <2> QED BY <2>1, <2>2, <2>3
<1>2. IInv /\ [Next]_vars =>
        [reader'.cursor # None /\ reader' # reader =>
           Candidates(reader'.list, reader'.cursor) # {}]_vars
  BY <1>1
<1> QED BY <1>2, Inductive, PTL DEF Spec, CursorLeadsOn
=============================================================================
