--------------------------- MODULE VenueCatalogue ---------------------------
(***************************************************************************)
(* The public list of venues, read page by page by city: the scheme of      *)
(* OrderLists in the other direction, by name and identifier, the least     *)
(* first.  The services never insert a venue; the migration does, or        *)
(* somebody by hand, also while a client reads.                             *)
(*                                                                          *)
(* Names and identifiers are numbers, ordered as the database orders them.  *)
(* A cursor without a name is refused, so 0 stands for the empty name.      *)
(***************************************************************************)
EXTENDS Pages, Naturals, FiniteSets, FiniteSetsExt

CONSTANTS
  Venues,    \* identifiers of venues: 1 .. n
  Names,     \* their names: 1 .. n
  Cities,    \* cities, regardless of case
  AnyCity    \* no filter

VARIABLES
  venues,    \* the table: a row or None
  browser,   \* a client on its way through the list
  listed     \* the venues that were in its list ever since it started

catalogueVars == <<venues, browser, listed>>

NoBrowser == [city |-> None, cursor |-> None, page |-> {}, got |-> {}]

CatalogueInit ==
  /\ venues = [v \in Venues |-> None]
  /\ browser = NoBrowser
  /\ listed = {}

-----------------------------------------------------------------------------
Precedes(name, v, other, w) == name < other \/ (name = other /\ v < w)

InCity(v, city) ==
  venues[v] # None /\ (city = AnyCity \/ venues[v].city = city)

\* Variant: identifiers do not decide between venues of one name.
After_ByName(cursor, v) == cursor # None => cursor.name < venues[v].name

After(cursor, v) ==
  cursor # None => Precedes(cursor.name, cursor.id, venues[v].name, v)

\* ListVenues of the repository: the first rows after the cursor.
Found(city, cursor) == {v \in Venues : InCity(v, city) /\ After(cursor, v)}
FirstVenues(rows, limit) ==
  {v \in rows :
     Cardinality({w \in rows : Precedes(venues[w].name, w, venues[v].name, v)})
       < limit}

\* ListVenues of the service asks for one row more than a page; the page's last
\* row makes the next cursor.
ShowPage(city, cursor, limit, before) ==
  LET rows == Found(city, cursor)
      page == FirstVenues(rows, limit)
      last == CHOOSE v \in page : \A w \in page \ {v} :
                Precedes(venues[w].name, w, venues[v].name, v)
  IN browser' =
       [city |-> city, page |-> page, got |-> before \cup page,
        cursor |-> IF Cardinality(rows) <= limit THEN None
                   ELSE [scope |-> city, name |-> venues[last].name,
                         id |-> last]]

\* decodeVenueCursor: of this city, and with a name.
Acceptable(cursor, city) == cursor.scope = city /\ cursor.name # 0

AddVenue(v, name, city) ==
  /\ venues[v] = None
  /\ venues' = [venues EXCEPT ![v] = [name |-> name, city |-> city]]
  /\ UNCHANGED <<browser, listed>>

ListVenues(city, limit) ==
  /\ ShowPage(city, None, limit, {})
  /\ listed' = {v \in Venues : InCity(v, city)}
  /\ UNCHANGED venues

ListMoreVenues(city, limit) ==
  /\ browser.cursor # None
  /\ Acceptable(browser.cursor, city)
  /\ ShowPage(city, browser.cursor, limit, browser.got)
  /\ UNCHANGED <<venues, listed>>

CatalogueNext ==
  \/ \E v \in Venues, name \in Names, city \in Cities : AddVenue(v, name, city)
  \/ \E city \in Cities \cup {AnyCity}, limit \in Limits :
       ListVenues(city, limit) \/ ListMoreVenues(city, limit)

CatalogueSpec == CatalogueInit /\ [][CatalogueNext]_catalogueVars

-----------------------------------------------------------------------------
(* Seen in a mirror, a list of venues is a list of orders. *)

Mirror(set, n) == Max(set) + 1 - n
MirroredVenues(set) == {Mirror(Venues, v) : v \in set}

MirroredOrders ==
  [o \in Venues |->
    LET row == venues[Mirror(Venues, o)]
    IN IF row = None THEN None
       ELSE [createdAt |-> Mirror(Names, row.name), status |-> row.city]]

MirroredCursor(cursor) ==
  IF cursor = None THEN None
  ELSE [scope |-> cursor.scope, createdAt |-> Mirror(Names, cursor.name),
        id |-> Mirror(Venues, cursor.id)]

MirroredReader ==
  [list |-> browser.city, page |-> MirroredVenues(browser.page),
   got |-> MirroredVenues(browser.got),
   cursor |-> MirroredCursor(browser.cursor)]

InMirror == INSTANCE OrderLists WITH
  Orders <- Venues, Times <- Names, Statuses <- Cities, Everything <- AnyCity,
  orders <- MirroredOrders, reader <- MirroredReader,
  stayed <- MirroredVenues(listed)

VenueRow == [name : Names, city : Cities]
VenueCursor == [scope : Cities \cup {AnyCity}, name : Names, id : Venues]

\* What is assumed of the constants.
CatalogueConstants ==
  /\ Max(Venues) \in Nat /\ Venues = 1 .. Max(Venues)
  /\ Max(Names) \in Nat /\ Names = 1 .. Max(Names)
  /\ Limits \subseteq Nat \ {0}
  /\ None \notin VenueRow \cup VenueCursor \cup Cities \cup {AnyCity}
  /\ None \notin InMirror!Row \cup InMirror!Position

ASSUME CatalogueAssumption == CatalogueConstants

\* Reading the catalogue is reading a list of orders in a mirror, whoever adds
\* venues meanwhile: what is proved of those lists holds of the catalogue, that
\* no venue is missed or given twice and that a cursor leads on to more and is
\* accepted when it comes back.
CatalogueIsAList == InMirror!Spec

\* A client who has read a city's venues to the end was given every venue that
\* was there when it started, whichever were added meanwhile.
NoVenueIsMissed ==
  browser.city # None /\ browser.cursor = None => listed \subseteq browser.got

\* No venue is on two pages of one reading, and every page is of its city.
NoVenueTwice ==
  [][\A city \in Cities \cup {AnyCity}, limit \in Limits :
       ListMoreVenues(city, limit) =>
         /\ browser'.page \cap browser.got = {}
         /\ \A v \in browser'.page : InCity(v, browser.city)]_catalogueVars
=============================================================================
