-------------------------- MODULE MenuPublication --------------------------
(***************************************************************************)
(* The menu of one venue: published by the venue's instances, shown to      *)
(* customers through a cache that may be stale, slow or down, and ordered   *)
(* from.  A menu is its version and its lines; the tables venues, menus and *)
(* menu_items change in one transaction and are one variable.  A product's  *)
(* identifier is derived one to one from the venue's own, so the mapping a  *)
(* venue is sent is the set of products it can translate.                   *)
(***************************************************************************)
EXTENDS OrderPricing

CONSTANTS
  Publishers,   \* handlers of SyncPartnerMenu
  Customers,    \* each with a handler of GetMenu or CreateOrder
  Seed,         \* the menu of the migration
  Snapshots,    \* the menus that instances of the venue send
  Baskets,      \* what customers order
  None          \* the absent value

VARIABLES
  menu,         \* the published menu
  cache,        \* the menus in Redis, keyed by version
  publisher,    \* the handlers of the venue's instances
  customer      \* the customers: what they were shown and what they order

vars == <<menu, cache, publisher, customer>>

Products(m) == {m.lines[i].product : i \in DOMAIN m.lines}

\* availableCategories: customers are shown what is available, each line in the
\* place that it has on the whole menu.
Public(m) == [m EXCEPT !.lines = RestrictValues(@, LAMBDA line : line.available)]

\* Variant: prices are not looked at.
Valid_AnyPrice(m) ==
  \A i, j \in DOMAIN m.lines :
    m.lines[i].product = m.lines[j].product => i = j

\* validateMenuSyncRequest: no product twice, and prices within the bound.
Valid(m) ==
  /\ \A i, j \in DOMAIN m.lines :
       m.lines[i].product = m.lines[j].product => i = j
  /\ \A i \in DOMAIN m.lines : m.lines[i].price \in 0 .. MaxMoney

ASSUME SeedIsValid == Valid(Seed)
ASSUME MenusHaveVersions ==
  \A m \in {Seed} \cup Snapshots :
    DOMAIN m = {"version", "lines"} /\ m.version \in Nat
ASSUME LinesType ==
  \A m \in {Seed} \cup Snapshots :
    m.lines \in Seq([product : Products(m), price : Int, available : BOOLEAN])
ASSUME BasketsType ==
  \A basket \in Baskets :
    basket \in Seq([product : {basket[i].product : i \in DOMAIN basket},
                   quantity : Int])
ASSUME NoneIsAbsent ==
  \A m \in {Seed} \cup Snapshots : m # None /\ Public(m) # None

NoPublication == [phase |-> "idle", asked |-> None, told |-> None,
                  products |-> {}]
NoRequest == [phase |-> "idle", key |-> None, caching |-> FALSE,
              held |-> None, shown |-> None, basket |-> <<>>, bill |-> None]

Init ==
  /\ menu = Seed
  /\ cache = {}
  /\ publisher = [p \in Publishers |-> NoPublication]
  /\ customer = [c \in Customers |-> NoRequest]

-----------------------------------------------------------------------------
(* SyncPartnerMenu. *)

\* A request that is not valid is refused and changes nothing.
Publish(p, m) ==
  /\ publisher[p].phase \in {"idle", "done"}
  /\ Valid(m)
  /\ publisher' = [publisher EXCEPT ![p] =
       [NoPublication EXCEPT !.phase = "current", !.asked = m]]
  /\ UNCHANGED <<menu, cache, customer>>

\* Variant: the same version again is taken for a newer one.
Outdated_Older(m) == m.version < menu.version

Outdated(m) == m.version <= menu.version

\* FindMenu: the version that is published decides whether there is anything
\* to save.
FindCurrent(p) ==
  /\ publisher[p].phase = "current"
  /\ publisher' = [publisher EXCEPT ![p] =
       [@ EXCEPT !.told = menu.version,
                 !.phase = IF Outdated(publisher[p].asked) THEN "mappings"
                           ELSE "save"]]
  /\ UNCHANGED <<menu, cache, customer>>

\* menuSyncResponse: a version and the mapping.
Reply(p, version, products) ==
  publisher' = [publisher EXCEPT ![p] =
    [NoPublication EXCEPT !.phase = "done", !.told = version,
                          !.products = products]]

\* SaveMenuSnapshot compares the versions again under FOR UPDATE.
SaveMenuSnapshot(p) ==
  /\ publisher[p].phase = "save"
  /\ IF Outdated(publisher[p].asked)
     THEN /\ publisher' = [publisher EXCEPT ![p] = [@ EXCEPT !.phase = "reread"]]
          /\ menu' = menu
     ELSE /\ menu' = publisher[p].asked
          /\ Reply(p, publisher[p].asked.version, Products(publisher[p].asked))
  /\ UNCHANGED <<cache, customer>>

\* The commit takes place and its acknowledgement is lost.
SaveUnacknowledged(p) ==
  /\ publisher[p].phase = "save"
  /\ ~Outdated(publisher[p].asked)
  /\ menu' = publisher[p].asked
  /\ publisher' = [publisher EXCEPT ![p] = NoPublication]
  /\ UNCHANGED <<cache, customer>>

\* Another instance was faster: its menu is the answer.
FindCurrentAgain(p) ==
  /\ publisher[p].phase = "reread"
  /\ publisher' = [publisher EXCEPT ![p] =
       [@ EXCEPT !.told = menu.version, !.phase = "mappings"]]
  /\ UNCHANGED <<menu, cache, customer>>

\* Variant: the mapping of the request's own menu is the answer.
ProductMappings_OfRequest(p) ==
  /\ publisher[p].phase = "mappings"
  /\ Reply(p, publisher[p].told, Products(publisher[p].asked))
  /\ UNCHANGED <<menu, cache, customer>>

\* The mapping is read in a statement of its own, after the menu.
ProductMappings(p) ==
  /\ publisher[p].phase = "mappings"
  /\ Reply(p, publisher[p].told, Products(menu))
  /\ UNCHANGED <<menu, cache, customer>>

\* Any statement may fail; the venue is told nothing.
PublicationFails(p) ==
  /\ publisher[p].phase \notin {"idle", "done"}
  /\ publisher' = [publisher EXCEPT ![p] = NoPublication]
  /\ UNCHANGED <<menu, cache, customer>>

-----------------------------------------------------------------------------
(* GetMenu. *)

\* Variant: the key of the cache has no version in it.
Cached_AnyVersion(version) == cache

\* menuKey, and the comparison of the version with that of the content.
Cached(version) == {m \in cache : m.version = version}

\* Between requests a customer has the last menu and the last order in hand.
Resting(c) == customer[c].phase \in {"idle", "ordered"}
Rest(c) == [NoRequest EXCEPT !.shown = customer[c].shown]

\* GetVenue: the version that is published is the one to look for.
FindVenue(c) ==
  /\ Resting(c)
  /\ customer' = [customer EXCEPT ![c] =
       [Rest(c) EXCEPT !.phase = "get", !.key = menu.version]]
  /\ UNCHANGED <<menu, cache, publisher>>

\* A hit is the answer; a miss leads to the database, and then to the cache.
GetCached(c) ==
  /\ customer[c].phase = "get"
  /\ \/ \E m \in Cached(customer[c].key) :
          customer' = [customer EXCEPT ![c] = [Rest(c) EXCEPT !.shown = m]]
     \/ /\ Cached(customer[c].key) = {}
        /\ customer' = [customer EXCEPT ![c] =
             [Rest(c) EXCEPT !.phase = "find", !.caching = TRUE]]
  /\ UNCHANGED <<menu, cache, publisher>>

\* The cache does not answer in time: this request leaves it alone.
GetFails(c) ==
  /\ customer[c].phase = "get"
  /\ customer' = [customer EXCEPT ![c] = [Rest(c) EXCEPT !.phase = "find"]]
  /\ UNCHANGED <<menu, cache, publisher>>

FindMenu(c) ==
  /\ customer[c].phase = "find"
  /\ customer' = [customer EXCEPT ![c] =
       IF customer[c].caching
       THEN [Rest(c) EXCEPT !.phase = "put", !.held = Public(menu)]
       ELSE [Rest(c) EXCEPT !.shown = Public(menu)]]
  /\ UNCHANGED <<menu, cache, publisher>>

\* The menu goes to the cache, or fails to, and to the customer.
PutCached(c) ==
  LET held == customer[c].held
  IN /\ customer[c].phase = "put"
     /\ cache' \in {cache, (cache \ Cached(held.version)) \cup {held}}
     /\ customer' = [customer EXCEPT ![c] = [Rest(c) EXCEPT !.shown = held]]
     /\ UNCHANGED <<menu, publisher>>

\* An entry's time to live ends.
Expire ==
  /\ \E m \in cache : cache' = cache \ {m}
  /\ UNCHANGED <<menu, publisher, customer>>

-----------------------------------------------------------------------------
(* CreateOrder, as far as the menu is concerned. *)

\* Variant: the version the customer names is not compared.
Shows_Any(c, m) == TRUE

\* The request names the version of the menu the customer was shown.
Shows(c, m) == customer[c].shown.version = m.version

\* FindMenu: the basket is priced by the menu that is published.
PriceOrder(c, basket) ==
  /\ Resting(c) /\ customer[c].shown # None
  /\ LET bill == Bill(menu.lines, basket)
     IN customer' = [customer EXCEPT ![c] =
          IF Shows(c, menu) /\ bill.code = "ok"
          THEN [Rest(c) EXCEPT !.phase = "place", !.basket = basket,
                               !.bill = bill]
          ELSE Rest(c)]
  /\ UNCHANGED <<menu, cache, publisher>>

\* CreateOrderCommand: compared again under FOR SHARE, which keeps snapshots
\* waiting until the order is committed.
PlaceOrder(c) ==
  /\ customer[c].phase = "place"
  /\ customer' = [customer EXCEPT ![c] =
       IF Shows(c, menu) THEN [customer[c] EXCEPT !.phase = "ordered"]
       ELSE Rest(c)]
  /\ UNCHANGED <<menu, cache, publisher>>

\* Any statement may fail; the customer keeps what was in hand.
RequestFails(c) ==
  /\ ~Resting(c)
  /\ customer' = [customer EXCEPT ![c] = Rest(c)]
  /\ UNCHANGED <<menu, cache, publisher>>

-----------------------------------------------------------------------------
SyncPartnerMenu(p) ==
  \/ \E m \in Snapshots : Publish(p, m)
  \/ FindCurrent(p) \/ SaveMenuSnapshot(p) \/ SaveUnacknowledged(p)
  \/ FindCurrentAgain(p) \/ ProductMappings(p) \/ PublicationFails(p)

GetMenu(c) ==
  \/ FindVenue(c) \/ GetCached(c) \/ GetFails(c) \/ FindMenu(c) \/ PutCached(c)

CreateOrder(c) ==
  \/ \E basket \in Baskets : PriceOrder(c, basket)
  \/ PlaceOrder(c)

Next ==
  \/ \E p \in Publishers : SyncPartnerMenu(p)
  \/ \E c \in Customers : GetMenu(c) \/ CreateOrder(c) \/ RequestFails(c)
  \/ Expire

Spec == Init /\ [][Next]_vars
=============================================================================
