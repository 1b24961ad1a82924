-------------------------- MODULE MenuRequirements --------------------------
(***************************************************************************)
(* What customers and venues can rely on when menus are published, shown    *)
(* and ordered from at the same time (MenuPublication).                     *)
(***************************************************************************)
EXTENDS MenuPublication

Menus == {Seed} \cup Snapshots
Shown == {Public(m) : m \in Menus}
Versions == {m.version : m \in Menus}
Bills == {Bill(m.lines, basket) : m \in Menus, basket \in Baskets}

Publication ==
  [phase : {"idle", "current", "save", "reread", "mappings", "done"},
   asked : Menus \cup {None}, told : Versions \cup {None},
   products : {{}} \cup {Products(m) : m \in Menus}]

Request ==
  [phase : {"idle", "get", "find", "put", "place", "ordered"},
   key : Versions \cup {None}, caching : BOOLEAN,
   held : Shown \cup {None}, shown : Shown \cup {None},
   basket : Baskets \cup {<<>>}, bill : Bills \cup {None}]

\* The type of every variable; prices are amounts of money that can be charged.
TypeOK ==
  /\ menu \in Menus
  /\ \A i \in DOMAIN menu.lines : menu.lines[i].price \in 0 .. MaxMoney
  /\ cache \subseteq Shown
  /\ publisher \in [Publishers -> Publication]
  /\ customer \in [Customers -> Request]

\* Every menu that a customer may come across, as a customer sees it.
Copies ==
  UNION {{Public(menu)}, cache,
         {customer[c].held : c \in Customers} \ {None},
         {customer[c].shown : c \in Customers} \ {None}}

\* A version names one menu, wherever it is met: publishers that send the same
\* version with other lines and entries that are put late cannot make two.
VersionNamesOneMenu ==
  \A m, n \in Copies : m.version = n.version => m = n

\* An order costs what the menu in the customer's hands says, although it was
\* priced by the menu in the database and the one shown may come from a cache.
PaidAsShown ==
  \A c \in Customers : customer[c].phase = "ordered" =>
    customer[c].bill = Bill(customer[c].shown.lines, customer[c].basket)

\* A venue that was told the version which is published can translate every
\* product of it: the mapping may be newer than the version it comes with, but
\* then the version is no longer the one that is published.
CurrentMenuIsTranslated ==
  \A p \in Publishers :
    publisher[p].phase = "done" /\ publisher[p].told = menu.version
    => publisher[p].products = Products(menu)

\* A customer who asks again is never shown an older menu than before, from
\* whatever entry of the cache: the version is read from the database first.
ViewsMoveForward ==
  [][\A c \in Customers :
       customer[c].shown # None =>
         customer[c].shown.version <= customer'[c].shown.version]_vars

-----------------------------------------------------------------------------
(* The reference for OrderPricing: sums without any bound on the way. *)

Orderable(lines, basket) ==
  /\ basket # <<>>
  /\ \A i \in DOMAIN basket :
       /\ basket[i].quantity > 0
       /\ \E j \in DOMAIN lines :
            lines[j].product = basket[i].product /\ lines[j].available

Cost(lines, item) ==
  item.quantity *
    (CHOOSE line \in ToSet(lines) : line.product = item.product).price

ExactTotal(lines, basket) ==
  DeliveryFee +
    MapThenSumSet(LAMBDA i : Cost(lines, basket[i]), DOMAIN basket)

\* A basket is charged its exact total, delivery included, and refused only if
\* something in it cannot be ordered or the total is above the bound: comparing
\* before multiplying and adding refuses nothing else and rounds nothing.
PricesAreExact ==
  \A basket \in Baskets :
    LET bill == Bill(menu.lines, basket)
    IN /\ bill.code = "ok" <=> /\ Orderable(menu.lines, basket)
                              /\ ExactTotal(menu.lines, basket) <= MaxMoney
       /\ bill.code = "ok" => bill.amount = ExactTotal(menu.lines, basket)
=============================================================================
