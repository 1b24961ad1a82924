------------------------------- MODULE MCLists -------------------------------
(***************************************************************************)
(* A small instance of the paged lists for TLC: more rows than a page       *)
(* holds, fewer times and names than rows, so that identifiers have to      *)
(* decide.  The lists share no state, so a client reads orders or venues.   *)
(***************************************************************************)
EXTENDS OrderLists, VenueCatalogue

CONSTANTS pending, accepted, lisbon, porto

VARIABLE subject

FourOrders == 1 .. 4
ThreeVenues == 1 .. 3
TwoOfThem == 1 .. 2
PageSizes == {1, 2}

MCInit ==
  Init /\ CatalogueInit /\ subject \in {"orders", "venues"}
MCNext ==
  /\ \/ subject = "orders" /\ Next /\ UNCHANGED catalogueVars
     \/ subject = "venues" /\ CatalogueNext /\ UNCHANGED vars
  /\ subject' = subject
MCSpec == MCInit /\ [][MCNext]_<<vars, catalogueVars, subject>>
=============================================================================
