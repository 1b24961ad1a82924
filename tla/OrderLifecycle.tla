--------------------------- MODULE OrderLifecycle ---------------------------
(***************************************************************************)
(* The life of an order: the statuses it can have, the guards that both     *)
(* services put on a change of status, and the histories those guards       *)
(* admit.  No state: the other modules build on these operators.            *)
(***************************************************************************)
EXTENDS Naturals, Sequences, SequencesExt

\* The statuses of platformapi.OrderStatus, as the orders table admits them.
Status == {"pending_confirmation", "accepted", "preparing", "ready",
           "delivering", "delivered", "rejected", "cancelled"}

-----------------------------------------------------------------------------
(* Guards of the platform. *)

\* domain.CanCancelOrder: a customer may cancel until the kitchen starts.
\* Variant: a customer may cancel what the kitchen prepares.
CanCancelOrder_InKitchen(status) ==
  status \in {"pending_confirmation", "accepted", "preparing"}

CanCancelOrder(status) == status \in {"pending_confirmation", "accepted"}

\* domain.CanVenueAdvanceOrder: the kitchen moves an order one stage on.
CanVenueAdvanceOrder(current, next) ==
  <<current, next>> \in { <<"accepted", "preparing">>,
                          <<"preparing", "ready">>,
                          <<"ready", "delivering">>,
                          <<"delivering", "delivered">> }

(* Guard of the venue: what its operator may ask for. *)

\* domain.CanChangeOrderStatus of the venue service.
CanChangeOrderStatus(current, next) ==
  \/ current = "pending_confirmation" /\ next \in {"accepted", "rejected"}
  \/ CanVenueAdvanceOrder(current, next)

-----------------------------------------------------------------------------
(* What the documented lifecycle allows. *)

\* The arrows of the lifecycle diagram of docs/contract-decisions.md.
LegalMove(current, next) ==
  \/ current = "pending_confirmation"
       /\ next \in {"accepted", "rejected", "cancelled"}
  \/ current = "accepted" /\ next \in {"preparing", "cancelled"}
  \/ current = "preparing" /\ next = "ready"
  \/ current = "ready" /\ next = "delivering"
  \/ current = "delivering" /\ next = "delivered"

\* How far a status is from the start of the lifecycle: every legal move
\* raises it, so no status is ever visited twice.
Rank(status) ==
  CASE status = "pending_confirmation" -> 0
    [] status = "accepted"             -> 1
    [] status = "preparing"            -> 2
    [] status = "ready"                -> 3
    [] status = "delivering"           -> 4
    [] OTHER                           -> 5

\* A history of statuses that starts where an order starts and follows the
\* arrows of the diagram.
LegalHistory(h) ==
  /\ h # <<>> => h[1] = "pending_confirmation"
  /\ \A i \in 1 .. Len(h) - 1 : LegalMove(h[i], h[i + 1])

\* The status that may come next after a history, the empty one included:
\* an order comes into being in pending_confirmation.
MayFollow(h, status) ==
  IF h = <<>> THEN status = "pending_confirmation"
              ELSE LegalMove(Last(h), status)
=============================================================================
