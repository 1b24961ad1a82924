-------------------------- MODULE MCOrderCommands --------------------------
(***************************************************************************)
(* Small instances of OrderCommands for TLC: sets of commands, each chosen  *)
(* so that the interesting ones meet.                                       *)
(***************************************************************************)
EXTENDS OrderCommandsInvariant

CONSTANTS r1, r2, r3, o1, o2, u1, u2, v1, v2, k1, k2, x1, x2, plain, other

\* Handlers are interchangeable.
Symmetry == Permutations(Requests)

Body(venue, version, id, status, detail) ==
  [venue |-> venue, status |-> status, detail |-> detail,
   menuVersion |-> version, venueOrderID |-> id]

CreateOf(u, key, v, version, detail) ==
  [key |-> key, subject |-> u, operation |-> "create_order", order |-> None,
   body |-> Body(v, version, None, None, detail)]
CancelOf(u, o, key) ==
  [key |-> key, subject |-> u, operation |-> "cancel_order", order |-> o,
   body |-> Body(None, 0, None, None, plain)]
AcceptOf(v, o, key, id) ==
  [key |-> key, subject |-> v, operation |-> "accept_order", order |-> o,
   body |-> Body(None, 0, id, None, plain)]
RejectOf(v, o, key) ==
  [key |-> key, subject |-> v, operation |-> "reject_order", order |-> o,
   body |-> Body(None, 0, None, None, plain)]
UpdateOf(v, o, key, status) ==
  [key |-> key, subject |-> v, operation |-> "update_order_status",
   order |-> o, body |-> Body(None, 0, None, status, plain)]

\* One order, all the commands that race for it.
RaceCommands ==
  {CreateOf(u1, k1, v1, 0, plain), CancelOf(u1, o1, k1),
   AcceptOf(v1, o1, k1, x1), AcceptOf(v1, o1, k2, x1), RejectOf(v1, o1, k1),
   UpdateOf(v1, o1, k1, "preparing")}

\* Everything that makes a handler wait, and keys that meet: twins of a create,
\* the same key with another body and from another customer, and two orders
\* that are given the same identifier.
WaitingCommands ==
  {CreateOf(u1, k1, v1, 0, plain), CreateOf(u1, k1, v1, 0, other),
   CreateOf(u2, k1, v1, 0, plain), AcceptOf(v1, o1, k1, x1),
   AcceptOf(v1, o2, k1, x1)}
=============================================================================
