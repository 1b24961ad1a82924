----------------------------- MODULE MCEventFeed -----------------------------
(***************************************************************************)
(* Small instances of EventFeed for TLC.                                    *)
(***************************************************************************)
EXTENDS MCOrderCommands, EventFeed

\* Orders of one customer with two venues, and two decisions on one of them.
FeedCommands ==
  {CreateOf(u1, k1, v1, 0, plain), CreateOf(u1, k2, v1, 0, plain),
   CreateOf(u1, k2, v2, 0, plain), AcceptOf(v1, o1, k1, x1),
   RejectOf(v1, o1, k1)}
=============================================================================
