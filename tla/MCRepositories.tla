--------------------------- MODULE MCRepositories ---------------------------
(***************************************************************************)
(* A small instance of MemoryRepository for TLC.                            *)
(***************************************************************************)
EXTENDS MCOrderCommands, MemoryRepository

\* Two venues and two customers that name each other's orders, two decisions
\* on one order, and accepts that give two orders of a venue one identifier.
TenantCommands ==
  {CreateOf(u1, k1, v1, 0, plain), CreateOf(u1, k2, v1, 0, plain),
   CreateOf(u1, k2, v2, 0, plain), AcceptOf(v1, o1, k1, x1),
   AcceptOf(v1, o2, k1, x1), AcceptOf(v2, o1, k1, x1), CancelOf(u2, o1, k1),
   RejectOf(v1, o1, k1)}
=============================================================================
