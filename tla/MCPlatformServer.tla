-------------------------- MODULE MCPlatformServer --------------------------
(***************************************************************************)
(* A small instance of PlatformServer for TLC: a process that serves, and   *)
(* one that replaces its key and then cannot start; keys that are refused.  *)
(***************************************************************************)
EXTENDS PlatformServer

CONSTANTS i1, i2, v1, v2, u1, o1, k1, k2, k3, short, n1, n2

Config(venue, key, complete, cache) ==
  [venue |-> venue, key |-> key, complete |-> complete, cache |-> cache]

\* k3 belongs to another venue: it was put into the table by hand.
MCIssued == {[venue |-> v2, key |-> k3, id |-> "issued"]}
MCConfigurations ==
  {Config(v1, k1, TRUE, "usable"), Config(v1, k2, TRUE, "unusable"),
   Config(v2, k3, TRUE, "usable"), Config(v1, k1, FALSE, "usable"),
   Config(v1, short, TRUE, "usable")}

NoCall == [operation |-> "GetPlatformHealth", flaw |-> None, apiKey |-> None,
           user |-> None, venue |-> None, order |-> None, status |-> None,
           key |-> None]
Create(venue) ==
  [NoCall EXCEPT !.operation = "CreateOrder", !.user = u1, !.venue = venue,
                 !.key = n1]
Decision(operation, apiKey, key) ==
  [NoCall EXCEPT !.operation = operation, !.apiKey = apiKey, !.order = o1,
                 !.key = key]

\* An order is placed and accepted under one key or two; a venue that it is
\* not for sends a body that cannot be decoded; and a read.
MCCalls ==
  { NoCall, Create(v1),
    Decision("AcceptPartnerOrder", k1, n1), Decision("AcceptPartnerOrder", k1, n2),
    [Decision("RejectPartnerOrder", k3, n1) EXCEPT !.flaw = "body"] }
=============================================================================
