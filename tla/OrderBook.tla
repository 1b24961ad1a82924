------------------------------ MODULE OrderBook ------------------------------
(***************************************************************************)
(* What the platform promises about orders and commands, with no handlers,  *)
(* transactions or locks: an order is a history of statuses that only       *)
(* grows, one legal move at a time, and every move is the effect of exactly *)
(* one idempotent command, which from then on has its answer.               *)
(***************************************************************************)
EXTENDS OrderLifecycle

CONSTANTS Orders,        \* the order identifiers
          CommandIds,    \* (subject, operation, key) of every command
          Unanswered     \* the answer of a command that had no effect

VARIABLES history,       \* per order, the statuses it went through
          answer         \* per command, the order as the command left it

vars == <<history, answer>>

Init ==
  /\ history = [o \in Orders |-> <<>>]
  /\ answer = [id \in CommandIds |-> Unanswered]

\* A command takes effect: it moves one order and records that order as its
\* answer.  A command that already has an answer never acts again.
Execute(id, o, status) ==
  /\ answer[id] = Unanswered
  /\ MayFollow(history[o], status)
  /\ history' = [history EXCEPT ![o] = Append(@, status)]
  /\ answer' = [answer EXCEPT ![id] = <<o, Append(history[o], status)>>]

Next == \E id \in CommandIds, o \in Orders, status \in Status :
          Execute(id, o, status)

Spec == Init /\ [][Next]_vars
=============================================================================
