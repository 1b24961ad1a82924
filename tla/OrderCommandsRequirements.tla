--------------------- MODULE OrderCommandsRequirements ---------------------
(***************************************************************************)
(* What the platform owes its clients for the commands of OrderCommands.    *)
(***************************************************************************)
EXTENDS OrderCommands

\* The type of every variable: what the columns and the handlers can hold.
Handler ==
  [phase : Active \cup {"idle", "done"}, command : Commands \cup {None},
   order : Orders \cup {None}, base : History, at : Nat, seq : Nat,
   reply : {None} \cup [code : Codes, order : Orders \cup {None},
                        history : History]]

TypeOK ==
  /\ menuVersion \in [Venues -> Nat]
  /\ orders \in [Orders -> {None} \cup OrderRow]
  /\ commands \in [CommandIds -> {None} \cup CommandRow]
  /\ journal \subseteq
       [seq : Nat, venue : Venues, order : Orders, history : History]
  /\ nextSeq \in Nat /\ clock \in Nat /\ received \in Nat
  /\ req \in [Requests -> Handler]

HistoryOf(o) == IF orders[o] = None THEN <<>> ELSE orders[o].history
Statuses(history) == [i \in DOMAIN history |-> history[i].status]
RecordedIds == {id \in CommandIds : commands[id] # None}

-----------------------------------------------------------------------------
(* Safety of the tables. *)

\* Every order went through a path of the documented lifecycle, whatever
\* cancellations, decisions of the venue and status updates raced for it: the
\* status is compared again under the row lock (ApplyOrderCommand).
LegalHistories == \A o \in Orders : LegalHistory(Statuses(HistoryOf(o)))

\* Read in sequence order, the journal of an order tells its whole history,
\* one event for each change and no event of a change that was undone:
\* sequence numbers are drawn under the row lock of the order.
JournalTellsHistory ==
  /\ \A e \in journal : /\ IsPrefix(e.history, HistoryOf(e.order))
                        /\ e.venue = orders[e.order].venue
  /\ \A o \in Orders : \A n \in 1 .. Len(HistoryOf(o)) :
       \E e \in journal : e.order = o /\ Len(e.history) = n
  /\ \A e, f \in journal : e.order = f.order =>
       (e.seq < f.seq <=> Len(e.history) < Len(f.history))

\* A later event of an order carries a later updatedAt, although the handlers
\* take the time before they wait for the lock: the venue drops the snapshots
\* that are not newer than what it has, and must not drop these.
JournalTimesIncrease ==
  \A e, f \in journal : e.order = f.order /\ e.seq < f.seq =>
    Last(e.history).changedAt < Last(f.history).changedAt

\* A customer's key names at most one order, and that order is the recorded
\* answer of the create: the branch of CreateOrderCommand for an order without
\* a command record is never taken.
CreateKeyNamesOrder ==
  \A o \in Orders : orders[o] # None =>
    LET id == <<orders[o].customer, "create_order", None, orders[o].createKey>>
    IN id \in RecordedIds /\ commands[id].response.order = o

\* Two orders of a venue never share the venue's own identifier, even when
\* they are accepted at the same time.
VenueOrderIDsDiffer ==
  \A o, p \in Orders :
    /\ orders[o] # None /\ orders[p] # None
    /\ orders[o].venueOrderID # None
    /\ orders[o].venueOrderID = orders[p].venueOrderID
    /\ orders[o].venue = orders[p].venue
    => o = p

-----------------------------------------------------------------------------
(* Safety of the answers. *)

Answered(r) == req[r].phase = "done"
Succeeded(r) == Answered(r) /\ req[r].reply.code = "ok"

\* An order that a client is told about is the client's own: ApplyOrderCommand
\* takes no subject and relies on what the handler read before.
TenantIsolation ==
  \A r \in Requests : Succeeded(r) =>
    LET o == req[r].reply.order
    IN /\ orders[o] # None
       /\ req[r].command.subject \in {orders[o].customer, orders[o].venue}

\* A success is true: the answer shows the order as it was at some moment, and
\* at that moment it was in the status that the command asked for.
SuccessIsTrue ==
  \A r \in Requests : Succeeded(r) =>
    LET reply == req[r].reply
    IN /\ reply.history # <<>>
       /\ IsPrefix(reply.history, HistoryOf(reply.order))
       /\ StatusOf(reply.history) = Target(req[r].command)

\* Two successes of the same command are the same answer, whichever of them
\* acted, was replayed or found the order accepted: a create that is retried
\* while it runs never makes a second order.
RetriesAgree ==
  \A r, s \in Requests :
    /\ Succeeded(r) /\ Succeeded(s)
    /\ req[r].command = req[s].command
    => req[r].reply = req[s].reply

\* docs/contract-decisions.md: repeating the same body returns the result that
\* was committed.  A handler that looked for the answer before the commit of
\* its twin and for the order after it refuses the move instead.
RetryGetsItsAnswer ==
  [][\A r \in Requests :
       /\ req'[r].phase = "done" /\ req[r].phase # "done"
       /\ req'[r].reply.code = "invalid_order_transition"
       => \/ ~Recorded(r)
          \/ commands[CommandId(req[r].command)].hash # req[r].command.body]_vars

-----------------------------------------------------------------------------
(* What a step may never do. *)

\* An order comes into being only on the menu its customer saw: a snapshot
\* published after the handler's first look at the version is noticed.
OrderedFromCurrentMenu ==
  [][\A o \in Orders : orders[o] = None /\ orders'[o] # None =>
       LET id == <<orders'[o].customer, "create_order", None,
                   orders'[o].createKey>>
       IN commands'[id].hash.menuVersion = menuVersion'[orders'[o].venue]]_vars

\* The tables implement the abstract order book: every command acts at most
\* once, on one order, by one legal move, and its answer is recorded with it.
Book == INSTANCE OrderBook WITH
  Unanswered <- None,
  history <- [o \in Orders |-> Statuses(HistoryOf(o))],
  answer <- [id \in CommandIds |->
               IF commands[id] = None THEN None
               ELSE <<commands[id].response.order,
                      Statuses(commands[id].response.history)>>]
ImplementsOrderBook == Book!Spec

-----------------------------------------------------------------------------
(* Waiting. *)

\* Why a handler cannot take its next step for now: another one holds the row
\* lock of its order, has inserted a twin of its order, or has given the
\* venue's identifier that it is about to give to an order.
WaitsFor(r, s) ==
  LET c == req[r].command
  IN \/ req[r].phase = "lock" /\ LocksOrder(s, req[r].order)
     \/ req[r].phase = "insert" /\ InsertsFor(s, c.subject, c.key)
     \/ /\ req[r].phase = "update" /\ r # s
        /\ c.operation = "accept_order"
        /\ AssignsVenueOrderID(s, c.subject, c.body.venueOrderID)

\* Among any handlers there is one that waits for none of them: locks and
\* unique keys are taken in an order that leaves no circle, so that the
\* deadlock detector of the database never has to end a transaction.
NobodyWaitsInACircle ==
  \A S \in SUBSET Requests : S # {} =>
    \E r \in S : \A s \in S : ~WaitsFor(r, s)

-----------------------------------------------------------------------------
(* Liveness. *)

\* Every command that is received is answered: handlers that wait for each
\* other's row locks and unique keys never wait in a circle.
EveryCommandIsAnswered ==
  \A r \in Requests : req[r].phase = "replay" ~> req[r].phase = "done"
=============================================================================
