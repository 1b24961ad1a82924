--------------------------- MODULE OrderCommands ---------------------------
(***************************************************************************)
(* The order commands of the platform: create, cancel, accept, reject and   *)
(* update status, as concurrent HTTP handlers over one PostgreSQL database. *)
(* A handler reads outside any transaction, decides, and then writes in a   *)
(* transaction that checks again under locks.  Each statement of the        *)
(* transaction that others can observe or wait for is a step of its own.    *)
(*                                                                          *)
(* Locks are not variables: a transaction holds the row lock of its order   *)
(* from the step that takes it to its end, so who holds what follows from   *)
(* the phases of the handlers, and a failure releases everything.           *)
(***************************************************************************)
EXTENDS OrderLifecycle, FiniteSets

CONSTANTS
  Requests,       \* slots for the handlers that run at the same time
  Commands,       \* the commands that clients may send
  Orders,         \* order identifiers
  Users, Venues,  \* the subjects of commands
  VenueOrderIDs,  \* identifiers that venues give to orders they accept
  None,           \* the absent value
  MaxRequests,    \* bound: how many commands are received
  MaxMenuVersion  \* bound: how many menu snapshots a venue publishes

VARIABLES
  menuVersion,    \* venues.menu_version
  orders,         \* table orders: a row or None
  commands,       \* table idempotency_commands: a row or None
  journal,        \* table order_events: the committed rows
  nextSeq,        \* the next value of the identity order_events.sequence_no
  clock,          \* readings taken of the wall clock
  received,       \* commands received
  req             \* the handlers

vars == <<menuVersion, orders, commands, journal, nextSeq, clock, received,
          req>>

Operations == {"create_order", "cancel_order", "accept_order",
               "reject_order", "update_order_status"}

\* The primary key of idempotency_commands.  The operation of a command on an
\* order has the order's identifier in its name; a create has None there.
CommandId(c) == <<c.subject, c.operation, c.order, c.key>>
CommandIds == {CommandId(c) : c \in Commands}

\* "ok" or the code of a domain.Error.
Codes == {"ok", "invalid_request", "venue_not_found", "venue_closed",
          "menu_version_mismatch", "item_not_found", "item_unavailable",
          "order_not_found", "idempotency_key_reused",
          "invalid_order_transition", "internal_error"}

\* The subject prefixes "user:" and "venue:" keep the two kinds apart, and a
\* request hash stands for the body it was computed from.
ASSUME SubjectsApart == Users \cap Venues = {}
ASSUME CommandsType ==
  \A c \in Commands :
    /\ c.operation \in Operations
    /\ c.operation = "create_order" =>
         c.subject \in Users /\ c.order = None /\ c.body.venue \in Venues
    /\ c.operation = "cancel_order" => c.subject \in Users
    /\ c.operation \in {"accept_order", "reject_order", "update_order_status"}
         => c.subject \in Venues
    /\ c.operation # "create_order" => c.order \in Orders
    /\ c.operation = "accept_order" =>
         c.body.venueOrderID \in VenueOrderIDs \cup {None}
    /\ c.operation = "update_order_status" => c.body.status \in Status

\* What the tables hold: an order with the changes of its status, and the
\* answer of a command with the hash of its body.
StatusChange == [status : Status, changedAt : Nat]
History == Seq(StatusChange)
OrderRow ==
  [customer : Users, venue : Venues, createKey : {c.key : c \in Commands},
   venueOrderID : VenueOrderIDs \cup {None}, history : History]
CommandRow ==
  [hash : {c.body : c \in Commands},
   response : [order : Orders, history : History]]

ASSUME NoneIsAbsent ==
  /\ None \notin Orders \cup VenueOrderIDs \cup Codes
  /\ None \notin OrderRow
  /\ None \notin CommandRow
ASSUME BoundsType == MaxRequests \in Nat /\ MaxMenuVersion \in Nat

-----------------------------------------------------------------------------
(* Orders, answers and handlers. *)

\* The status an order has: that of its last change.
StatusOf(history) == Last(history).status

\* The status a command asks for.
\* Variant: one handler for all commands takes the status from the body.
Target_OfBody(c) == c.body.status

Target(c) ==
  CASE c.operation = "create_order" -> "pending_confirmation"
    [] c.operation = "cancel_order" -> "cancelled"
    [] c.operation = "accept_order" -> "accepted"
    [] c.operation = "reject_order" -> "rejected"
    [] c.operation = "update_order_status" -> c.body.status

Reply(code, order, history) ==
  [code |-> code, order |-> order, history |-> history]
Success(order, history) == Reply("ok", order, history)
Problem(code) == Reply(code, None, <<>>)

Idle == [phase |-> "idle", command |-> None, order |-> None, base |-> <<>>,
         at |-> 0, seq |-> 0, reply |-> None]

\* The history a handler wants its order to have: setOrderStatus copies the
\* one that was read and appends the change, stamped when it was decided.
\* Variant: the stamp is cut to a coarser unit.
Draft_CoarseTime(r) ==
  Append(req[r].base, [status |-> Target(req[r].command),
                       changedAt |-> req[r].at \div 2])

Draft(r) ==
  Append(req[r].base, [status |-> Target(req[r].command),
                       changedAt |-> req[r].at])

InTransaction == {"find", "version", "insert", "update", "commit"}
Active == {"replay", "prepare", "load", "compare", "lock"} \cup InTransaction

IsCreate(r) == req[r].command.operation = "create_order"

\* FOR UPDATE on the order: held from the step that takes it to the end.
\* Variant: the order is read without FOR UPDATE.
LocksOrder_None(r, o) == FALSE

LocksOrder(r, o) ==
  /\ req[r].phase \in {"update", "commit"}
  /\ ~IsCreate(r)
  /\ req[r].order = o

\* FOR SHARE on the venue, which a menu snapshot has to wait for.
\* Variant: the version is compared without FOR SHARE.
SharesVenue_None(r, v) == FALSE

SharesVenue(r, v) ==
  /\ req[r].phase \in {"insert", "commit"}
  /\ IsCreate(r)
  /\ req[r].command.body.venue = v

\* The uncommitted row of a create, and the uncommitted venue_order_id of an
\* accept: what a unique index makes others wait for.
\* Variant: an uncommitted twin is not waited for.
InsertsFor_NoWait(r, customer, key) == FALSE

InsertsFor(r, customer, key) ==
  /\ req[r].phase = "commit"
  /\ IsCreate(r)
  /\ req[r].command.subject = customer
  /\ req[r].command.key = key

\* Variant: an uncommitted identifier is not waited for.
AssignsVenueOrderID_NoWait(r, v, id) == FALSE

\* Variant: the identifier is claimed before it is looked up.
AssignsVenueOrderID_Claimed(r, v, id) ==
  /\ req[r].phase \in {"update", "commit"}
  /\ req[r].command.operation = "accept_order"
  /\ req[r].command.subject = v
  /\ req[r].command.body.venueOrderID = id

AssignsVenueOrderID(r, v, id) ==
  /\ req[r].phase = "commit"
  /\ req[r].command.operation = "accept_order"
  /\ req[r].command.subject = v
  /\ req[r].command.body.venueOrderID = id

Init ==
  /\ menuVersion = [v \in Venues |-> 0]
  /\ orders = [o \in Orders |-> None]
  /\ commands = [id \in CommandIds |-> None]
  /\ journal = {}
  /\ nextSeq = 1
  /\ clock = 1
  /\ received = 0
  /\ req = [r \in Requests |-> Idle]

tables == <<menuVersion, orders, commands, journal>>

-----------------------------------------------------------------------------
(* Moves that handlers share. *)

\* The handler has its answer.  Its transaction, if any, is over.
Answer(r, reply) ==
  req' = [req EXCEPT ![r] = [Idle EXCEPT !.phase = "done",
                                         !.command = req[r].command,
                                         !.reply = reply]]

Proceed(r, phase) == req' = [req EXCEPT ![r].phase = phase]

\* findCommandTx and replayCommand answer a command that is recorded with its
\* stored response, unless the key was used with another body.
Recorded(r) == commands[CommandId(req[r].command)] # None
AnswerRecorded(r) ==
  LET row == commands[CommandId(req[r].command)]
  IN Answer(r, IF row.hash = req[r].command.body
               THEN Success(row.response.order, row.response.history)
               ELSE Problem("idempotency_key_reused"))

-----------------------------------------------------------------------------
(* Receiving a command and the first look for its answer. *)

Receive(r, c) ==
  /\ req[r].phase = "idle"
  /\ received < MaxRequests
  /\ received' = received + 1
  /\ req' = [req EXCEPT ![r] = [Idle EXCEPT !.phase = "replay",
                                            !.command = c,
                                            !.order = c.order]]
  /\ UNCHANGED <<tables, nextSeq, clock>>

ReplayCommand(r) ==
  /\ req[r].phase = "replay"
  /\ IF Recorded(r) THEN AnswerRecorded(r)
     ELSE Proceed(r, IF IsCreate(r) THEN "prepare" ELSE "load")
  /\ UNCHANGED <<tables, nextSeq, clock, received>>

-----------------------------------------------------------------------------
(* Creating an order. *)

\* Identifiers are random: a new one is neither stored nor in any handler.
Fresh(o) == orders[o] = None /\ \A r \in Requests : req[r].order # o

\* What the request asks for may be refused for reasons that are not in the
\* model: the venue is unknown or closed, an item is missing or too expensive.
RefuseOrder(r) ==
  /\ req[r].phase = "prepare"
  /\ \E code \in {"invalid_request", "venue_not_found", "venue_closed",
                   "item_not_found", "item_unavailable"} :
       Answer(r, Problem(code))
  /\ UNCHANGED <<tables, nextSeq, clock, received>>

PrepareOrder(r) ==
  /\ req[r].phase = "prepare"
  /\ IF req[r].command.body.menuVersion # menuVersion[req[r].command.body.venue]
     THEN Answer(r, Problem("menu_version_mismatch")) /\ clock' = clock
     ELSE \E o \in Orders :
            /\ Fresh(o)
            /\ req' = [req EXCEPT ![r].phase = "find", ![r].order = o,
                                  ![r].at = clock]
            /\ clock' = clock + 1
  /\ UNCHANGED <<tables, nextSeq, received>>

FindCommandTx(r) ==
  /\ req[r].phase = "find"
  /\ IF Recorded(r) THEN AnswerRecorded(r) ELSE Proceed(r, "version")
  /\ UNCHANGED <<tables, nextSeq, clock, received>>

LockMenuVersion(r) ==
  /\ req[r].phase = "version"
  /\ IF req[r].command.body.menuVersion # menuVersion[req[r].command.body.venue]
     THEN Answer(r, Problem("menu_version_mismatch"))
     ELSE Proceed(r, "insert")
  /\ UNCHANGED <<tables, nextSeq, clock, received>>

\* INSERT ... ON CONFLICT DO NOTHING waits for an uncommitted twin; when a
\* twin is there, its recorded answer is the answer.
\* Variant: no unique index on the customer's key.
Twin_None(r, o) == FALSE

Twin(r, o) ==
  /\ orders[o] # None
  /\ orders[o].customer = req[r].command.subject
  /\ orders[o].createKey = req[r].command.key

InsertOrder(r) ==
  /\ req[r].phase = "insert"
  /\ \A s \in Requests :
       ~InsertsFor(s, req[r].command.subject, req[r].command.key)
  /\ IF \E o \in Orders : Twin(r, o)
     THEN /\ IF Recorded(r) THEN AnswerRecorded(r)
             ELSE Answer(r, Problem("internal_error"))
          /\ nextSeq' = nextSeq
     ELSE /\ req' = [req EXCEPT ![r].phase = "commit", ![r].seq = nextSeq]
          /\ nextSeq' = nextSeq + 1
  /\ UNCHANGED <<tables, clock, received>>

-----------------------------------------------------------------------------
(* Changing an order. *)

\* FindOrderForUser and FindOrderForVenue only see the subject's own orders.
\* Variant: the order is found by its identifier alone.
Visible_ToAll(c, o) == orders[o] # None

Visible(c, o) ==
  /\ orders[o] # None
  /\ c.subject = IF c.operation = "cancel_order" THEN orders[o].customer
                 ELSE orders[o].venue

Permits(c, status) ==
  CASE c.operation = "cancel_order" -> CanCancelOrder(status)
    [] c.operation \in {"accept_order", "reject_order"} ->
         status = "pending_confirmation"
    [] c.operation = "update_order_status" ->
         CanVenueAdvanceOrder(status, c.body.status)

\* Variant: any order that was once decided counts as accepted.
AlreadyAccepted_Decided(r) ==
  /\ req[r].command.operation = "accept_order"
  /\ Visible(req[r].command, req[r].order)
  /\ StatusOf(orders[req[r].order].history) # "pending_confirmation"

AlreadyAccepted(r) ==
  /\ req[r].command.operation = "accept_order"
  /\ Visible(req[r].command, req[r].order)
  /\ StatusOf(orders[req[r].order].history) = "accepted"

\* The checks a handler makes on the order it read, in their order.
Refusal(r) ==
  LET c == req[r].command
      o == req[r].order
  IN IF c.operation = "accept_order" /\ c.body.venueOrderID = None
       THEN "invalid_request"
     ELSE IF ~Visible(c, o) THEN "order_not_found"
     ELSE IF ~AlreadyAccepted(r) /\ ~Permits(c, StatusOf(orders[o].history))
       THEN "invalid_order_transition"
     ELSE None

RefuseCommand(r) ==
  /\ req[r].phase = "load"
  /\ Refusal(r) # None
  /\ Answer(r, Problem(Refusal(r)))
  /\ UNCHANGED <<tables, nextSeq, clock, received>>

\* A second accept with another key only compares the venue's identifier.
LoadAccepted(r) ==
  /\ req[r].phase = "load"
  /\ Refusal(r) = None
  /\ AlreadyAccepted(r)
  /\ req' = [req EXCEPT ![r].phase = "compare",
                        ![r].base = orders[req[r].order].history]
  /\ UNCHANGED <<tables, nextSeq, clock, received>>

CompareVenueOrderID(r) ==
  /\ req[r].phase = "compare"
  /\ Answer(r, IF orders[req[r].order].venueOrderID
                    = req[r].command.body.venueOrderID
               THEN Success(req[r].order, req[r].base)
               ELSE Problem("idempotency_key_reused"))
  /\ UNCHANGED <<tables, nextSeq, clock, received>>

\* The handler takes the time and prepares the change, holding no lock.
LoadOrder(r) ==
  /\ req[r].phase = "load"
  /\ Refusal(r) = None
  /\ ~AlreadyAccepted(r)
  /\ req' = [req EXCEPT ![r].phase = "lock",
                        ![r].base = orders[req[r].order].history,
                        ![r].at = clock]
  /\ clock' = clock + 1
  /\ UNCHANGED <<tables, nextSeq, received>>

\* Variant: the status is not compared again under the lock.
AsExpected_NotCompared(r) == TRUE

\* ExpectedStatus: the status the change was decided on.
AsExpected(r) ==
  StatusOf(orders[req[r].order].history) = StatusOf(req[r].base)

\* ApplyOrderCommand takes the row lock, looks for the command's answer again
\* and compares the status with the one the change was decided on.
LockOrder(r) ==
  /\ req[r].phase = "lock"
  /\ \A s \in Requests : ~LocksOrder(s, req[r].order)
  /\ IF Recorded(r) THEN AnswerRecorded(r)
     ELSE IF AsExpected(r) THEN Proceed(r, "update")
     ELSE Answer(r, Problem("invalid_order_transition"))
  /\ UNCHANGED <<tables, nextSeq, clock, received>>

\* UPDATE orders may find the venue's identifier on another order of the
\* venue; the event then draws its sequence number, before the commit.
VenueOrderIDTaken(r) ==
  /\ req[r].command.operation = "accept_order"
  /\ \E o \in Orders \ {req[r].order} :
       /\ orders[o] # None
       /\ orders[o].venue = req[r].command.subject
       /\ orders[o].venueOrderID = req[r].command.body.venueOrderID

UpdateOrder(r) ==
  /\ req[r].phase = "update"
  /\ req[r].command.operation = "accept_order" =>
       \A s \in Requests \ {r} :
         ~AssignsVenueOrderID(s, req[r].command.subject,
                              req[r].command.body.venueOrderID)
  /\ IF VenueOrderIDTaken(r)
     THEN Answer(r, Problem("internal_error")) /\ nextSeq' = nextSeq
     ELSE /\ req' = [req EXCEPT ![r].phase = "commit", ![r].seq = nextSeq]
          /\ nextSeq' = nextSeq + 1
  /\ UNCHANGED <<tables, clock, received>>

-----------------------------------------------------------------------------
(* The end of a transaction, of a handler, and the rest of the platform. *)

Row(r) ==
  LET c == req[r].command
      o == req[r].order
  IN IF IsCreate(r)
     THEN [customer |-> c.subject, venue |-> c.body.venue,
           createKey |-> c.key, venueOrderID |-> None, history |-> Draft(r)]
     ELSE [orders[o] EXCEPT
             !.venueOrderID = IF c.operation = "accept_order"
                              THEN c.body.venueOrderID ELSE @,
             !.history = Draft(r)]

\* The order, its event and the answer of the command become visible at once.
Write(r) ==
  LET c == req[r].command
      o == req[r].order
  IN /\ orders' = [orders EXCEPT ![o] = Row(r)]
     /\ journal' = journal \cup {[seq |-> req[r].seq, venue |-> Row(r).venue,
                                  order |-> o, history |-> Draft(r)]}
     /\ commands' = [commands EXCEPT ![CommandId(c)] =
                       [hash |-> c.body,
                        response |-> [order |-> o, history |-> Draft(r)]]]

Commit(r) ==
  /\ req[r].phase = "commit"
  /\ Write(r)
  /\ Answer(r, Success(req[r].order, Draft(r)))
  /\ UNCHANGED <<menuVersion, nextSeq, clock, received>>

\* The commit takes place and its acknowledgement is lost: the handler cannot
\* tell it from a failure.
CommitUnacknowledged(r) ==
  /\ req[r].phase = "commit"
  /\ Write(r)
  /\ Answer(r, Problem("internal_error"))
  /\ UNCHANGED <<menuVersion, nextSeq, clock, received>>

\* Any statement may fail.  The transaction rolls back; a sequence number it
\* drew is never used.
Fail(r) ==
  /\ req[r].phase \in Active
  /\ Answer(r, Problem("internal_error"))
  /\ UNCHANGED <<tables, nextSeq, clock, received>>

Respond(r) ==
  /\ req[r].phase = "done"
  /\ req' = [req EXCEPT ![r] = Idle]
  /\ UNCHANGED <<tables, nextSeq, clock, received>>

\* SaveMenuSnapshot publishes a newer menu under FOR UPDATE on the venue.
SyncMenu(v) ==
  /\ menuVersion[v] < MaxMenuVersion
  /\ \A r \in Requests : ~SharesVenue(r, v)
  /\ menuVersion' = [menuVersion EXCEPT ![v] = @ + 1]
  /\ UNCHANGED <<orders, commands, journal, nextSeq, clock, received, req>>

-----------------------------------------------------------------------------
Create(r) ==
  \/ RefuseOrder(r) \/ PrepareOrder(r) \/ FindCommandTx(r)
  \/ LockMenuVersion(r) \/ InsertOrder(r)

Change(r) ==
  \/ RefuseCommand(r) \/ LoadAccepted(r) \/ CompareVenueOrderID(r)
  \/ LoadOrder(r) \/ LockOrder(r) \/ UpdateOrder(r)

\* What a handler does of its own accord.
Step(r) ==
  \/ ReplayCommand(r) \/ Create(r) \/ Change(r)
  \/ Commit(r) \/ CommitUnacknowledged(r) \/ Respond(r)

Next ==
  \/ \E r \in Requests : Step(r) \/ Fail(r) \/ \E c \in Commands : Receive(r, c)
  \/ \E v \in Venues : SyncMenu(v)

Spec == Init /\ [][Next]_vars

\* The scheduler runs every handler, and PostgreSQL serves those that wait
\* for a lock in turn: no handler is passed over for ever.
Fairness == \A r \in Requests : SF_vars(Step(r))
FairSpec == Spec /\ Fairness
=============================================================================
