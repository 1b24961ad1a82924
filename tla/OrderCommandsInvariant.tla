----------------------- MODULE OrderCommandsInvariant -----------------------
(***************************************************************************)
(* Why the safety properties of OrderCommands hold: an inductive invariant, *)
(* in parts that each say what the handlers may rely on.                    *)
(***************************************************************************)
EXTENDS OrderCommandsRequirements

\* A handler that is past the look at the menu has its order's identifier.
Creating(r) ==
  req[r].phase \in {"find", "version", "insert", "commit"} /\ IsCreate(r)

\* A handler that decided on a change and has not finished it.
Changing(r) ==
  req[r].phase \in {"lock", "update", "commit"} /\ ~IsCreate(r)

Holds(r) == req[r].phase \in {"update", "commit"} /\ ~IsCreate(r)

\* Every handler works on a command that was sent, on the path of its kind;
\* an order that a change was decided on stays in the table.
Fits(r) ==
  /\ req[r].phase # "idle" => req[r].command \in Commands
  /\ req[r].phase \in {"prepare", "find", "version", "insert"} => IsCreate(r)
  /\ req[r].phase \in {"load", "compare", "lock", "update"} => ~IsCreate(r)
  /\ req[r].phase \in Active /\ ~IsCreate(r) =>
       req[r].order \in Orders /\ req[r].order = req[r].command.order
  /\ req[r].phase \in Active /\ IsCreate(r) => req[r].base = <<>>
  /\ Creating(r) => req[r].order \in Orders
  /\ Changing(r) => orders[req[r].order] # None

PathsFit == \A r \in Requests : Fits(r)

\* The identifier of an order that is being created is nobody else's.
NewOrdersAreNew ==
  \A r \in Requests : Creating(r) =>
    /\ orders[req[r].order] = None
    /\ \A s \in Requests \ {r} : Creating(s) => req[s].order # req[r].order

\* The row lock of an order has one holder.
OneHolder ==
  \A r, s \in Requests :
    Holds(r) /\ Holds(s) /\ req[r].order = req[s].order => r = s

\* Along a history the rank grows, so that no status comes back.
Ascends(h) ==
  \A i, j \in 1 .. Len(h) : i < j => Rank(h[i].status) < Rank(h[j].status)

HistoriesAscend ==
  \A o \in Orders : orders[o] # None =>
    /\ orders[o].history # <<>>
    /\ Ascends(orders[o].history)

\* A change was decided on a past of its order that still holds, and under
\* the row lock on the whole of it.
Grounded(r) ==
  LET history == orders[req[r].order].history
  IN /\ req[r].base # <<>>
     /\ IsPrefix(req[r].base, history)
     /\ Permits(req[r].command, StatusOf(req[r].base))
     /\ Holds(r) => req[r].base = history

ChangesAreGrounded == \A r \in Requests : Changing(r) => Grounded(r)

GroundInv ==
  /\ TypeOK /\ PathsFit /\ NewOrdersAreNew /\ OneHolder
  /\ HistoriesAscend /\ ChangesAreGrounded /\ LegalHistories

-----------------------------------------------------------------------------
(* What the tables say of each other. *)

\* The order a command is about: the one it made, or the one that it names
\* and that its subject may see.
Concerns(c, o) ==
  /\ o \in Orders /\ orders[o] # None
  /\ IF c.operation = "create_order"
     THEN orders[o].customer = c.subject /\ orders[o].createKey = c.key
     ELSE c.order = o /\ Visible(c, o)

\* An order as it was at some moment, in the status the command asked for.
IsOutcome(c, o, h) ==
  /\ Concerns(c, o)
  /\ h \in History /\ h # <<>> /\ IsPrefix(h, orders[o].history)
  /\ StatusOf(h) = Target(c)

\* A recorded answer is the outcome of a command with that key and that body.
RecordsAreTrue ==
  \A id \in RecordedIds : \E c \in Commands :
    /\ CommandId(c) = id /\ c.body = commands[id].hash
    /\ IsOutcome(c, commands[id].response.order, commands[id].response.history)

\* An event has a number of its own, of those that were drawn, and an order.
EventsAreNumbered ==
  /\ nextSeq >= 1 /\ IsFiniteSet(journal)
  /\ \A e \in journal :
       /\ e.seq \in 1 .. nextSeq - 1
       /\ orders[e.order] # None /\ e.history # <<>>
  /\ \A e, f \in journal : e.seq = f.seq => e = f

\* Along a history the time grows, and all of it has passed.
Before(h, time) == \A i \in 1 .. Len(h) : h[i].changedAt < time
Timed(h) ==
  \A i, j \in 1 .. Len(h) : i < j => h[i].changedAt < h[j].changedAt
TimesIncrease ==
  \A o \in Orders : orders[o] # None =>
    Timed(orders[o].history) /\ Before(orders[o].history, clock)

TablesAgree ==
  /\ RecordsAreTrue /\ CreateKeyNamesOrder
  /\ EventsAreNumbered /\ JournalTellsHistory /\ TimesIncrease

-----------------------------------------------------------------------------
(* What a handler may rely on for its part. *)

\* FOR SHARE: the menu that was compared with the order's stays published.
OnCurrentMenu(r) ==
  req[r].phase \in {"insert", "commit"} /\ IsCreate(r) =>
    req[r].command.body.menuVersion = menuVersion[req[r].command.body.venue]

\* The order that was found for a subject stays the subject's.
OwnsOrder(r) == Changing(r) => Visible(req[r].command, req[r].order)

SawOutcome(r) ==
  req[r].phase = "compare" =>
    IsOutcome(req[r].command, req[r].order, req[r].base)

\* The command has no answer as long as its order is locked for it, and its
\* key no order as long as it is inserting one.
NotRecorded(r) == Holds(r) => ~Recorded(r)
KeyIsFree(r) ==
  req[r].phase = "commit" /\ IsCreate(r) => \A o \in Orders : ~Twin(r, o)

\* The number that was drawn is later than all events of the order.
NumberIsLater(seq, o) ==
  \A e \in journal : e.seq # seq /\ (e.order = o => e.seq < seq)
DrewNumber(r) ==
  req[r].phase = "commit" =>
    req[r].seq \in 1 .. nextSeq - 1 /\ NumberIsLater(req[r].seq, req[r].order)

\* The time was taken after every change the decision was based on.
TookTime(r) ==
  Creating(r) \/ Changing(r) =>
    req[r].at < clock /\ Before(req[r].base, req[r].at)

AnswerIsTrue(r) ==
  Succeeded(r) =>
    /\ req[r].reply \in [code : {"ok"}, order : Orders, history : History]
    /\ IsOutcome(req[r].command, req[r].reply.order, req[r].reply.history)

Ready(r) ==
  /\ OnCurrentMenu(r) /\ OwnsOrder(r) /\ SawOutcome(r) /\ NotRecorded(r)
  /\ KeyIsFree(r) /\ DrewNumber(r) /\ TookTime(r) /\ AnswerIsTrue(r)
HandlersAreReady == \A r \in Requests : Ready(r)

\* Handlers that are about to commit have different numbers, and no two of
\* them insert for one key.
WritersDiffer ==
  \A r, s \in Requests :
    /\ r # s /\ req[r].phase = "commit" /\ req[s].phase = "commit"
    => /\ req[r].seq # req[s].seq
       /\ IsCreate(r) => ~InsertsFor(s, req[r].command.subject,
                                     req[r].command.key)

RecordInv == TablesAgree /\ HandlersAreReady /\ WritersDiffer

-----------------------------------------------------------------------------
(* What the unique index on the identifiers of a venue is relied on for. *)

Assigns(r) == req[r].phase = "commit" /\ req[r].command.operation = "accept_order"

\* An identifier that is about to be committed is one, no order of the venue
\* has it, and no other handler is about to commit it.
AssignsNewID(r) ==
  Assigns(r) =>
    /\ ~VenueOrderIDTaken(r)
    /\ \A s \in Requests \ {r} :
         ~AssignsVenueOrderID(s, req[r].command.subject,
                              req[r].command.body.venueOrderID)
AcceptsNameIDs ==
  \A r \in Requests :
    Changing(r) /\ req[r].command.operation = "accept_order" =>
      req[r].command.body.venueOrderID # None

IndexInv ==
  /\ VenueOrderIDsDiffer /\ AcceptsNameIDs
  /\ \A r \in Requests : AssignsNewID(r)

IInv == GroundInv /\ RecordInv /\ IndexInv
=============================================================================
