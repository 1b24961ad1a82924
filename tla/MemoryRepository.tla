-------------------------- MODULE MemoryRepository --------------------------
(***************************************************************************)
(* The two repositories behind the order commands and the journal: the      *)
(* PostgreSQL one of OrderCommands, and the one in memory that the tests of *)
(* the service and of the handlers run on.  The handlers are the same; in   *)
(* memory a whole repository call happens under one mutex, and never fails. *)
(***************************************************************************)
EXTENDS EventFeed

VARIABLE store   \* the repository that is behind the service

storeVars == <<feedVars, store>>

StoreInit == FeedInit /\ store \in {"postgres", "memory"}

-----------------------------------------------------------------------------
(* The calls that write, in memory. *)

\* Variant: the sequence number is not advanced for changes.
AppendEvent_SameNumber(r) ==
  LET seq == IF IsCreate(r) THEN nextSeq ELSE nextSeq - 1
  IN /\ journal' = journal \cup {[seq |-> seq, venue |-> Row(r).venue,
                                  order |-> req[r].order, history |-> Draft(r)]}
     /\ nextSeq' = seq + 1

\* The event gets the next sequence number.
AppendEvent(r) ==
  /\ journal' = journal \cup {[seq |-> nextSeq, venue |-> Row(r).venue,
                               order |-> req[r].order, history |-> Draft(r)]}
  /\ nextSeq' = nextSeq + 1

\* Order, event and answer are written one after the other under the mutex.
WriteInMemory(r) ==
  LET c == req[r].command
      o == req[r].order
  IN /\ orders' = [orders EXCEPT ![o] = Row(r)]
     /\ AppendEvent(r)
     /\ commands' = [commands EXCEPT ![CommandId(c)] =
                       [hash |-> c.body,
                        response |-> [order |-> o, history |-> Draft(r)]]]
     /\ Answer(r, Success(o, Draft(r)))
     /\ UNCHANGED <<menuVersion, clock, received>>

Rejected(r, reply) ==
  Answer(r, reply) /\ UNCHANGED <<tables, nextSeq, clock, received>>

\* What both calls begin with.
Repeated(r) ==
  /\ Recorded(r)
  /\ AnswerRecorded(r)
  /\ UNCHANGED <<tables, nextSeq, clock, received>>

\* No other check on the order: the customer's key is in the command's.
CreateOrderCommand(r) ==
  /\ req[r].phase = "find"
  /\ \/ Repeated(r)
     \/ /\ ~Recorded(r)
        /\ LET body == req[r].command.body
           IN IF menuVersion[body.venue] # body.menuVersion
              THEN Rejected(r, Problem("menu_version_mismatch"))
              ELSE WriteInMemory(r)

\* Variant: the status is not compared again.
ApplyOrderCommand_NotCompared(r) ==
  /\ req[r].phase = "lock"
  /\ Repeated(r) \/ (~Recorded(r) /\ WriteInMemory(r))

\* The venue's identifier is kept without a look at the venue's other orders.
ApplyOrderCommand(r) ==
  /\ req[r].phase = "lock"
  /\ \/ Repeated(r)
     \/ /\ ~Recorded(r)
        /\ IF AsExpected(r) THEN WriteInMemory(r)
           ELSE Rejected(r, Problem("invalid_order_transition"))

-----------------------------------------------------------------------------
\* The calls that only read, and what a handler does between its calls, are the
\* same in both.
MemoryStep(r) ==
  \/ ReplayCommand(r) \/ RefuseOrder(r) \/ PrepareOrder(r)
  \/ RefuseCommand(r) \/ LoadAccepted(r) \/ CompareVenueOrderID(r)
  \/ LoadOrder(r) \/ CreateOrderCommand(r) \/ ApplyOrderCommand(r)
  \/ Respond(r) \/ \E c \in Commands : Receive(r, c)

MemoryNext ==
  \/ \E r \in Requests : MemoryStep(r)
  \/ \E v \in Venues : SyncMenu(v)

StoreNext ==
  /\ \/ store = "postgres" /\ Next /\ UNCHANGED <<cursor, delivered>>
     \/ store = "memory" /\ MemoryNext /\ UNCHANGED <<cursor, delivered>>
     \/ \E v \in Venues : Poll(v) \/ Forget(v)
  /\ store' = store

StoreSpec == StoreInit /\ [][StoreNext]_storeVars

-----------------------------------------------------------------------------
(* Properties of the two. *)

\* In memory a number shows as soon as it is drawn, so that no cursor passes an
\* event: what NoEventIsSkipped says of PostgreSQL no test of the service that
\* runs on the memory can show.
MemorySkipsNothing == store = "memory" => NoEventIsSkipped

\* The memory keeps the promise of the database: each of its calls is one step
\* of the abstract order book, or leaves orders and answers alone.
MemoryKeepsTheBook ==
  [][store = "memory" => UNCHANGED <<orders, commands>> \/ Book!Next]_storeVars

\* Of the two only PostgreSQL keeps a venue's identifiers apart, by its unique
\* index; the memory takes one identifier for two orders.
IndexKeepsIDsApart == store = "postgres" => VenueOrderIDsDiffer
=============================================================================
