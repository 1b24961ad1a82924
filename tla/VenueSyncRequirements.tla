----------------------- MODULE VenueSyncRequirements -----------------------
(***************************************************************************)
(* What the venue's read model owes the kitchen, in terms of the platform's *)
(* orders and of VenueSync's worker and operators.                          *)
(***************************************************************************)
EXTENDS VenueSync

Events == 1 .. Len(journal)

\* The type of every variable.
TypeOK ==
  /\ history \in [Orders -> Seq(Status)]
  /\ DOMAIN answer = Orders \X Status
  /\ journal \in Seq([order : Orders, version : Nat, seq : 1 .. drawn, at : Int])
  /\ drawn \in 0 .. MaxEvents
  /\ holds \in [Orders -> {None} \cup [status : Status, seq : 1 .. drawn]]
  /\ product \in [Orders -> {None, "seed", "venue"}]
  /\ menu \in {"seed", "venue"}
  /\ late \subseteq Orders \X Status
  /\ mapped \subseteq {"seed", "venue"}
  /\ local \in [Orders -> {None} \cup [status : Status, at : Int]]
  /\ cursor \in 0 .. drawn
  /\ pending \subseteq Events /\ processed \subseteq Events
  /\ passed \subseteq Events
  /\ worker \in [phase : {"idle", "retry", "page"}, todo : SUBSET Events,
                 saving : {0} \cup Events, next : 0 .. drawn]
  /\ op \in [Operators ->
       [phase : {"idle", "call", "save"}, order : Orders \cup {None},
        at : Int, status : Status \cup {None}]]
  /\ restarts \in 0 .. MaxRestarts

-----------------------------------------------------------------------------
(* Safety. *)

\* The kitchen never sees a status that the platform did not give the order:
\* the operator's change is kept only after the platform confirmed it, however
\* late, repeated or lost the calls were.
KitchenStatusIsReal ==
  \A o \in Orders : local[o] # None =>
    \E n \in DOMAIN history[o] : history[o][n] = local[o].status

\* Where the clock advances, an order whose updatedAt is not before the
\* platform's newest shows the platform's status: whatever else the kitchen
\* shows, an operator's write over a snapshot in particular, is stamped as
\* older, so that the next event of the order can still replace it.
NewestStampIsTrue ==
  \A o \in Orders :
    /\ local[o] # None
    /\ local[o].at >= LastAt(o)
    => local[o].status = Last(history[o])

\* The venue had read a later number, of another order, before the event with
\* its earlier number was committed.
Overtaken(i) ==
  \E j \in processed \cup pending \cup worker.todo :
    /\ j < i /\ journal[j].seq > journal[i].seq
    /\ journal[j].order # journal[i].order

\* An event behind the cursor is queued for another try, or done with and its
\* order is in the kitchen, or it was committed only when the cursor or the
\* page under way had passed its number.  That happens to no event but one
\* that an event of another order overtook: what fails to apply is not
\* forgotten, no event is marked as done in vain, and the venue itself skips
\* nothing that was there to be read.
CursorPassesNothing ==
  /\ \A i \in Events \ Unread :
       \/ i \in pending
       \/ i \in processed /\ local[journal[i].order] # None
       \/ i \in passed
  /\ \A i \in passed : Overtaken(i)

\* An event that the worker takes up is always news: not processed before,
\* and newer than what the kitchen has of its order, although operators write
\* the same orders.  The mark of processed events and the comparison of times
\* never drop a change as long as updatedAt grows along the journal.
EveryEventIsNews ==
  worker.saving = 0 => \A e \in Upcoming :
    /\ e \notin processed
    /\ Newer(journal[e])

\* Nothing is going on between the venue and the platform, except that the
\* platform may be in the middle of further changes.
Quiet ==
  /\ Unread = {} /\ pending = {}
  /\ worker.phase = "idle"
  /\ \A p \in Operators : op[p].phase = "idle"
  /\ late = {}

\* The events of an order that the venue can read, or could since it started.
Readable(o) == {i \in Events \ passed : journal[i].order = o}

\* When nothing is going on, every order of the platform is in the kitchen,
\* with or without operators who write it and whatever the clock did, unless
\* every one of its events was committed behind the cursor.
EveryOrderIsThere ==
  Quiet => \A o \in Orders : Readable(o) # {} => local[o] # None

\* The event has the newest updatedAt that the venue can read of its order: it
\* is the last one as long as the clock advances.  A change that the clock put
\* before or level with another one is lost on the kitchen.
IsNewest(i) ==
  \A j \in Readable(journal[i].order) : journal[j].at <= journal[i].at

\* When nothing is going on, the read model shows every order as an event with
\* the newest time shows it, unless every one of its events was committed
\* behind the cursor: the platform's own status, unless the clock slipped or
\* the last event was passed, and then again from the order's next event or
\* the venue's next start on.  Checked where every reply to an operator is
\* lost, so that the worker alone writes the read model: retries, pages,
\* restarts and orders that move while a page is handled never leave the
\* kitchen with less.
ConvergedWhenQuiet ==
  Quiet => \A o \in Orders : Readable(o) # {} =>
    \E i \in Readable(o) : IsNewest(i) /\ local[o] = Snapshot(journal[i])

\* README.md: the venue receives the cancellation and stops its processing.
\* An operator's request that started before can write its own status over it
\* afterwards, and no event is left to correct that.
CancellationSticks ==
  Quiet => \A o \in Orders : local[o] # None /\ Last(history[o]) = "cancelled"
             => local[o].status = "cancelled"

-----------------------------------------------------------------------------
(* Liveness. *)

\* A cancellation that the venue can still read reaches the kitchen in the end
\* when the order was placed on the venue's own menu and its time is after that
\* of the changes before it: lost calls, failing pages, restarts and slips of
\* the clock between other changes only delay it.  One that was committed
\* behind the cursor gets there if the venue starts again.
CancellationArrives ==
  \A o \in Orders :
    /\ product[o] = "venue"
    /\ \E i \in Readable(o) :
         /\ Snapshot(journal[i]).status = "cancelled"
         /\ \A j \in Events \ {i} :
              journal[j].order = o => journal[j].at < journal[i].at
    ~> local[o] # None /\ local[o].status = "cancelled"

\* docs/contract-decisions.md: an event that fails for the moment waits in the
\* retry queue, and the journal brings every order to the venue.  An order on
\* the menu that was published before the venue's own never gets there: its
\* products are in no mapping the venue is ever sent.
EveryOrderArrives ==
  \A o \in Orders : history[o] # <<>> ~> local[o] # None
=============================================================================
