----------------------------- MODULE VenueSync -----------------------------
(***************************************************************************)
(* The venue service against the platform: the sync worker, which pulls the *)
(* platform's journal into the kitchen's read model, and the operators, who *)
(* change an order through the platform first and locally afterwards.  Both *)
(* use the in-memory repository, which locks each call and nothing longer.  *)
(*                                                                          *)
(* The platform is the abstract OrderBook that OrderCommands implements,    *)
(* with the transactions that write its journal: a change draws the number  *)
(* of its event under the lock of its order's row and shows it when it      *)
(* commits, so changes of two orders may show in another order than that of *)
(* their numbers.  A change carries updatedAt, one more than the change     *)
(* before it: JournalTimesIncrease of OrderCommandsRequirements allows      *)
(* that for a clock that advances.  A clock that stands still or is set     *)
(* back between two changes of an order is a slip.                          *)
(***************************************************************************)
EXTENDS OrderLifecycle, Integers, FiniteSets, FiniteSetsExt

CONSTANTS
  Orders,       \* orders, named alike on both sides (venueOrderID is derived)
  Operators,    \* HTTP requests to the venue that run at the same time
  None,         \* the absent value
  PageLimit,    \* events in a page of the journal
  MaxRestarts,  \* bound: how often the venue restarts
  MaxLate,      \* bound: commands on their way that nobody waits for
  MaxSlips,     \* bound: how often the platform's clock slips
  MaxEvents,    \* bound: how many numbers of events are drawn
  RepliesArrive \* FALSE: every reply to an operator is lost

VARIABLES
  history,      \* platform: the statuses of each order
  answer,       \* platform: the recorded answers of the commands
  journal,      \* platform: the events as they were committed, each with its
                \*   order, the order's version, sequence number and updatedAt
  drawn,        \* platform: the sequence number drawn last
  holds,        \* platform: per order, the transaction that holds its row
  product,      \* platform: the menu whose products the order names
  menu,         \* platform: the menu that is published
  late,         \* commands that a venue gave up on, still on their way
  mapped,       \* venue: the menus whose products it can translate
  local,        \* venue: the kitchen's read model
  cursor,       \* venue: position in the journal
  pending,      \* venue: events to try again
  processed,    \* venue: events that need no more work
  passed,       \* auxiliary: events committed at a place the venue had read past
  worker,       \* venue: the sync worker
  op,           \* venue: the operators' requests
  restarts      \* restarts of the venue so far

platform == <<history, answer, journal, drawn, holds, product, menu>>
readModel == <<mapped, local, cursor, pending, processed, passed>>
vars == <<platform, late, readModel, worker, op, restarts>>

ASSUME PageLimitPositive == PageLimit \in Nat \ {0}
ASSUME BoundsType ==
  MaxRestarts \in Nat /\ MaxLate \in Nat /\ MaxSlips \in Nat
  /\ MaxEvents \in Nat /\ RepliesArrive \in BOOLEAN
ASSUME NoneIsNoOrder == None \notin [status : Status, at : Int]

\* One client key per order and status: the customer's for the create and the
\* cancel, the venue's "venue-accept-<order>" and "venue-status-<order>-<status>".
Platform == INSTANCE OrderBook WITH
  CommandIds <- Orders \X Status, Unanswered <- None

Asleep == [phase |-> "idle", todo |-> {}, saving |-> 0, next |-> 0]
NoCall == [phase |-> "idle", order |-> None, at |-> 0, status |-> None]
Unseen == [o \in Orders |-> None]

Init ==
  /\ Platform!Init
  /\ journal = <<>> /\ drawn = 0
  /\ holds = [o \in Orders |-> None]
  /\ product = [o \in Orders |-> None]
  /\ menu = "seed"
  /\ late = {}
  /\ mapped = {} /\ local = Unseen
  /\ cursor = 0 /\ pending = {} /\ processed = {} /\ passed = {}
  /\ worker = Asleep
  /\ op = [p \in Operators |-> NoCall]
  /\ restarts = 0

-----------------------------------------------------------------------------
(* The platform. *)

\* The event of an order's n-th change, and the time of its last one.
EventOf(o, n) ==
  journal[CHOOSE i \in DOMAIN journal :
            journal[i].order = o /\ journal[i].version = n]
LastAt(o) == IF history[o] = <<>> THEN 0 ELSE EventOf(o, Len(history[o])).at
Slips ==
  Cardinality({i \in DOMAIN journal : \E j \in 1 .. i - 1 :
                 /\ journal[j].order = journal[i].order
                 /\ journal[j].version + 1 = journal[i].version
                 /\ journal[j].at >= journal[i].at})

\* How far the venue has read: to the cursor, or to the end of its page.
Reached == IF worker.phase = "page" THEN worker.next ELSE cursor

\* A command that is new and legal takes the row of its order, for a create
\* the new one, and draws the number of its event.
Begin(o, status) ==
  /\ holds[o] = None
  /\ answer[<<o, status>>] = None
  /\ MayFollow(history[o], status)
  /\ drawn < MaxEvents
  /\ drawn' = drawn + 1
  /\ holds' = [holds EXCEPT ![o] = [status |-> status, seq |-> drawn + 1]]
  /\ UNCHANGED <<history, answer, journal, product, menu>>

PlaceOrder(o) ==
  /\ Begin(o, "pending_confirmation")
  /\ UNCHANGED <<late, readModel, worker, op, restarts>>

CancelOrder(o) ==
  /\ history[o] # <<>> /\ CanCancelOrder(Last(history[o]))
  /\ Begin(o, "cancelled")
  /\ UNCHANGED <<late, readModel, worker, op, restarts>>

\* The change, its answer and its event show at once.  A new order names the
\* products of the published menu, which its transaction kept from changing.
Commit(o) ==
  /\ holds[o] # None
  /\ Platform!Execute(<<o, holds[o].status>>, o, holds[o].status)
  /\ product' = IF history[o] = <<>> THEN [product EXCEPT ![o] = menu]
                                     ELSE product
  /\ \E tick \in IF history[o] # <<>> /\ Slips < MaxSlips THEN -1 .. 1 ELSE {1} :
       journal' = Append(journal, [order |-> o, version |-> Len(history'[o]),
                                   seq |-> holds[o].seq, at |-> LastAt(o) + tick])
  /\ passed' = IF holds[o].seq > Reached THEN passed
               ELSE passed \cup {Len(journal')}
  /\ holds' = [holds EXCEPT ![o] = None]
  /\ UNCHANGED <<drawn, menu, late, mapped, local, cursor, pending, processed,
                 worker, op, restarts>>

\* The number of a change that fails is never used.
RollBack(o) ==
  /\ holds[o] # None
  /\ holds' = [holds EXCEPT ![o] = None]
  /\ UNCHANGED <<history, answer, journal, drawn, product, menu, late, readModel,
                 worker, op, restarts>>

\* A command arrives although its sender gave up: it acts, or it is replayed,
\* refused or lost.
LateCommand(o, status) ==
  /\ <<o, status>> \in late
  /\ late' = late \ {<<o, status>>}
  /\ Begin(o, status) \/ UNCHANGED platform
  /\ UNCHANGED <<readModel, worker, op, restarts>>

-----------------------------------------------------------------------------
(* Operators: UpdateOrderStatus. *)

\* The request reads the order and checks the move on what it read.
StartUpdate(p, o, status) ==
  /\ op[p].phase = "idle"
  /\ local[o] # None
  /\ CanChangeOrderStatus(local[o].status, status)
  /\ op' = [op EXCEPT ![p] = [phase |-> "call", order |-> o, status |-> status,
                              at |-> local[o].at]]
  /\ UNCHANGED <<platform, late, readModel, worker, restarts>>

\* The request's command arrives, once more if net/http repeats it.
Arrive(p) ==
  /\ op[p].phase = "call"
  /\ Begin(op[p].order, op[p].status)
  /\ UNCHANGED <<late, readModel, worker, op, restarts>>

\* The platform answers a command that took effect, first or in a replay.
Confirmed(p) ==
  /\ op[p].phase = "call" /\ RepliesArrive
  /\ answer[<<op[p].order, op[p].status>>] # None
  /\ op' = [op EXCEPT ![p].phase = "save"]
  /\ UNCHANGED <<platform, late, readModel, worker, restarts>>

\* Variant: the local order changes although the platform did not answer.
NotConfirmed_Kept(p) ==
  /\ op[p].phase = "call"
  /\ op' = [op EXCEPT ![p].phase = "save"]
  /\ UNCHANGED <<platform, late, readModel, worker, restarts>>

\* The platform refuses, cannot be reached, answers with an error, or answers
\* too late: the request fails with platform_unavailable in every case, and
\* its command may still be on the way.
NotConfirmed(p) ==
  /\ op[p].phase = "call"
  /\ late' \in {late, late \cup {<<op[p].order, op[p].status>>}}
  /\ Cardinality(late') <= MaxLate
  /\ op' = [op EXCEPT ![p] = NoCall]
  /\ UNCHANGED <<platform, readModel, worker, restarts>>

\* Variant: only the status of what is there by now is replaced.
SaveConfirmed_StatusOnly(p) ==
  /\ op[p].phase = "save"
  /\ local' = [local EXCEPT ![op[p].order].status = op[p].status]
  /\ op' = [op EXCEPT ![p] = NoCall]
  /\ UNCHANGED <<platform, late, mapped, cursor, pending, processed, passed,
                 worker, restarts>>

\* Variant: the copy is stamped with the time of the request.
SaveConfirmed_Stamped(p) ==
  /\ op[p].phase = "save"
  /\ local' = [local EXCEPT ![op[p].order] =
                 [status |-> op[p].status, at |-> op[p].at + 1]]
  /\ op' = [op EXCEPT ![p] = NoCall]
  /\ UNCHANGED <<platform, late, mapped, cursor, pending, processed, passed,
                 worker, restarts>>

\* SaveOrder replaces the whole order by the copy the request has held since
\* it started, updatedAt included.
SaveConfirmed(p) ==
  /\ op[p].phase = "save"
  /\ local' = [local EXCEPT ![op[p].order] =
                 [status |-> op[p].status, at |-> op[p].at]]
  /\ op' = [op EXCEPT ![p] = NoCall]
  /\ UNCHANGED <<platform, late, mapped, cursor, pending, processed, passed,
                 worker, restarts>>

-----------------------------------------------------------------------------
(* The worker: SyncWithPlatform. *)

\* An order that is being created holds the menu's row.
MenuIsFree == \A o \in Orders : holds[o] # None => history[o] # <<>>

\* The venue's menu is published and the mapping of its products learned;
\* either or both may fail, and the cycle goes on with the retry queue.
PushMenu ==
  /\ worker.phase = "idle"
  /\ \/ /\ MenuIsFree /\ menu' = "venue"
        /\ mapped' \in {mapped, mapped \cup {"venue"}}
     \/ UNCHANGED <<menu, mapped>>
  /\ worker' = [worker EXCEPT !.phase = "retry", !.todo = pending]
  /\ UNCHANGED <<history, answer, journal, drawn, holds, product, late, local,
                 cursor, pending, processed, passed, op, restarts>>

\* The committed events after the cursor, and the first of them by number.
Unread == {i \in DOMAIN journal : journal[i].seq > cursor}
Page ==
  {i \in Unread :
     Cardinality({j \in Unread : journal[j].seq < journal[i].seq}) < PageLimit}

\* Variant: the cursor moves by a whole page, however many events there are.
Pull_ByOffset ==
  /\ worker.phase = "retry" /\ worker.todo = {}
  /\ worker' = [worker EXCEPT !.phase = "page", !.todo = Page,
                              !.next = cursor + PageLimit]
  /\ UNCHANGED <<platform, late, readModel, op, restarts>>

\* PullOrderEvents: the next page after the cursor, and its last number.
Pull ==
  /\ worker.phase = "retry" /\ worker.todo = {}
  /\ worker' = [worker EXCEPT !.phase = "page", !.todo = Page,
                  !.next = Max({cursor} \cup {journal[i].seq : i \in Page})]
  /\ UNCHANGED <<platform, late, readModel, op, restarts>>

PullFails ==
  /\ worker.phase = "retry" /\ worker.todo = {}
  /\ worker' = Asleep
  /\ UNCHANGED <<platform, late, readModel, op, restarts>>

\* The events that may be handled next: those of a page by their numbers,
\* those of the retry queue from the oldest on, where events with one time are
\* in no particular order.
NotAfter(e, f) ==
  IF worker.phase = "page" THEN journal[e].seq <= journal[f].seq
                           ELSE journal[e].at <= journal[f].at
Upcoming == {e \in worker.todo : \A f \in worker.todo : NotAfter(e, f)}

Done(e) == worker' = [worker EXCEPT !.todo = @ \ {e}, !.saving = 0]

Settle(e) == /\ processed' = processed \cup {e}
             /\ pending' = pending \ {e}
             /\ Done(e)

\* Variant: an event that cannot be mapped is dropped.
Postpone_Dropped(e) == Done(e) /\ UNCHANGED <<pending, processed>>

\* toVenueOrder fails: the event waits in the retry queue.
Postpone(e) == /\ pending' = pending \cup {e}
               /\ Done(e)
               /\ UNCHANGED processed

\* Variant: an order that is there is never replaced.
Newer_OnlyFirst(e) == local[e.order] = None

\* The snapshot counts only if its updatedAt is after that of the read model,
\* or there is no order yet.
Newer(e) == local[e.order] = None \/ local[e.order].at < e.at

\* The next event of a page or of the retry queue: skipped if it is marked as
\* processed, postponed if its products are unknown, settled if it is stale;
\* else the order is saved in a step of its own, as an operator may save first.
ProcessEvent(e) ==
  /\ worker.saving = 0
  /\ IF worker.phase = "page" /\ e \in processed
       THEN Done(e) /\ UNCHANGED <<pending, processed>>
     ELSE IF product[journal[e].order] \notin mapped THEN Postpone(e)
     ELSE IF Newer(journal[e])
       THEN /\ worker' = [worker EXCEPT !.saving = e]
            /\ UNCHANGED <<pending, processed>>
     ELSE Settle(e)
  /\ UNCHANGED <<platform, late, mapped, local, cursor, passed, op, restarts>>

\* The order as the event shows it.
Snapshot(e) == [status |-> history[e.order][e.version], at |-> e.at]

SaveSnapshot ==
  /\ worker.saving # 0
  /\ LET e == journal[worker.saving]
     IN local' = [local EXCEPT ![e.order] = Snapshot(e)]
  /\ Settle(worker.saving)
  /\ UNCHANGED <<platform, late, mapped, cursor, passed, op, restarts>>

\* Variant: the next page starts one event too late.
SaveCursor_OneTooFar ==
  /\ worker.phase = "page" /\ worker.todo = {}
  /\ cursor' = worker.next + 1
  /\ worker' = Asleep
  /\ UNCHANGED <<platform, late, mapped, local, pending, processed, passed, op,
                 restarts>>

\* The cursor moves past the page, whatever became of its events.
SaveCursor ==
  /\ worker.phase = "page" /\ worker.todo = {}
  /\ cursor' = worker.next
  /\ worker' = Asleep
  /\ UNCHANGED <<platform, late, mapped, local, pending, processed, passed, op,
                 restarts>>

\* Everything the venue knows is in memory, the platform's transactions are not.
Restart ==
  /\ restarts < MaxRestarts
  /\ restarts' = restarts + 1
  /\ \E sent \in SUBSET {<<op[p].order, op[p].status>> :
                          p \in {q \in Operators : op[q].phase = "call"}} :
       late' = late \cup sent /\ Cardinality(late') <= MaxLate
  /\ mapped' = {} /\ local' = Unseen
  /\ cursor' = 0 /\ pending' = {} /\ processed' = {} /\ passed' = {}
  /\ worker' = Asleep
  /\ op' = [p \in Operators |-> NoCall]
  /\ UNCHANGED platform

-----------------------------------------------------------------------------
Sync == \/ PushMenu \/ Pull \/ PullFails
        \/ (\E e \in Upcoming : ProcessEvent(e)) \/ SaveSnapshot \/ SaveCursor

Next ==
  \/ \E o \in Orders : \/ PlaceOrder(o) \/ CancelOrder(o)
                        \/ Commit(o) \/ RollBack(o)
  \/ \E o \in Orders, status \in Status : LateCommand(o, status)
  \/ \E p \in Operators : \/ Arrive(p) \/ Confirmed(p) \/ NotConfirmed(p)
                          \/ SaveConfirmed(p)
                          \/ \E o \in Orders, status \in Status :
                               StartUpdate(p, o, status)
  \/ Sync \/ Restart

Spec == Init /\ [][Next]_vars

\* Transactions end.  The ticker starts cycles for ever, a cycle runs on to its
\* end, and calls of the worker that are repeated for ever do not fail for ever.
Fairness ==
  /\ \A o \in Orders : WF_vars(Commit(o) \/ RollBack(o))
  /\ WF_vars(Sync)
  /\ SF_vars(PushMenu /\ mapped' = mapped \cup {"venue"})
  /\ SF_vars(Pull)
FairSpec == Spec /\ Fairness
=============================================================================
