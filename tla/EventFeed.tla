----------------------------- MODULE EventFeed -----------------------------
(***************************************************************************)
(* The journal of OrderCommands as a venue reads it: page after page, after *)
(* a cursor of the sequence numbers, while handlers are between drawing a   *)
(* number and committing it.                                                *)
(***************************************************************************)
EXTENDS OrderCommandsRequirements, FiniteSetsExt

CONSTANT PageLimit      \* events in a page

VARIABLES cursor,       \* the sequence number each venue reads after
          delivered     \* the events each venue was given since its start

feedVars == <<vars, cursor, delivered>>

ASSUME PageLimitPositive == PageLimit \in Nat \ {0}

FeedInit ==
  /\ Init
  /\ cursor = [v \in Venues |-> 0]
  /\ delivered = [v \in Venues |-> {}]

\* Variant: the events of every venue are listed.
Listed_OfAll(v) == {e \in journal : e.seq > cursor[v]}

\* ListOrderEvents: the venue's committed events after the cursor, in
\* sequence order, no more than a page of them.
Listed(v) == {e \in journal : e.venue = v /\ e.seq > cursor[v]}
Page(v) ==
  {e \in Listed(v) :
     Cardinality({f \in Listed(v) : f.seq < e.seq}) < PageLimit}

\* The last number of the page becomes the cursor of the next one; an empty
\* page leaves it alone.
Poll(v) ==
  /\ Page(v) # {}
  /\ cursor' = [cursor EXCEPT ![v] = Max({e.seq : e \in Page(v)})]
  /\ delivered' = [delivered EXCEPT ![v] = @ \cup Page(v)]
  /\ UNCHANGED vars

\* The venue restarts with nothing and reads from the beginning.
Forget(v) ==
  /\ cursor[v] # 0
  /\ cursor' = [cursor EXCEPT ![v] = 0]
  /\ delivered' = [delivered EXCEPT ![v] = {}]
  /\ UNCHANGED vars

FeedNext ==
  \/ Next /\ UNCHANGED <<cursor, delivered>>
  \/ \E v \in Venues : Poll(v) \/ Forget(v)

FeedSpec == FeedInit /\ [][FeedNext]_feedVars

-----------------------------------------------------------------------------
(* Properties. *)

\* The type of the two variables of the feed.
FeedTypeOK ==
  /\ cursor \in [Venues -> Nat]
  /\ \A v \in Venues : delivered[v] \subseteq {e \in journal : e.venue = v}

\* docs/contract-decisions.md: delivery is at least once.  A number is drawn
\* when the event is inserted and shows when it is committed, so a cursor can
\* pass an event that is committed later, which then is never delivered.
NoEventIsSkipped ==
  \A v \in Venues : \A e \in journal :
    e.venue = v /\ e.seq <= cursor[v] => e \in delivered[v]

\* An event is only ever skipped for one of another order: events of one order
\* draw their numbers under its row lock, one commit after the other.
SkippedForAnotherOrder ==
  \A v \in Venues : \A e \in journal :
    /\ e.venue = v /\ e.seq <= cursor[v] /\ e \notin delivered[v]
    => \E f \in delivered[v] : f.seq > e.seq /\ f.order # e.order

\* What a page adds about an order is newer than all the venue had of it.
PagesMoveForward ==
  [][\A v \in Venues : \A e \in delivered'[v] \ delivered[v] :
       \A f \in delivered[v] : f.order = e.order =>
         Len(f.history) < Len(e.history)]_feedVars
=============================================================================
