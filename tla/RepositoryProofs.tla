-------------------------- MODULE RepositoryProofs --------------------------
(***************************************************************************)
(* Theorems about the two repositories and the feed of their events: what   *)
(* the commands record and answer is the same in memory, and what a venue   *)
(* may miss of its events, and what not.                                    *)
(***************************************************************************)
EXTENDS MemoryRepository, OrderRecordsProofs, WellFoundedInduction

-----------------------------------------------------------------------------
(* The inductive invariant. *)

\* In memory a handler never rests inside a repository call.
OutsideCalls(r) ==
  req[r].phase \notin {"version", "insert", "update", "commit"}
CallsAreWhole ==
  store = "memory" => \A r \in Requests : OutsideCalls(r)

\* The cursor is the number of an event the venue has, the last one of all.
CursorIsDelivered ==
  \A v \in Venues :
    /\ cursor[v] # 0 => \E f \in delivered[v] : f.seq = cursor[v]
    /\ \A f \in delivered[v] : f.seq <= cursor[v]

FeedHolds ==
  /\ FeedTypeOK /\ delivered \in [Venues -> SUBSET journal]
  /\ CursorIsDelivered /\ SkippedForAnotherOrder /\ MemorySkipsNothing

StoreInv ==
  /\ GroundInv /\ RecordInv
  /\ store \in {"postgres", "memory"}
  /\ store = "postgres" => IndexInv
  /\ CallsAreWhole
  /\ FeedHolds

-----------------------------------------------------------------------------
(* The calls of the memory. *)

\* The next number is later than all events.
LEMMA NextNumberIsLater ==
  ASSUME TypeOK, EventsAreNumbered, NEW o
  PROVE  NumberIsLater(nextSeq, o)
BY DEF EventsAreNumbered, NumberIsLater, TypeOK

\* Under the mutex an order that was found in the expected status may be
\* changed: what was read of it is the whole of it.
LEMMA WholeCallMayRecord ==
  ASSUME StoreInv, store = "memory", NEW r \in Requests, ~Recorded(r),
         \/ req[r].phase = "find"
         \/ req[r].phase = "lock" /\ AsExpected(r)
  PROVE  MayRecord(r, nextSeq)
<1>1. /\ GroundInv /\ TypeOK /\ PathsFit /\ ChangesAreGrounded
      /\ HistoriesAscend /\ EventsAreNumbered
  BY DEF StoreInv, GroundInv, RecordInv, TablesAgree
<1>2. \A s \in Requests : ~Holds(s) /\ req[s].phase # "commit"
  BY DEF StoreInv, CallsAreWhole, OutsideCalls, Holds
<1>3. NumberIsLater(nextSeq, req[r].order)
  BY <1>1, NextNumberIsLater
<1>4. MayWrite(r)
  <2>1. CASE req[r].phase = "find"
    BY <1>1, <2>1 DEF MayWrite, Creating, PathsFit, Fits
  <2>2. CASE req[r].phase = "lock" /\ AsExpected(r)
    <3> DEFINE o == req[r].order
               b == req[r].base
               h == orders[o].history
    <3>1. /\ Changing(r) /\ Grounded(r) /\ o \in Orders /\ orders[o] # None
      BY <1>1, <2>2 DEF Changing, PathsFit, Fits, ChangesAreGrounded, Active
    <3>2. /\ b \in History /\ h \in History /\ Ascends(h)
      BY <1>1, <3>1 DEF TypeOK, Handler, OrderRow, HistoriesAscend
    <3>3. /\ b # <<>> /\ IsPrefix(b, h) /\ StatusOf(h) = StatusOf(b)
      BY <2>2, <3>1 DEF Grounded, AsExpected
    <3>4. b = h
      BY <3>2, <3>3, SameStatusSameHistory
    <3> QED BY <1>2, <3>1, <3>4 DEF MayWrite
  <2> QED BY <2>1, <2>2
<1> QED BY <1>2, <1>3, <1>4 DEF MayRecord

\* A write in memory has the effect of a commit.
LEMMA WriteInMemoryEffect ==
  ASSUME StoreInv, NEW r \in Requests, WriteInMemory(r)
  PROVE  Effect(r, nextSeq) /\ Writes(r, nextSeq) /\ nextSeq' = nextSeq + 1
<1>1. nextSeq \in Nat /\ nextSeq >= 1
  BY DEF StoreInv, GroundInv, RecordInv, TablesAgree, EventsAreNumbered, TypeOK
<1>2. Writes(r, nextSeq) /\ nextSeq' = nextSeq + 1
  BY DEF WriteInMemory, AppendEvent, Writes
<1>3. /\ Answer(r, Success(req[r].order, Draft(r)))
      /\ UNCHANGED <<menuVersion, clock, received>>
  BY DEF WriteInMemory
<1> QED BY <1>1, <1>2, <1>3 DEF Effect

\* It keeps what is true of the tables and of the handlers.
LEMMA WriteInMemoryHolds ==
  ASSUME StoreInv, NEW r \in Requests, MayRecord(r, nextSeq), WriteInMemory(r)
  PROVE  GroundInv' /\ RecordInv'
<1>1. /\ GroundInv /\ RecordInv /\ TypeOK /\ PathsFit /\ nextSeq \in Nat
      /\ MayWrite(r) /\ (Creating(r) \/ Changing(r))
  BY DEF StoreInv, GroundInv, TypeOK, MayRecord, MayWrite
<1>2. Effect(r, nextSeq) /\ Writes(r, nextSeq) /\ nextSeq' = nextSeq + 1
  BY WriteInMemoryEffect
<1>3. RecordInv'
  BY <1>1, <1>2, WriteRecords
<1>4. /\ Answer(r, Success(req[r].order, Draft(r)))
      /\ UNCHANGED <<menuVersion, clock, received>>
  BY DEF WriteInMemory
<1>5. TypeOK' /\ PathsFit'
  BY <1>1, <1>2, <1>4, WriteType
<1>6. req'[r].phase = "done" /\ \A s \in Requests \ {r} : req'[s] = req[s]
  BY <1>1, <1>4, AnswerMeans
<1>7. Footing'
  BY <1>1, <1>2, <1>6, WriteFooting DEF Writes
<1> QED BY <1>3, <1>5, <1>7 DEF GroundInv, Footing

\* A problem keeps it, too.
LEMMA RejectedHolds ==
  ASSUME StoreInv, NEW r \in Requests, req[r].phase # "idle",
         NEW code \in Codes, code # "ok", Rejected(r, Problem(code))
  PROVE  GroundInv' /\ RecordInv'
<1>1. GroundInv /\ RecordInv /\ TypeOK /\ PathsFit
  BY DEF StoreInv, GroundInv
<1>2. /\ Answer(r, Problem(code)) /\ orders' = orders
      /\ menuVersion' = menuVersion /\ Quiet
  BY <1>1 DEF Rejected, tables, Quiet, TypeOK
<1>3. RecordInv'
  BY <1>1, <1>2, ProblemRecords
<1>4. req' \in [Requests -> Handler] /\ PathsFit'
  BY <1>1, <1>2, ProblemType
<1>5. TypeOK'
  BY <1>1, <1>4 DEF TypeOK, Rejected, tables
<1>6. Footing'
  BY <1>1, <1>2, AnswerStep
<1> QED BY <1>3, <1>4, <1>5, <1>6 DEF GroundInv, Footing

\* No handler rests inside a call after a step in memory.
LEMMA StepIsWhole ==
  ASSUME StoreInv, store = "memory", MemoryNext, store' = store
  PROVE  CallsAreWhole'
<1>1. TypeOK
  BY DEF StoreInv, GroundInv
<1> SUFFICES ASSUME NEW s \in Requests
             PROVE  OutsideCalls(s)'
  BY DEF CallsAreWhole
<1>2. OutsideCalls(s)
  BY DEF StoreInv, CallsAreWhole
<1>3. ASSUME NEW r \in Requests, NEW reply, Answer(r, reply)
      PROVE  OutsideCalls(s)'
  <2>1. req'[r].phase = "done" /\ \A q \in Requests \ {r} : req'[q] = req[q]
    BY <1>1, <1>3, AnswerMeans
  <2> QED BY <1>2, <2>1 DEF OutsideCalls
<1>4. ASSUME NEW r \in Requests, NEW phase \in {"prepare", "load"},
             Proceed(r, phase)
      PROVE  OutsideCalls(s)'
  BY <1>1, <1>2, <1>4 DEF OutsideCalls, Proceed, TypeOK, Handler
<1>5. ASSUME NEW r \in Requests, RefuseOrder(r)
      PROVE  OutsideCalls(s)'
  BY <1>3, <1>5 DEF RefuseOrder
<1>6. ASSUME NEW r \in Requests,
             RefuseCommand(r) \/ CompareVenueOrderID(r) \/ ReplayCommand(r)
      PROVE  OutsideCalls(s)'
  BY <1>3, <1>4, <1>6
  DEF RefuseCommand, CompareVenueOrderID, ReplayCommand, AnswerRecorded
<1>7. ASSUME NEW r \in Requests, LoadAccepted(r) \/ LoadOrder(r)
      PROVE  OutsideCalls(s)'
  BY <1>1, <1>2, <1>7 DEF OutsideCalls, LoadAccepted, LoadOrder, TypeOK, Handler
<1>8. ASSUME NEW r \in Requests, PrepareOrder(r)
      PROVE  OutsideCalls(s)'
  <2>1. CASE Answer(r, Problem("menu_version_mismatch"))
    BY <1>3, <2>1
  <2>2. ASSUME NEW o \in Orders,
               req' = [req EXCEPT ![r].phase = "find", ![r].order = o,
                                  ![r].at = clock]
        PROVE  OutsideCalls(s)'
    BY <1>1, <1>2, <2>2 DEF OutsideCalls, TypeOK, Handler
  <2> QED BY <1>8, <2>1, <2>2, Zenon DEF PrepareOrder
<1>9. ASSUME NEW r \in Requests, CreateOrderCommand(r)
      PROVE  OutsideCalls(s)'
  BY <1>3, <1>9
  DEF CreateOrderCommand, Repeated, AnswerRecorded, Rejected, WriteInMemory
<1>10. ASSUME NEW r \in Requests, ApplyOrderCommand(r)
       PROVE  OutsideCalls(s)'
  BY <1>3, <1>10
  DEF ApplyOrderCommand, Repeated, AnswerRecorded, Rejected, WriteInMemory
<1>11. ASSUME NEW r \in Requests, NEW c \in Commands, Receive(r, c)
       PROVE  OutsideCalls(s)'
  BY <1>1, <1>2, <1>11 DEF OutsideCalls, Receive, Idle, TypeOK, Handler
<1>12. ASSUME NEW r \in Requests, Respond(r)
       PROVE  OutsideCalls(s)'
  BY <1>1, <1>2, <1>12 DEF OutsideCalls, Respond, Idle, TypeOK, Handler
<1>13. ASSUME NEW v \in Venues, SyncMenu(v)
       PROVE  OutsideCalls(s)'
  BY <1>2, <1>13 DEF OutsideCalls, SyncMenu
<1> QED BY <1>5, <1>6, <1>7, <1>8, <1>9, <1>10, <1>11, <1>12, <1>13
        DEF MemoryNext, MemoryStep

\* Each step of a handler in memory is a step that a handler of PostgreSQL
\* could make, a write that may be recorded, or an answer that is a problem.
LEMMA MemoryStepIsKnown ==
  ASSUME StoreInv, store = "memory", MemoryNext
  PROVE  \/ Next
         \/ \E r \in Requests : MayRecord(r, nextSeq) /\ WriteInMemory(r)
         \/ \E r \in Requests :
              /\ req[r].phase = "find"
              /\ Rejected(r, Problem("menu_version_mismatch"))
<1> DEFINE Known == \/ Next
                    \/ \E r \in Requests :
                         MayRecord(r, nextSeq) /\ WriteInMemory(r)
                    \/ \E r \in Requests :
                         /\ req[r].phase = "find"
                         /\ Rejected(r, Problem("menu_version_mismatch"))
<1>1. ASSUME NEW r \in Requests,
             \/ ReplayCommand(r) \/ RefuseOrder(r) \/ PrepareOrder(r)
             \/ RefuseCommand(r) \/ LoadAccepted(r) \/ CompareVenueOrderID(r)
             \/ LoadOrder(r) \/ Respond(r) \/ \E c \in Commands : Receive(r, c)
      PROVE  Next
  BY <1>1 DEF Next, Step, Create, Change
<1>2. ASSUME NEW r \in Requests, CreateOrderCommand(r)
      PROVE  Known
  <2>1. CASE Repeated(r)
    <3>1. FindCommandTx(r)
      BY <1>2, <2>1 DEF CreateOrderCommand, Repeated, FindCommandTx
    <3> QED BY <3>1 DEF Next, Step, Create
  <2>2. CASE /\ ~Recorded(r)
             /\ \/ Rejected(r, Problem("menu_version_mismatch"))
                \/ WriteInMemory(r)
    <3>1. req[r].phase = "find"
      BY <1>2 DEF CreateOrderCommand
    <3> QED BY <2>2, <3>1, WholeCallMayRecord
  <2> QED BY <1>2, <2>1, <2>2 DEF CreateOrderCommand
<1>3. ASSUME NEW r \in Requests, ApplyOrderCommand(r)
      PROVE  Known
  <2>1. req[r].phase = "lock" /\ \A s \in Requests : ~LocksOrder(s, req[r].order)
    BY <1>3 DEF ApplyOrderCommand, StoreInv, CallsAreWhole, OutsideCalls,
                LocksOrder
  <2>2. ASSUME LockOrder(r) PROVE Known
    BY <2>2 DEF Next, Step, Change
  <2>3. CASE Repeated(r)
    BY <2>1, <2>2, <2>3 DEF Repeated, LockOrder
  <2>4. CASE ~Recorded(r) /\ AsExpected(r) /\ WriteInMemory(r)
    BY <2>1, <2>4, WholeCallMayRecord
  <2>5. CASE /\ ~Recorded(r) /\ ~AsExpected(r)
             /\ Rejected(r, Problem("invalid_order_transition"))
    BY <2>1, <2>2, <2>5 DEF Rejected, LockOrder
  <2> QED BY <1>3, <2>3, <2>4, <2>5 DEF ApplyOrderCommand
<1>4. ASSUME NEW v \in Venues, SyncMenu(v) PROVE Next
  BY <1>4 DEF Next
<1> QED BY <1>1, <1>2, <1>3, <1>4 DEF MemoryNext, MemoryStep

\* What the database relies on holds in memory, too.
LEMMA MemoryHolds ==
  ASSUME StoreInv, store = "memory", MemoryNext
  PROVE  GroundInv' /\ RecordInv'
<1>1. CASE Next
  <2>1. GroundInv /\ RecordInv /\ TypeOK /\ PathsFit
    BY DEF StoreInv, GroundInv
  <2>2. TypeOK' /\ PathsFit' /\ Footing' /\ RecordInv'
    BY <1>1, <2>1, TypeStep, StepFooting, StepRecords
  <2> QED BY <2>2 DEF GroundInv, Footing
<1>2. ASSUME NEW r \in Requests, MayRecord(r, nextSeq), WriteInMemory(r)
      PROVE  GroundInv' /\ RecordInv'
  BY <1>2, WriteInMemoryHolds
<1>3. ASSUME NEW r \in Requests, req[r].phase = "find",
             Rejected(r, Problem("menu_version_mismatch"))
      PROVE  GroundInv' /\ RecordInv'
  BY <1>3, RejectedHolds DEF Codes
<1> QED BY <1>1, <1>2, <1>3, MemoryStepIsKnown

-----------------------------------------------------------------------------
(* The feed, while commands are handled. *)

\* What a step of the commands does to the journal: nothing, or one event more
\* that is later than all events of its order.
Publishes ==
  \/ journal' = journal
  \/ \E seq, venue, history : \E o \in Orders :
       /\ NumberIsLater(seq, o) /\ seq \in 1 .. nextSeq
       /\ store = "memory" => seq = nextSeq
       /\ journal' = journal \cup {[seq |-> seq, venue |-> venue, order |-> o,
                                    history |-> history]}

LEMMA WritePublishes ==
  ASSUME TypeOK, PathsFit, NEW r \in Requests, NEW seq, MayRecord(r, seq),
         Writes(r, seq), seq \in 1 .. nextSeq, store = "memory" => seq = nextSeq
  PROVE  Publishes
<1>1. req[r].order \in Orders
  BY RowType DEF MayRecord, MayWrite
<1> QED BY <1>1 DEF Publishes, Writes, MayRecord

LEMMA NextPublishes ==
  ASSUME GroundInv, RecordInv, store = "postgres", Next
  PROVE  Publishes
<1>1. TypeOK /\ PathsFit
  BY DEF GroundInv
<1>2. CASE UNCHANGED <<orders, commands, journal>>
  BY <1>2 DEF Publishes
<1>3. ASSUME NEW r \in Requests, req[r].phase = "commit", Write(r)
      PROVE  Publishes
  <2>1. Writes(r, req[r].seq)
    BY <1>3 DEF Write, Writes
  <2>2. MayRecord(r, req[r].seq) /\ req[r].seq \in 1 .. nextSeq
    BY <1>1, <1>3, CommitMayRecord DEF TypeOK
  <2> QED BY <1>1, <2>1, <2>2, WritePublishes
<1> QED BY <1>2, <1>3, OnlyCommitsWrite

LEMMA MemoryPublishes ==
  ASSUME StoreInv, store = "memory", MemoryNext
  PROVE  Publishes
<1>1. /\ GroundInv /\ RecordInv /\ TypeOK /\ PathsFit /\ EventsAreNumbered
  BY DEF StoreInv, GroundInv, RecordInv, TablesAgree
<1>2. CASE Next
  <2>1. ASSUME NEW r \in Requests, req[r].phase = "commit" PROVE FALSE
    BY <2>1 DEF StoreInv, CallsAreWhole, OutsideCalls
  <2> QED BY <1>2, <2>1, OnlyCommitsWrite DEF Publishes
<1>3. ASSUME NEW r \in Requests, MayRecord(r, nextSeq), WriteInMemory(r)
      PROVE  Publishes
  <2>1. Writes(r, nextSeq) /\ nextSeq \in 1 .. nextSeq
    BY <1>1, <1>3, WriteInMemoryEffect DEF EventsAreNumbered, TypeOK
  <2> QED BY <1>1, <1>3, <2>1, WritePublishes
<1>4. ASSUME NEW r \in Requests,
             Rejected(r, Problem("menu_version_mismatch"))
      PROVE  Publishes
  BY <1>4 DEF Rejected, tables, Publishes
<1> QED BY <1>2, <1>3, <1>4, MemoryStepIsKnown

\* While nothing is read, the feed stays right: an event that comes too late
\* for a cursor was passed for one of another order, and in memory none does.
LEMMA FeedPublishes ==
  ASSUME StoreInv, Publishes, UNCHANGED <<cursor, delivered, store>>
  PROVE  FeedHolds'
<1>1. /\ FeedTypeOK /\ delivered \in [Venues -> SUBSET journal]
      /\ CursorIsDelivered /\ SkippedForAnotherOrder /\ MemorySkipsNothing
      /\ nextSeq \in Nat
      /\ \A e \in journal : e.seq \in 1 .. nextSeq - 1
  BY DEF StoreInv, FeedHolds, GroundInv, TypeOK, RecordInv, TablesAgree,
         EventsAreNumbered
<1>2. CASE journal' = journal
  BY <1>1, <1>2 DEF FeedHolds, FeedTypeOK, CursorIsDelivered,
                    SkippedForAnotherOrder, MemorySkipsNothing,
                    NoEventIsSkipped
<1>3. ASSUME NEW seq, NEW venue, NEW history, NEW o \in Orders, NEW new,
             new = [seq |-> seq, venue |-> venue, order |-> o,
                    history |-> history],
             NumberIsLater(seq, o), seq \in 1 .. nextSeq,
             store = "memory" => seq = nextSeq,
             journal' = journal \cup {new}
      PROVE  FeedHolds'
  <2>1. new.seq = seq /\ new.order = o
    BY <1>3
  <2>2. FeedTypeOK' /\ delivered' \in [Venues -> SUBSET journal']
    BY <1>1, <1>3 DEF FeedTypeOK
  <2>3. CursorIsDelivered'
    BY <1>1 DEF CursorIsDelivered
  <2>4. ASSUME NEW v \in Venues, seq <= cursor[v]
        PROVE  \E f \in delivered[v] :
                 f.seq > seq /\ f.order # o /\ f.seq < nextSeq
    <3>1. cursor[v] \in Nat /\ cursor[v] # 0
      BY <1>1, <1>3, <2>4 DEF FeedTypeOK
    <3>2. PICK f \in delivered[v] : f.seq = cursor[v]
      BY <1>1, <3>1 DEF CursorIsDelivered
    <3>3. f \in journal
      BY <1>1
    <3>4. f.seq # seq /\ (f.order = o => f.seq < seq)
      BY <1>3, <3>3 DEF NumberIsLater
    <3> QED BY <1>1, <1>3, <2>4, <3>2, <3>3, <3>4
  <2>5. SkippedForAnotherOrder'
    <3> SUFFICES ASSUME NEW v \in Venues, NEW e \in journal',
                        e.seq <= cursor[v], e \notin delivered[v],
                        e.venue = v
                 PROVE  \E f \in delivered[v] : f.seq > e.seq
                                                /\ f.order # e.order
      BY DEF SkippedForAnotherOrder
    <3>1. CASE e \in journal
      BY <1>1, <3>1 DEF SkippedForAnotherOrder
    <3>2. CASE e = new
      BY <2>1, <2>4, <3>2
    <3> QED BY <1>3, <3>1, <3>2
  <2>6. MemorySkipsNothing'
    <3> SUFFICES ASSUME store = "memory", NEW v \in Venues,
                        NEW e \in journal', e.venue = v, e.seq <= cursor[v]
                 PROVE  e \in delivered[v]
      BY DEF MemorySkipsNothing, NoEventIsSkipped
    <3>1. CASE e \in journal
      BY <1>1, <3>1 DEF MemorySkipsNothing, NoEventIsSkipped
    <3>2. CASE e = new
      <4>1. PICK f \in delivered[v] : f.seq > seq /\ f.seq < nextSeq
        BY <2>1, <2>4, <3>2
      <4> QED BY <1>1, <1>3, <4>1
    <3> QED BY <1>3, <3>1, <3>2
  <2> QED BY <2>2, <2>3, <2>5, <2>6 DEF FeedHolds
<1> QED BY <1>2, <1>3 DEF Publishes

-----------------------------------------------------------------------------
(* Reading the feed. *)

\* Bounded numbers have a greatest one.
LEMMA GreatestNumber ==
  ASSUME NEW S \in SUBSET Nat, S # {}, NEW n \in Nat, \A x \in S : x <= n
  PROVE  Max(S) \in S /\ \A x \in S : x <= Max(S)
<1> DEFINE T == {n - x : x \in S}
           R == {ss \in Nat \X Nat : ss[1] < ss[2]}
<1>1. T \subseteq Nat /\ T # {}
  <2>1. ASSUME NEW x \in S PROVE n - x \in Nat
    OBVIOUS
  <2> QED BY <2>1
<1>2. IsWellFoundedOn(R, Nat)
  BY NatLessThanWellFounded DEF OpToRel
<1>3. \A i, j \in Nat : i < j => <<i, j>> \in R
  OBVIOUS
<1> HIDE DEF T, R
<1>4. PICK t \in T : \A u \in T : ~(<<u, t>> \in R)
  BY <1>1, <1>2, WFMin
<1>5. PICK m \in S : t = n - m
  BY <1>4 DEF T
<1>6. ASSUME NEW x \in S PROVE m >= x
  <2>1. n - x \in T /\ n - x \in Nat /\ t \in Nat
    BY <1>1 DEF T
  <2>2. ~(n - x < t)
    BY <1>3, <1>4, <2>1
  <2> QED BY <1>5, <2>1, <2>2
<1> QED BY <1>6 DEF Max

\* A page begins right after the cursor: what is listed before one of its
\* events is on it.
LEMMA PageIsClosed ==
  ASSUME TypeOK, EventsAreNumbered, NEW v \in Venues,
         NEW g \in Page(v), NEW e \in Listed(v), e.seq <= g.seq
  PROVE  e \in Page(v)
<1> DEFINE Earlier(x) == {f \in Listed(v) : f.seq < x}
<1>1. g \in Listed(v) /\ Cardinality(Earlier(g.seq)) < PageLimit
  BY DEF Page
<1>2. Listed(v) \subseteq journal /\ IsFiniteSet(journal)
  BY DEF Listed, EventsAreNumbered
<1>3. \A f \in Listed(v) : f.seq \in Nat
  BY <1>2 DEF EventsAreNumbered, TypeOK
<1>4. Earlier(e.seq) \subseteq Earlier(g.seq) /\ Earlier(g.seq) \subseteq journal
  BY <1>1, <1>2, <1>3
<1>5. IsFiniteSet(Earlier(g.seq)) /\ IsFiniteSet(Earlier(e.seq))
  BY <1>2, <1>4, FS_Subset
<1>6. Cardinality(Earlier(e.seq)) <= Cardinality(Earlier(g.seq))
  BY <1>4, <1>5, FS_Subset
<1>7. /\ Cardinality(Earlier(e.seq)) \in Nat
      /\ Cardinality(Earlier(g.seq)) \in Nat
  BY <1>5, FS_CardinalityType
<1>8. Cardinality(Earlier(e.seq)) < PageLimit
  BY <1>1, <1>6, <1>7, PageLimitPositive
<1> QED BY <1>8 DEF Page

\* The new cursor is the number of the last event on the page.
LEMMA PageHasLast ==
  ASSUME TypeOK, EventsAreNumbered, NEW v \in Venues, Page(v) # {},
         NEW last, last = Max({e.seq : e \in Page(v)})
  PROVE  /\ last \in Nat
         /\ \E g \in Page(v) : g.seq = last
         /\ \A g \in Page(v) : g.seq <= last
<1> DEFINE S == {e.seq : e \in Page(v)}
<1>1. Page(v) \subseteq journal
  BY DEF Page, Listed
<1>2. S \in SUBSET Nat /\ S # {} /\ \A x \in S : x <= nextSeq
  BY <1>1 DEF EventsAreNumbered, TypeOK
<1>3. nextSeq \in Nat
  BY DEF TypeOK
<1>4. last = Max(S)
  OBVIOUS
<1> HIDE DEF S
<1>5. last \in S /\ \A x \in S : x <= last
  BY <1>2, <1>3, <1>4, GreatestNumber
<1> QED BY <1>2, <1>5 DEF S

\* Reading a page leaves out nothing that is there.
LEMMA PollHolds ==
  ASSUME StoreInv, NEW v \in Venues, Poll(v), store' = store
  PROVE  FeedHolds'
<1>1. /\ TypeOK /\ EventsAreNumbered
      /\ FeedTypeOK /\ delivered \in [Venues -> SUBSET journal]
      /\ CursorIsDelivered /\ SkippedForAnotherOrder /\ MemorySkipsNothing
  BY DEF StoreInv, FeedHolds, GroundInv, RecordInv, TablesAgree
<1>2. /\ journal' = journal
      /\ Page(v) \subseteq {e \in journal : e.venue = v /\ e.seq > cursor[v]}
  BY DEF Poll, vars, Page, Listed
<1> PICK last : last = Max({e.seq : e \in Page(v)})
  OBVIOUS
<1>3. /\ last \in Nat
      /\ \E g \in Page(v) : g.seq = last
      /\ \A g \in Page(v) : g.seq <= last
  <2>1. Page(v) # {}
    BY DEF Poll
  <2> QED BY <1>1, <2>1, PageHasLast
<1>4. /\ cursor' = [cursor EXCEPT ![v] = last]
      /\ delivered' = [delivered EXCEPT ![v] = @ \cup Page(v)]
  BY DEF Poll
<1>5. /\ cursor'[v] = last /\ delivered'[v] = delivered[v] \cup Page(v)
      /\ \A w \in Venues \ {v} : /\ cursor'[w] = cursor[w]
                                 /\ delivered'[w] = delivered[w]
      /\ cursor' \in [Venues -> Nat]
      /\ delivered' \in [Venues -> SUBSET journal']
  BY <1>1, <1>2, <1>3, <1>4 DEF FeedTypeOK
<1>6. last > cursor[v] /\ \A e \in journal : e.seq \in Nat
  BY <1>1, <1>2, <1>3 DEF EventsAreNumbered, TypeOK
<1>7. ASSUME NEW e \in journal, e.venue = v, e.seq > cursor[v], e.seq <= last
      PROVE  e \in delivered'[v]
  <2>1. e \in Listed(v)
    BY <1>7 DEF Listed
  <2>2. PICK g \in Page(v) : g.seq = last
    BY <1>3
  <2>3. e \in Page(v)
    BY <1>1, <1>7, <2>1, <2>2, PageIsClosed
  <2> QED BY <1>5, <2>3
<1>8. FeedTypeOK'
  <2> SUFFICES ASSUME NEW w \in Venues
               PROVE  delivered'[w] \subseteq {e \in journal : e.venue = w}
    BY <1>2, <1>5 DEF FeedTypeOK
  <2> QED BY <1>1, <1>2, <1>5 DEF FeedTypeOK
<1>9. CursorIsDelivered'
  <2> SUFFICES ASSUME NEW w \in Venues
               PROVE  /\ cursor'[w] # 0 =>
                           \E f \in delivered'[w] : f.seq = cursor'[w]
                      /\ \A f \in delivered'[w] : f.seq <= cursor'[w]
    BY DEF CursorIsDelivered
  <2>1. CASE w # v
    BY <1>1, <1>5, <2>1 DEF CursorIsDelivered
  <2>2. CASE w = v
    <3>1. \A f \in delivered[v] : f.seq <= cursor[v] /\ f.seq \in Nat
      BY <1>1, <1>6 DEF CursorIsDelivered
    <3>2. cursor[v] \in Nat
      BY <1>1 DEF FeedTypeOK
    <3>3. \A f \in delivered[v] : f.seq <= last
      BY <1>3, <1>6, <3>1, <3>2
    <3> QED BY <1>3, <1>5, <2>2, <3>3
  <2> QED BY <2>1, <2>2
<1>10. SkippedForAnotherOrder'
  <2> SUFFICES ASSUME NEW w \in Venues, NEW e \in journal, e.venue = w,
                      e.seq <= cursor'[w], e \notin delivered'[w]
               PROVE  \E f \in delivered'[w] : f.seq > e.seq
                                               /\ f.order # e.order
    BY <1>2 DEF SkippedForAnotherOrder
  <2>1. e.seq <= cursor[w] /\ e \notin delivered[w]
    <3>1. cursor[v] \in Nat
      BY <1>1 DEF FeedTypeOK
    <3> QED BY <1>5, <1>6, <1>7, <3>1
  <2>2. \E f \in delivered[w] : f.seq > e.seq /\ f.order # e.order
    BY <1>1, <2>1 DEF SkippedForAnotherOrder
  <2> QED BY <1>5, <2>2
<1>11. MemorySkipsNothing'
  <2> SUFFICES ASSUME store = "memory", NEW w \in Venues, NEW e \in journal,
                      e.venue = w, e.seq <= cursor'[w]
               PROVE  e \in delivered'[w]
    BY <1>2 DEF MemorySkipsNothing, NoEventIsSkipped
  <2>1. e.seq <= cursor[w] => e \in delivered[w]
    BY <1>1 DEF MemorySkipsNothing, NoEventIsSkipped
  <2>2. cursor[v] \in Nat
    BY <1>1 DEF FeedTypeOK
  <2> QED BY <1>5, <1>6, <1>7, <2>1, <2>2
<1> QED BY <1>5, <1>8, <1>9, <1>10, <1>11 DEF FeedHolds

\* A venue that starts again has missed nothing yet.
LEMMA ForgetHolds ==
  ASSUME StoreInv, NEW v \in Venues, Forget(v), store' = store
  PROVE  FeedHolds'
<1>1. /\ FeedTypeOK /\ delivered \in [Venues -> SUBSET journal]
      /\ CursorIsDelivered /\ SkippedForAnotherOrder /\ MemorySkipsNothing
      /\ \A e \in journal : e.seq \in Nat \ {0}
  BY DEF StoreInv, FeedHolds, RecordInv, TablesAgree, EventsAreNumbered,
         GroundInv, TypeOK
<1>2. journal' = journal
  BY DEF Forget, vars
<1>3. /\ cursor'[v] = 0 /\ delivered'[v] = {}
      /\ \A w \in Venues \ {v} : /\ cursor'[w] = cursor[w]
                                 /\ delivered'[w] = delivered[w]
      /\ cursor' \in [Venues -> Nat]
      /\ delivered' \in [Venues -> SUBSET journal']
  BY <1>1, <1>2 DEF Forget, FeedTypeOK
<1>4. FeedTypeOK'
  BY <1>1, <1>2, <1>3 DEF FeedTypeOK
<1>5. CursorIsDelivered'
  BY <1>1, <1>3 DEF CursorIsDelivered
<1>6. SkippedForAnotherOrder'
  BY <1>1, <1>2, <1>3 DEF SkippedForAnotherOrder
<1>7. MemorySkipsNothing'
  BY <1>1, <1>2, <1>3 DEF MemorySkipsNothing, NoEventIsSkipped
<1> QED BY <1>3, <1>4, <1>5, <1>6, <1>7 DEF FeedHolds

-----------------------------------------------------------------------------
(* The theorems. *)

LEMMA StoreInvInit == StoreInit => StoreInv
<1> SUFFICES ASSUME StoreInit PROVE StoreInv
  OBVIOUS
<1>1. /\ Init /\ cursor = [v \in Venues |-> 0]
      /\ delivered = [v \in Venues |-> {}] /\ store \in {"postgres", "memory"}
  BY DEF StoreInit, FeedInit
<1>2. GroundInv /\ RecordInv /\ IndexInv
  BY <1>1, InvInit, RecordInit
<1>3. CallsAreWhole
  BY <1>1 DEF Init, Idle, CallsAreWhole, OutsideCalls
<1>4. FeedHolds
  BY <1>1 DEF Init, FeedHolds, FeedTypeOK, CursorIsDelivered,
              SkippedForAnotherOrder, MemorySkipsNothing, NoEventIsSkipped
<1> QED BY <1>1, <1>2, <1>3, <1>4 DEF StoreInv

LEMMA StoreInvStep ==
  ASSUME StoreInv, [StoreNext]_storeVars
  PROVE  StoreInv'
<1>1. GroundInv /\ RecordInv /\ TypeOK /\ PathsFit
  BY DEF StoreInv, GroundInv
<1>2. CASE UNCHANGED storeVars
  <2>1. /\ UNCHANGED vars /\ UNCHANGED <<cursor, delivered, store>>
        /\ journal' = journal
    BY <1>2 DEF storeVars, feedVars, vars
  <2>2. GroundInv' /\ RecordInv' /\ (store = "postgres" => IndexInv')
    BY <1>1, <2>1, TypeStep, StepFooting, StepRecords, StepIndex
    DEF GroundInv, Footing, StoreInv
  <2>3. FeedHolds'
    BY <2>1, FeedPublishes DEF Publishes
  <2>4. CallsAreWhole'
    BY <2>1 DEF StoreInv, CallsAreWhole, OutsideCalls, vars
  <2> QED BY <2>1, <2>2, <2>3, <2>4 DEF StoreInv
<1>3. CASE store = "postgres" /\ Next /\ UNCHANGED <<cursor, delivered, store>>
  <2>1. TypeOK' /\ PathsFit' /\ Footing' /\ RecordInv' /\ IndexInv'
    BY <1>1, <1>3, TypeStep, StepFooting, StepRecords, StepIndex DEF StoreInv
  <2>2. FeedHolds'
    BY <1>1, <1>3, NextPublishes, FeedPublishes
  <2>3. CallsAreWhole'
    BY <1>3 DEF CallsAreWhole
  <2> QED BY <1>3, <2>1, <2>2, <2>3 DEF StoreInv, GroundInv, Footing
<1>4. CASE store = "memory" /\ MemoryNext
           /\ UNCHANGED <<cursor, delivered, store>>
  <2>1. GroundInv' /\ RecordInv'
    BY <1>4, MemoryHolds
  <2>2. FeedHolds'
    BY <1>4, MemoryPublishes, FeedPublishes
  <2>3. CallsAreWhole'
    BY <1>4, StepIsWhole
  <2> QED BY <1>4, <2>1, <2>2, <2>3 DEF StoreInv
<1>5. ASSUME NEW v \in Venues, Poll(v) \/ Forget(v), store' = store
      PROVE  StoreInv'
  <2>1. UNCHANGED vars
    BY <1>5 DEF Poll, Forget
  <2>2. GroundInv' /\ RecordInv' /\ (store = "postgres" => IndexInv')
    BY <1>1, <2>1, TypeStep, StepFooting, StepRecords, StepIndex
    DEF GroundInv, Footing, StoreInv
  <2>3. FeedHolds'
    BY <1>5, PollHolds, ForgetHolds
  <2>4. CallsAreWhole'
    BY <1>5, <2>1 DEF StoreInv, CallsAreWhole, OutsideCalls, vars
  <2> QED BY <1>5, <2>2, <2>3, <2>4 DEF StoreInv
<1> QED BY <1>2, <1>3, <1>4, <1>5 DEF StoreNext

\* Both repositories, and the cursors that read them, keep the invariant.
THEOREM StoreInductive == StoreSpec => []StoreInv
<1>1. StoreInit => StoreInv
  BY StoreInvInit
<1>2. StoreInv /\ [StoreNext]_storeVars => StoreInv'
  BY StoreInvStep
<1> QED BY <1>1, <1>2, PTL DEF StoreSpec

\* A cursor is a number, and a venue is given its own committed events only.
THEOREM FeedTypeCorrect == StoreSpec => []FeedTypeOK
<1>1. StoreInv => FeedTypeOK
  BY DEF StoreInv, FeedHolds
<1> QED BY <1>1, StoreInductive, PTL

\* An event that ListOrderEvents never shows was passed for an event of another
\* order: the numbers of one order are drawn one commit after the other.
THEOREM OnlyOthersAreSkipped == StoreSpec => []SkippedForAnotherOrder
<1>1. StoreInv => SkippedForAnotherOrder
  BY DEF StoreInv, FeedHolds
<1> QED BY <1>1, StoreInductive, PTL

\* In memory no cursor passes an event: the tests that run on it cannot show
\* what PostgreSQL does.
THEOREM MemoryIsComplete == StoreSpec => []MemorySkipsNothing
<1>1. StoreInv => MemorySkipsNothing
  BY DEF StoreInv, FeedHolds
<1> QED BY <1>1, StoreInductive, PTL

\* The venue's identifiers are unique in PostgreSQL, by its index.
THEOREM IndexIsKept == StoreSpec => []IndexKeepsIDsApart
<1>1. StoreInv => IndexKeepsIDsApart
  BY DEF StoreInv, IndexInv, IndexKeepsIDsApart
<1> QED BY <1>1, StoreInductive, PTL

\* With either repository, the order that a client is told about is its own.
THEOREM TenantsAreApartInBoth == StoreSpec => []TenantIsolation
<1>1. StoreInv => TenantIsolation
  BY SuccessIsOwn DEF StoreInv
<1> QED BY <1>1, StoreInductive, PTL

\* What a page adds about an order is newer than all the venue had of it, so
\* that applying pages in their order never takes an order back.
THEOREM PagesAreNews == StoreSpec => PagesMoveForward
<1> DEFINE A == \A v \in Venues : \A e \in delivered'[v] \ delivered[v] :
                  \A f \in delivered[v] : f.order = e.order =>
                    Len(f.history) < Len(e.history)
<1>1. ASSUME StoreInv, [StoreNext]_storeVars PROVE [A]_feedVars
  <2>1. /\ TypeOK /\ FeedTypeOK /\ CursorIsDelivered /\ JournalTellsHistory
        /\ delivered \in [Venues -> SUBSET journal]
    BY <1>1 DEF StoreInv, GroundInv, RecordInv, TablesAgree, FeedHolds
  <2>2. CASE delivered' = delivered
    BY <2>2
  <2>3. ASSUME NEW w \in Venues, Forget(w) PROVE A
    <3>1. \A v \in Venues : delivered'[v] \subseteq delivered[v]
      BY <2>1, <2>3 DEF Forget
    <3> QED BY <3>1
  <2>4. ASSUME NEW w \in Venues, Poll(w) PROVE A
    <3> SUFFICES ASSUME NEW v \in Venues,
                        NEW e \in delivered'[v] \ delivered[v],
                        NEW f \in delivered[v], f.order = e.order
                 PROVE  Len(f.history) < Len(e.history)
      OBVIOUS
    <3>1. e \in Page(v)
      BY <2>1, <2>4 DEF Poll
    <3>2. e \in journal /\ e.seq > cursor[v] /\ e.seq \in Nat
      BY <2>1, <3>1 DEF Page, Listed, TypeOK
    <3>3. f \in journal /\ f.seq <= cursor[v] /\ f.seq \in Nat
      BY <2>1 DEF CursorIsDelivered, TypeOK
    <3>4. cursor[v] \in Nat
      BY <2>1 DEF FeedTypeOK
    <3>5. f.seq < e.seq
      BY <3>2, <3>3, <3>4
    <3> QED BY <2>1, <3>2, <3>3, <3>5 DEF JournalTellsHistory
  <2> QED BY <1>1, <2>2, <2>3, <2>4 DEF StoreNext, storeVars, feedVars
<1>2. StoreInv /\ [StoreNext]_storeVars => [A]_feedVars
  BY <1>1
<1> HIDE DEF A
<1>3. StoreSpec => [][A]_feedVars
  BY <1>2, StoreInductive, PTL DEF StoreSpec
<1> QED BY <1>3 DEF A, PagesMoveForward

\* The memory keeps the promise of the database: each of its calls is one step
\* of the abstract order book, or leaves orders and answers alone.
THEOREM MemoryImplementsBook == StoreSpec => MemoryKeepsTheBook
<1> DEFINE A == store = "memory" => UNCHANGED <<orders, commands>> \/ Book!Next
<1>1. ASSUME StoreInv, [StoreNext]_storeVars, store = "memory"
      PROVE  [UNCHANGED <<orders, commands>> \/ Book!Next]_storeVars
  <2>1. ASSUME Next PROVE UNCHANGED <<orders, commands>>
    <3>1. \A r \in Requests : req[r].phase # "commit"
      BY <1>1 DEF StoreInv, CallsAreWhole, OutsideCalls
    <3> QED BY <2>1, <3>1, OnlyCommitsWrite
  <2>2. ASSUME NEW r \in Requests, MayRecord(r, nextSeq), WriteInMemory(r)
        PROVE  Book!Next
    <3>1. GroundInv /\ Writes(r, nextSeq)
      BY <1>1, <2>2, WriteInMemoryEffect DEF StoreInv
    <3> QED BY <2>2, <3>1, WriteExecutes DEF Book!Next, Book!Status, Status
  <2>3. ASSUME NEW r \in Requests, NEW reply, Rejected(r, reply)
        PROVE  UNCHANGED <<orders, commands>>
    BY <2>3 DEF Rejected, tables
  <2>4. MemoryNext => UNCHANGED <<orders, commands>> \/ Book!Next
    BY <1>1, <2>1, <2>2, <2>3, MemoryStepIsKnown
  <2>5. ASSUME NEW v \in Venues, Poll(v) \/ Forget(v)
        PROVE  UNCHANGED <<orders, commands>>
    BY <2>5 DEF Poll, Forget, vars
  <2> QED BY <1>1, <2>4, <2>5 DEF StoreNext
<1>2. StoreInv /\ [StoreNext]_storeVars => [A]_storeVars
  BY <1>1
<1> HIDE DEF A
<1>3. StoreSpec => [][A]_storeVars
  BY <1>2, StoreInductive, PTL DEF StoreSpec
<1> QED BY <1>3 DEF A, MemoryKeepsTheBook
=============================================================================
