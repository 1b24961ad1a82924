------------------------- MODULE OrderRecordsProofs -------------------------
(***************************************************************************)
(* Theorems about what the order commands record and answer: the orders,    *)
(* the journal and the recorded answers tell one story, and every answer a  *)
(* client gets is a part of it.                                             *)
(***************************************************************************)
EXTENDS OrderCommandsProofs, FiniteSetTheorems

-----------------------------------------------------------------------------
(* Prefixes and time. *)

LEMMA PrefixOfItself ==
  ASSUME NEW h \in History
  PROVE  IsPrefix(h, h)
BY PrefixMeans, LenProperties DEF History

\* Along a history whose time grows, a change that is stamped later than all
\* of it may be appended.
LEMMA TimedAppend ==
  ASSUME NEW h \in History, NEW e \in StatusChange, NEW now \in Nat,
         Timed(h), Before(h, e.changedAt), e.changedAt < now
  PROVE  Timed(Append(h, e)) /\ Before(Append(h, e), now)
<1>1. /\ Len(h) \in Nat /\ Len(Append(h, e)) = Len(h) + 1
      /\ \A i \in 1 .. Len(h) : Append(h, e)[i] = h[i]
      /\ Append(h, e)[Len(h) + 1] = e
  BY AppendProperties, LenProperties DEF History
<1>2. /\ e.changedAt \in Nat
      /\ \A i \in 1 .. Len(h) : h[i].changedAt \in Nat
  <2>1. \A i \in 1 .. Len(h) : h[i] \in StatusChange
    BY ElementOfSeq DEF History
  <2> QED BY <2>1 DEF StatusChange
<1>3. Before(Append(h, e), now)
  BY <1>1, <1>2 DEF Before
<1>4. Timed(Append(h, e))
  <2>1. SUFFICES ASSUME NEW i \in 1 .. Len(h) + 1, NEW j \in 1 .. Len(h) + 1,
                        i < j
                 PROVE  Append(h, e)[i].changedAt < Append(h, e)[j].changedAt
    BY <1>1 DEF Timed
  <2>2. CASE j \in 1 .. Len(h)
    <3>1. i \in 1 .. Len(h)
      BY <1>1, <2>1, <2>2
    <3>2. h[i].changedAt < h[j].changedAt
      BY <2>1, <2>2, <3>1 DEF Timed
    <3> QED BY <1>1, <2>2, <3>1, <3>2
  <2>3. CASE j = Len(h) + 1
    <3>1. i \in 1 .. Len(h)
      BY <1>1, <2>1, <2>3
    <3>2. h[i].changedAt < e.changedAt
      BY <3>1 DEF Before
    <3> QED BY <1>1, <2>3, <3>1, <3>2
  <2> QED BY <1>1, <2>2, <2>3
<1> QED BY <1>3, <1>4

-----------------------------------------------------------------------------
(* Orders stay whose they are, and only grow. *)

RowsLast ==
  \A o \in Orders : orders[o] # None =>
    /\ orders'[o] # None
    /\ orders'[o].customer = orders[o].customer
    /\ orders'[o].venue = orders[o].venue
    /\ orders'[o].createKey = orders[o].createKey
    /\ \A b \in History : IsPrefix(b, orders[o].history) =>
         IsPrefix(b, orders'[o].history)

\* What a subject may see it sees for ever.
LEMMA VisibleLasts ==
  ASSUME RowsLast, NEW c, NEW o \in Orders, Visible(c, o)
  PROVE  Visible(c, o)'
BY DEF RowsLast, Visible

\* What was once the outcome of a command stays an outcome of it.
LEMMA OutcomeLasts ==
  ASSUME RowsLast, NEW c, NEW o, NEW h, IsOutcome(c, o, h)
  PROVE  IsOutcome(c, o, h)'
<1>1. Concerns(c, o)'
  BY VisibleLasts DEF RowsLast, IsOutcome, Concerns
<1>2. IsPrefix(h, orders'[o].history)
  BY DEF RowsLast, IsOutcome, Concerns
<1> QED BY <1>1, <1>2 DEF IsOutcome

\* Two commands with one key and one body have the same outcomes.
LEMMA SameOutcome ==
  ASSUME NEW c, NEW d, CommandId(c) = CommandId(d), c.body = d.body,
         NEW o, NEW h, IsOutcome(c, o, h)
  PROVE  IsOutcome(d, o, h)
<1>1. /\ c.subject = d.subject /\ c.operation = d.operation
      /\ c.order = d.order /\ c.key = d.key
  BY DEF CommandId
<1>2. Target(c) = Target(d)
  BY <1>1 DEF Target
<1> QED BY <1>1, <1>2 DEF IsOutcome, Concerns, Visible

-----------------------------------------------------------------------------
(* Steps that write nothing. *)

\* Nothing is written; numbers and times may have been taken.
Quiet == /\ UNCHANGED <<orders, commands, journal>>
         /\ nextSeq' \in Nat /\ nextSeq' >= nextSeq
         /\ clock' \in Nat /\ clock' >= clock

LEMMA QuietTables ==
  ASSUME TypeOK, TablesAgree, Quiet
  PROVE  TablesAgree'
<1>1. RowsLast
  BY DEF RowsLast, Quiet
<1>2. RecordsAreTrue' /\ CreateKeyNamesOrder'
  BY DEF TablesAgree, RecordsAreTrue, CreateKeyNamesOrder, RecordedIds, Quiet,
         IsOutcome, Concerns, Visible
<1>3. EventsAreNumbered'
  BY DEF TablesAgree, EventsAreNumbered, Quiet, TypeOK
<1>4. JournalTellsHistory'
  BY DEF TablesAgree, JournalTellsHistory, HistoryOf, Quiet
<1>5. TimesIncrease'
  <2> SUFFICES ASSUME NEW o \in Orders, orders[o] # None
               PROVE  Timed(orders[o].history) /\ Before(orders[o].history, clock')
    BY DEF TimesIncrease, Quiet
  <2>1. Timed(orders[o].history) /\ Before(orders[o].history, clock)
    BY DEF TablesAgree, TimesIncrease
  <2>2. \A i \in 1 .. Len(orders[o].history) :
          orders[o].history[i].changedAt \in Nat
    <3>1. orders[o].history \in Seq(StatusChange)
      BY DEF TypeOK, OrderRow, History
    <3>2. \A i \in 1 .. Len(orders[o].history) :
            orders[o].history[i] \in StatusChange
      BY <3>1, ElementOfSeq
    <3> QED BY <3>2 DEF StatusChange
  <2> QED BY <2>1, <2>2 DEF Before, Quiet, TypeOK
<1> QED BY <1>2, <1>3, <1>4, <1>5 DEF TablesAgree

\* A handler that does not move stays ready while nothing is written.
LEMMA QuietReady ==
  ASSUME TypeOK, Quiet, NEW s \in Requests, Ready(s), req'[s] = req[s],
         menuVersion' = menuVersion \/ OnCurrentMenu(s)'
  PROVE  Ready(s)'
<1>1. OnCurrentMenu(s)' /\ OwnsOrder(s)' /\ SawOutcome(s)' /\ NotRecorded(s)'
  BY DEF Ready, OnCurrentMenu, OwnsOrder, SawOutcome, NotRecorded, Changing,
         Holds, IsCreate, Visible, IsOutcome, Concerns, Recorded, Quiet
<1>2. KeyIsFree(s)'
  BY DEF Ready, KeyIsFree, Twin, IsCreate, Quiet
<1>3. DrewNumber(s)'
  BY DEF Ready, DrewNumber, NumberIsLater, Quiet, TypeOK
<1>4. TookTime(s)'
  BY DEF Ready, TookTime, Creating, Changing, IsCreate, Quiet, TypeOK, Handler
<1>5. AnswerIsTrue(s)'
  BY DEF Ready, AnswerIsTrue, Succeeded, Answered, IsOutcome, Concerns,
         Visible, Quiet
<1> QED BY <1>1, <1>2, <1>3, <1>4, <1>5 DEF Ready

\* While nothing is written, only the handler that moves has to get ready.
LEMMA QuietRecords ==
  ASSUME TypeOK, RecordInv, Quiet, menuVersion' = menuVersion,
         NEW r \in Requests, \A s \in Requests \ {r} : req'[s] = req[s],
         Ready(r)',
         req'[r].phase = "commit" =>
           \A s \in Requests \ {r} : req[s].phase = "commit" =>
             /\ req[s].seq # req'[r].seq
             /\ IsCreate(r)' => ~InsertsFor(s, req'[r].command.subject,
                                            req'[r].command.key)
  PROVE  RecordInv'
<1>1. TablesAgree'
  BY QuietTables DEF RecordInv
<1>2. HandlersAreReady'
  BY QuietReady DEF RecordInv, HandlersAreReady
<1>3. WritersDiffer'
  BY DEF RecordInv, WritersDiffer, InsertsFor, IsCreate
<1> QED BY <1>1, <1>2, <1>3 DEF RecordInv

\* A handler that holds nothing yet, or nothing any more, is ready.
LEMMA NothingHeld ==
  ASSUME NEW r, req'[r].phase \in {"idle", "replay", "prepare", "load"}
  PROVE  Ready(r)'
BY DEF Ready, OnCurrentMenu, OwnsOrder, SawOutcome, NotRecorded, KeyIsFree,
       DrewNumber, TookTime, AnswerIsTrue, Creating, Changing, Holds,
       Succeeded, Answered

\* A handler that has its answer is ready when the answer is true.
LEMMA AnsweredReady ==
  ASSUME NEW r, req'[r].phase = "done", AnswerIsTrue(r)'
  PROVE  Ready(r)'
BY DEF Ready, OnCurrentMenu, OwnsOrder, SawOutcome, NotRecorded, KeyIsFree,
       DrewNumber, TookTime, Creating, Changing, Holds

\* What a handler that is answered looks like.
LEMMA AnswerMeans ==
  ASSUME TypeOK, NEW r \in Requests, NEW reply, Answer(r, reply)
  PROVE  /\ req'[r].phase = "done" /\ req'[r].command = req[r].command
         /\ req'[r].reply = reply
         /\ \A s \in Requests \ {r} : req'[s] = req[s]
BY DEF Answer, Idle, TypeOK, Handler

\* A success that shows an outcome of the command is a true answer.
LEMMA SuccessReady ==
  ASSUME TypeOK, NEW r \in Requests, NEW o, NEW h, Answer(r, Success(o, h)),
         NEW c, c = req[r].command, IsOutcome(c, o, h)'
  PROVE  Ready(r)'
<1>1. /\ req'[r].phase = "done" /\ req'[r].command = c
      /\ req'[r].reply = [code |-> "ok", order |-> o, history |-> h]
  BY AnswerMeans DEF Success, Reply
<1>2. o \in Orders /\ h \in History
  BY DEF IsOutcome, Concerns
<1>3. req'[r].reply \in [code : {"ok"}, order : Orders, history : History]
  BY <1>1, <1>2
<1>4. AnswerIsTrue(r)'
  BY <1>1, <1>3 DEF AnswerIsTrue
<1> QED BY <1>1, <1>4, AnsweredReady

LEMMA QuietOutcome ==
  ASSUME orders' = orders, NEW c, NEW o, NEW h, IsOutcome(c, o, h)
  PROVE  IsOutcome(c, o, h)'
BY DEF IsOutcome, Concerns, Visible

\* A problem is a true answer.
LEMMA ProblemRecords ==
  ASSUME TypeOK, RecordInv, Quiet, menuVersion' = menuVersion,
         NEW r \in Requests, NEW code, code # "ok", Answer(r, Problem(code))
  PROVE  RecordInv'
<1>1. /\ req'[r].phase = "done" /\ req'[r].reply = Problem(code)
      /\ \A s \in Requests \ {r} : req'[s] = req[s]
  BY AnswerMeans
<1>2. AnswerIsTrue(r)'
  BY <1>1 DEF AnswerIsTrue, Succeeded, Problem, Reply
<1> QED BY <1>1, <1>2, AnsweredReady, QuietRecords

\* A recorded answer is a true answer to the same command.
LEMMA RecordedRecords ==
  ASSUME TypeOK, PathsFit, RecordInv, Quiet, menuVersion' = menuVersion,
         NEW r \in Requests, req[r].phase # "idle", Recorded(r),
         AnswerRecorded(r)
  PROVE  RecordInv'
<1> DEFINE c == req[r].command
           row == commands[CommandId(c)]
<1>1. c \in Commands /\ CommandId(c) \in RecordedIds
  BY DEF PathsFit, Fits, RecordedIds, CommandIds, Recorded
<1>2. CASE row.hash # c.body
  <2>1. Answer(r, Problem("idempotency_key_reused"))
    BY <1>2 DEF AnswerRecorded
  <2> QED BY <2>1, ProblemRecords
<1>3. CASE row.hash = c.body
  <2>1. Answer(r, Success(row.response.order, row.response.history))
    BY <1>3 DEF AnswerRecorded
  <2>2. IsOutcome(c, row.response.order, row.response.history)
    <3>1. PICK d \in Commands :
             /\ CommandId(d) = CommandId(c) /\ d.body = row.hash
             /\ IsOutcome(d, row.response.order, row.response.history)
      BY <1>1 DEF RecordInv, TablesAgree, RecordsAreTrue
    <3> QED BY <1>3, <3>1, SameOutcome
  <2>3. Ready(r)'
    <3> HIDE DEF row
    <3> QED BY <2>1, <2>2, QuietOutcome, SuccessReady DEF Quiet
  <2>4. /\ req'[r].phase = "done"
        /\ \A s \in Requests \ {r} : req'[s] = req[s]
    BY <2>1, AnswerMeans
  <2> QED BY <2>3, <2>4, QuietRecords
<1> QED BY <1>2, <1>3

-----------------------------------------------------------------------------
(* Steps that write. *)

\* A handler that may record its change: its command has no answer, nobody
\* else inserts for its key, and its number is later than its order's events.
MayRecord(r, seq) ==
  /\ MayWrite(r)
  /\ ~Recorded(r)
  /\ NumberIsLater(seq, req[r].order)
  /\ \A s \in Requests \ {r} : req[s].phase = "commit" =>
       /\ req[s].seq # seq
       /\ IsCreate(r) => ~InsertsFor(s, req[r].command.subject,
                                     req[r].command.key)

\* The effect of a write: the tables, and the handler that has its answer.
Effect(r, seq) ==
  /\ Writes(r, seq)
  /\ \/ Answer(r, Success(req[r].order, Draft(r)))
     \/ Answer(r, Problem("internal_error"))
  /\ nextSeq' \in Nat /\ nextSeq' >= nextSeq /\ seq \in 1 .. nextSeq' - 1
  /\ UNCHANGED <<menuVersion, clock, received>>

\* The order that was written is the one before with a longer history.
LEMMA RowGrows ==
  ASSUME GroundInv, NEW r \in Requests, MayWrite(r),
         orders' = [orders EXCEPT ![req[r].order] = Row(r)]
  PROVE  /\ orders'[req[r].order] = Row(r) /\ Row(r) # None
         /\ \A p \in Orders \ {req[r].order} : orders'[p] = orders[p]
         /\ RowsLast
<1> DEFINE o == req[r].order
           h == HistoryOf(o)
<1> TypeOK
  BY DEF GroundInv
<1>1. /\ o \in Orders /\ Row(r) \in OrderRow /\ Row(r).history = Draft(r)
      /\ h \in History /\ Move(r) \in StatusChange
      /\ Draft(r) = Append(h, Move(r))
      /\ IsCreate(r) => orders[o] = None
      /\ ~IsCreate(r) => /\ orders[o] \in OrderRow /\ orders[o] # None
                         /\ h = orders[o].history
  BY DraftMoves
<1> HIDE DEF h
<1>2. /\ orders'[o] = Row(r) /\ Row(r) # None
      /\ \A p \in Orders \ {o} : orders'[p] = orders[p]
  BY <1>1, NoneIsAbsent DEF TypeOK
<1>3. ~IsCreate(r) => /\ Row(r).customer = orders[o].customer
                      /\ Row(r).venue = orders[o].venue
                      /\ Row(r).createKey = orders[o].createKey
  BY <1>1 DEF Row, OrderRow
<1>4. \A b \in History : IsPrefix(b, h) => IsPrefix(b, Draft(r))
  BY <1>1, PrefixOfAppend DEF History
<1>5. RowsLast
  BY <1>1, <1>2, <1>3, <1>4 DEF RowsLast
<1> QED BY <1>2, <1>5

\* What was written is the outcome of the command.
LEMMA DraftIsOutcome ==
  ASSUME GroundInv, NEW r \in Requests, MayWrite(r), OwnsOrder(r),
         orders' = [orders EXCEPT ![req[r].order] = Row(r)],
         NEW c, c = req[r].command, NEW o, o = req[r].order,
         NEW draft, draft = Draft(r)
  PROVE  IsOutcome(c, o, draft)'
<1> DEFINE h == HistoryOf(o)
<1>1. /\ o \in Orders /\ c \in Commands /\ Row(r).history = Draft(r)
      /\ h \in History /\ Move(r) \in StatusChange
      /\ Draft(r) = Append(h, Move(r)) /\ Draft(r) # <<>>
      /\ ~IsCreate(r) => Changing(r)
  BY DraftMoves
<1> HIDE DEF h
<1>2. orders'[o] = Row(r) /\ Row(r) # None /\ RowsLast
  BY RowGrows
<1>3. Draft(r) \in History /\ StatusOf(Draft(r)) = Target(c)
  BY <1>1, AppendProperties, LenProperties
  DEF History, StatusOf, Last, Move
<1>4. Concerns(c, o)'
  <2>1. CASE IsCreate(r)
    BY <1>1, <1>2, <2>1 DEF Concerns, IsCreate, Row
  <2>2. CASE ~IsCreate(r)
    <3>1. Visible(c, o) /\ c.order = o
      BY <1>1, <2>2
      DEF OwnsOrder, GroundInv, PathsFit, Fits, Changing, Active,
          InTransaction
    <3>2. Visible(c, o)'
      BY <1>1, <1>2, <3>1, VisibleLasts
    <3> QED BY <1>1, <1>2, <2>2, <3>1, <3>2 DEF Concerns, IsCreate
  <2> QED BY <2>1, <2>2
<1>5. IsPrefix(draft, orders'[o].history)
  BY <1>1, <1>2, <1>3, PrefixOfItself
<1> QED BY <1>1, <1>3, <1>4, <1>5 DEF IsOutcome

\* What a write does to the recorded answers.
LEMMA RowOfCommand ==
  ASSUME TypeOK, PathsFit, NEW r \in Requests, Creating(r) \/ Changing(r),
         NEW seq, Writes(r, seq), NEW id, id = CommandId(req[r].command)
  PROVE  /\ id \in CommandIds
         /\ commands'[id].hash = req[r].command.body
         /\ commands'[id].response.order = req[r].order
         /\ commands'[id].response.history = Draft(r)
         /\ commands'[id] # None
         /\ \A d \in CommandIds \ {id} : commands'[d] = commands[d]
<1> DEFINE row == [hash |-> req[r].command.body,
                   response |-> [order |-> req[r].order, history |-> Draft(r)]]
<1>1. /\ req[r].command \in Commands /\ req[r].order \in Orders
      /\ Draft(r) \in History
  BY RowType, DraftType DEF PathsFit, Fits, Creating, Changing
<1>2. id \in CommandIds
  BY <1>1 DEF CommandIds
<1>3. row \in CommandRow /\ row # None
  BY <1>1, NoneIsAbsent DEF CommandRow
<1>4. commands' = [commands EXCEPT ![id] = row]
  BY DEF Writes
<1> HIDE DEF row
<1>5. /\ commands'[id] = row
      /\ \A d \in CommandIds \ {id} : commands'[d] = commands[d]
  BY <1>2, <1>4 DEF TypeOK
<1> QED BY <1>2, <1>3, <1>5 DEF row

\* A recorded answer stays, and the new one is true.
LEMMA WriteRecorded ==
  ASSUME GroundInv, TablesAgree, NEW r \in Requests, OwnsOrder(r),
         NEW seq, MayRecord(r, seq), Effect(r, seq)
  PROVE  RecordsAreTrue' /\ CreateKeyNamesOrder'
<1> DEFINE c == req[r].command
           o == req[r].order
           id == CommandId(c)
<1> TypeOK /\ PathsFit /\ MayWrite(r) /\ Writes(r, seq)
  BY DEF GroundInv, MayRecord, Effect
<1>1. /\ o \in Orders /\ c \in Commands
      /\ IsCreate(r) => orders[o] = None
      /\ ~IsCreate(r) => orders[o] # None
  BY DraftMoves
<1>2. orders'[o] = Row(r) /\ Row(r) # None /\ RowsLast
  BY RowGrows DEF Writes
<1>3. /\ id \in CommandIds
      /\ commands'[id].hash = c.body /\ commands'[id].response.order = o
      /\ commands'[id].response.history = Draft(r) /\ commands'[id] # None
      /\ \A d \in CommandIds \ {id} : commands'[d] = commands[d]
  BY RowOfCommand DEF MayWrite
<1>4. ASSUME NEW d \in RecordedIds
      PROVE  d # id /\ commands'[d] = commands[d] /\ d \in RecordedIds'
  <2>1. d # id
    BY DEF MayRecord, Recorded, RecordedIds
  <2> QED BY <1>3, <2>1 DEF RecordedIds
<1>5. RecordsAreTrue'
  <2> SUFFICES ASSUME NEW d \in CommandIds, commands'[d] # None
               PROVE  \E b \in Commands :
                        /\ CommandId(b) = d /\ b.body = commands'[d].hash
                        /\ IsOutcome(b, commands[d].response.order,
                                     commands[d].response.history)'
    BY DEF RecordsAreTrue, RecordedIds
  <2>1. CASE d = id
    <3>1. ASSUME NEW draft, draft = Draft(r), NEW c1, c1 = c, NEW o1, o1 = o
          PROVE  IsOutcome(c1, o1, draft)'
      BY <3>1, DraftIsOutcome DEF Writes
    <3> QED BY <1>1, <1>3, <2>1, <3>1
  <2>2. CASE d # id
    <3>1. d \in RecordedIds /\ commands'[d] = commands[d]
      BY <1>3, <2>2 DEF RecordedIds
    <3>2. PICK b \in Commands :
             /\ CommandId(b) = d /\ b.body = commands[d].hash
             /\ IsOutcome(b, commands[d].response.order,
                          commands[d].response.history)
      BY <3>1 DEF TablesAgree, RecordsAreTrue
    <3>3. ASSUME NEW o1, o1 = commands[d].response.order,
                 NEW h1, h1 = commands[d].response.history
          PROVE  IsOutcome(b, o1, h1)'
      BY <1>2, <3>2, <3>3, OutcomeLasts
    <3> QED BY <3>1, <3>2, <3>3
  <2> QED BY <2>1, <2>2
<1>6. CreateKeyNamesOrder'
  <2> SUFFICES ASSUME NEW p \in Orders, orders'[p] # None,
                      NEW d, d = <<orders'[p].customer, "create_order", None,
                                   orders'[p].createKey>>
               PROVE  d \in RecordedIds' /\ commands'[d].response.order = p
    BY DEF CreateKeyNamesOrder
  <2>1. CASE p = o /\ IsCreate(r)
    <3>1. c.operation = "create_order" /\ c.order = None
      BY <1>1, <2>1, CommandsType DEF IsCreate
    <3>2. orders'[p].customer = c.subject /\ orders'[p].createKey = c.key
      BY <1>2, <2>1 DEF Row
    <3>3. d = id
      BY <3>1, <3>2 DEF CommandId
    <3> QED BY <1>3, <2>1, <3>3 DEF RecordedIds
  <2>2. CASE p # o \/ ~IsCreate(r)
    <3>1. /\ orders[p] # None /\ orders'[p].customer = orders[p].customer
          /\ orders'[p].createKey = orders[p].createKey
      <4>1. p # o => orders'[p] = orders[p]
        BY RowGrows DEF Writes
      <4>2. orders[p] # None
        BY <1>1, <2>2, <4>1
      <4> QED BY <1>2, <4>2 DEF RowsLast
    <3>2. d \in RecordedIds /\ commands[d].response.order = p
      BY <3>1 DEF TablesAgree, CreateKeyNamesOrder
    <3> QED BY <1>4, <3>2
  <2> QED BY <2>1, <2>2
<1> QED BY <1>5, <1>6

\* The journal gets the event of the change, and only that one.
LEMMA WriteJournal ==
  ASSUME GroundInv, TablesAgree, NEW r \in Requests, TookTime(r),
         NEW seq, MayRecord(r, seq), Effect(r, seq)
  PROVE  EventsAreNumbered' /\ JournalTellsHistory' /\ TimesIncrease'
<1> DEFINE o == req[r].order
           h == HistoryOf(o)
           draft == Draft(r)
           ev == [seq |-> seq, venue |-> Row(r).venue, order |-> o,
                  history |-> draft]
<1> TypeOK /\ PathsFit /\ MayWrite(r) /\ Writes(r, seq)
  BY DEF GroundInv, MayRecord, Effect
<1>1. /\ o \in Orders /\ Row(r).history = draft
      /\ h \in History /\ Move(r) \in StatusChange
      /\ draft = Append(h, Move(r)) /\ draft # <<>>
      /\ req[r].base = h
      /\ IsCreate(r) => Creating(r) /\ orders[o] = None
      /\ ~IsCreate(r) => /\ Changing(r) /\ orders[o] # None
                         /\ h = orders[o].history
  BY DraftMoves
<1>2. /\ orders'[o] = Row(r) /\ Row(r) # None /\ RowsLast
      /\ \A p \in Orders \ {o} : orders'[p] = orders[p]
  BY RowGrows DEF Writes
<1>3. /\ journal' = journal \cup {ev}
      /\ ev.seq = seq /\ ev.order = o /\ ev.history = draft
      /\ ev.venue = Row(r).venue
  BY DEF Writes
<1>4. /\ draft \in History /\ Len(h) \in Nat /\ Len(draft) = Len(h) + 1
  BY <1>1, AppendProperties, LenProperties DEF History
<1>5. /\ nextSeq \in Nat /\ nextSeq' \in Nat /\ nextSeq' >= nextSeq
      /\ seq \in 1 .. nextSeq' - 1 /\ NumberIsLater(seq, o)
  BY DEF Effect, MayRecord, TypeOK
<1>6. ASSUME NEW e \in journal
      PROVE  /\ e.order \in Orders /\ orders[e.order] # None
             /\ e.history \in History /\ e.history # <<>>
             /\ e.seq \in 1 .. nextSeq - 1
             /\ e.seq # seq
             /\ IsPrefix(e.history, orders[e.order].history)
             /\ e.venue = orders[e.order].venue
  BY <1>5 DEF TablesAgree, EventsAreNumbered, JournalTellsHistory, HistoryOf,
              TypeOK, NumberIsLater
<1> HIDE DEF ev, h, draft
<1>7. EventsAreNumbered'
  <2>1. nextSeq' >= 1 /\ IsFiniteSet(journal')
    BY <1>3, <1>5, FS_AddElement DEF TablesAgree, EventsAreNumbered
  <2>2. ASSUME NEW e \in journal'
        PROVE  /\ e.seq \in 1 .. nextSeq' - 1
               /\ orders'[e.order] # None /\ e.history # <<>>
    <3>1. CASE e \in journal
      BY <1>2, <1>5, <1>6, <3>1 DEF RowsLast
    <3>2. CASE e = ev
      BY <1>1, <1>2, <1>3, <1>5, <3>2
    <3> QED BY <1>3, <3>1, <3>2
  <2>3. ASSUME NEW e \in journal', NEW f \in journal', e.seq = f.seq
        PROVE  e = f
    BY <1>3, <1>6, <2>3 DEF TablesAgree, EventsAreNumbered
  <2> QED BY <2>1, <2>2, <2>3 DEF EventsAreNumbered
<1>8. JournalTellsHistory'
  <2>1. ASSUME NEW e \in journal'
        PROVE  /\ IsPrefix(e.history, HistoryOf(e.order)')
               /\ e.venue = orders'[e.order].venue
    <3>1. CASE e \in journal
      BY <1>2, <1>6, <3>1 DEF RowsLast, HistoryOf
    <3>2. CASE e = ev
      <4>1. HistoryOf(e.order)' = draft
        BY <1>1, <1>2, <1>3, <3>2 DEF HistoryOf
      <4> QED BY <1>2, <1>3, <1>4, <3>2, <4>1, PrefixOfItself
    <3> QED BY <1>3, <3>1, <3>2
  <2>2. ASSUME NEW p \in Orders, NEW n \in 1 .. Len(HistoryOf(p)')
        PROVE  \E e \in journal' : e.order = p /\ Len(e.history) = n
    <3>1. CASE n \in 1 .. Len(HistoryOf(p))
      BY <1>3, <3>1 DEF TablesAgree, JournalTellsHistory
    <3>2. CASE n \notin 1 .. Len(HistoryOf(p))
      <4>1. p = o
        BY <1>2, <3>2 DEF HistoryOf
      <4>2. HistoryOf(p)' = draft /\ HistoryOf(p) = h
        BY <1>1, <1>2, <4>1 DEF HistoryOf, h
      <4>3. n = Len(draft)
        BY <1>4, <3>2, <4>2
      <4> QED BY <1>3, <4>1, <4>3
    <3> QED BY <3>1, <3>2
  <2>3. ASSUME NEW e \in journal, e.order = o
        PROVE  e.seq < seq /\ Len(e.history) < Len(draft)
               /\ e.seq \in Nat /\ Len(e.history) \in Nat
    <3>1. e.seq < seq /\ e.seq \in Nat
      BY <1>5, <1>6, <2>3 DEF NumberIsLater
    <3>2. IsPrefix(e.history, h)
      BY <1>1, <1>6, <2>3
    <3>3. Len(e.history) <= Len(h) /\ Len(e.history) \in Nat
      BY <1>1, <1>6, <3>2, PrefixMeans, LenProperties DEF History
    <3> QED BY <1>4, <3>1, <3>3
  <2>4. ASSUME NEW e \in journal', NEW f \in journal', e.order = f.order
        PROVE  e.seq < f.seq <=> Len(e.history) < Len(f.history)
    <3>1. CASE e \in journal /\ f \in journal
      BY <2>4, <3>1 DEF TablesAgree, JournalTellsHistory
    <3>2. CASE e = ev /\ f = ev
      BY <1>3, <1>4, <1>5, <3>2
    <3>3. CASE e \in journal /\ f = ev
      BY <1>3, <2>3, <2>4, <3>3
    <3>4. CASE e = ev /\ f \in journal
      BY <1>3, <1>4, <1>5, <2>3, <2>4, <3>4
    <3> QED BY <1>3, <3>1, <3>2, <3>3, <3>4
  <2> QED BY <2>1, <2>2, <2>4 DEF JournalTellsHistory
<1>9. TimesIncrease'
  <2>1. Timed(h) /\ Before(h, Move(r).changedAt) /\ Move(r).changedAt < clock
    <3>1. Before(h, req[r].at) /\ req[r].at < clock
      BY <1>1 DEF TookTime
    <3>2. Timed(h)
      <4>1. CASE IsCreate(r)
        <5>1. h = <<>>
          BY <1>1, <4>1 DEF h, HistoryOf
        <5> QED BY <5>1 DEF Timed
      <4>2. CASE ~IsCreate(r)
        BY <1>1, <4>2 DEF TablesAgree, TimesIncrease
      <4> QED BY <4>1, <4>2
    <3> QED BY <3>1, <3>2 DEF Move
  <2>2. Timed(draft) /\ Before(draft, clock)
    BY <1>1, <2>1, TimedAppend DEF TypeOK
  <2>3. orders'[o].history = draft /\ clock' = clock
    BY <1>1, <1>2 DEF Effect
  <2> SUFFICES ASSUME NEW p \in Orders, orders'[p] # None
               PROVE  Timed(orders'[p].history) /\ Before(orders'[p].history, clock')
    BY DEF TimesIncrease
  <2> QED BY <1>2, <2>2, <2>3 DEF TablesAgree, TimesIncrease
<1> QED BY <1>7, <1>8, <1>9

\* Nobody else's footing is touched by a write: row locks, unique keys and
\* numbers keep the writers apart.
LEMMA WriteReady ==
  ASSUME GroundInv, RecordInv, NEW r \in Requests,
         NEW seq, MayRecord(r, seq), Effect(r, seq),
         NEW s \in Requests \ {r}, req'[s] = req[s]
  PROVE  Ready(s)'
<1> DEFINE o == req[r].order
           id == CommandId(req[r].command)
<1> TypeOK /\ PathsFit /\ MayWrite(r) /\ Writes(r, seq) /\ Ready(s)
  BY DEF GroundInv, RecordInv, HandlersAreReady, MayRecord, Effect
<1>1. /\ o \in Orders /\ req[r].command \in Commands
      /\ IsCreate(r) => Creating(r) /\ orders[o] = None
      /\ ~IsCreate(r) => Changing(r) /\ orders[o] # None
  BY DraftMoves
<1>2. /\ orders'[o] = Row(r) /\ Row(r) # None /\ RowsLast
      /\ \A p \in Orders \ {o} : orders'[p] = orders[p]
  BY RowGrows DEF Writes
<1>3. \A d \in CommandIds \ {id} : commands'[d] = commands[d]
  BY RowOfCommand DEF MayWrite
<1>4. /\ menuVersion' = menuVersion /\ clock' = clock
      /\ nextSeq \in Nat /\ nextSeq' \in Nat /\ nextSeq' >= nextSeq
  BY DEF Effect, TypeOK
<1>5. /\ Creating(s)' <=> Creating(s)
      /\ Changing(s)' <=> Changing(s)
      /\ Holds(s)' <=> Holds(s)
      /\ IsCreate(s)' <=> IsCreate(s)
  BY DEF Creating, Changing, Holds, IsCreate
<1>6. /\ Creating(s) => req[s].order # o
      /\ Holds(s) => req[s].order # o
  <2>1. Creating(s) => orders[req[s].order] = None
    BY DEF GroundInv, NewOrdersAreNew
  <2>2. Holds(s) => orders[req[s].order] # None
    BY DEF PathsFit, Fits, Holds, Changing
  <2>3. CASE IsCreate(r)
    BY <1>1, <2>2, <2>3 DEF GroundInv, NewOrdersAreNew
  <2>4. CASE ~IsCreate(r)
    BY <1>1, <2>1, <2>4 DEF MayWrite
  <2> QED BY <2>3, <2>4
<1>7. req[s].phase # "idle" => req[s].command \in Commands
  BY DEF PathsFit, Fits
<1>8. OnCurrentMenu(s)' /\ TookTime(s)'
  BY <1>4, <1>5 DEF Ready, OnCurrentMenu, TookTime
<1>9. OwnsOrder(s)'
  <2> SUFFICES ASSUME Changing(s)
               PROVE  Visible(req[s].command, req[s].order)'
    BY <1>5 DEF OwnsOrder
  <2>1. Visible(req[s].command, req[s].order) /\ req[s].order \in Orders
    BY DEF Ready, OwnsOrder, PathsFit, Fits, Changing, Active, InTransaction
  <2> QED BY <1>2, <2>1 DEF RowsLast, Visible
<1>10. SawOutcome(s)'
  <2> SUFFICES ASSUME req[s].phase = "compare",
                      NEW c, c = req[s].command, NEW p, p = req[s].order,
                      NEW h, h = req[s].base
               PROVE  IsOutcome(c, p, h)'
    BY DEF SawOutcome
  <2>1. IsOutcome(c, p, h)
    BY DEF Ready, SawOutcome
  <2> QED BY <1>2, <2>1, OutcomeLasts
<1>11. NotRecorded(s)'
  <2> SUFFICES ASSUME Holds(s)
               PROVE  commands'[CommandId(req[s].command)] = None
    BY <1>5 DEF NotRecorded, Recorded
  <2>1. /\ commands[CommandId(req[s].command)] = None
        /\ CommandId(req[s].command) \in CommandIds
    BY <1>7 DEF Ready, NotRecorded, Recorded, Holds, CommandIds
  <2>2. CommandId(req[s].command) # id
    <3> SUFFICES ASSUME CommandId(req[s].command) = id PROVE FALSE
      OBVIOUS
    <3>1. /\ req[s].command.order = req[r].command.order
          /\ ~IsCreate(s) /\ ~IsCreate(r)
      BY DEF CommandId, Holds, IsCreate
    <3>2. req[s].order = req[s].command.order
      BY <3>1 DEF PathsFit, Fits, Holds, Active, InTransaction
    <3>3. req[r].order = req[r].command.order
      BY <1>1, <3>1 DEF PathsFit, Fits, Changing, Active, InTransaction
    <3> QED BY <1>6, <3>1, <3>2, <3>3
  <2> QED BY <1>3, <2>1, <2>2
<1>12. KeyIsFree(s)'
  <2> SUFFICES ASSUME req[s].phase = "commit", IsCreate(s), NEW p \in Orders,
                      Twin(s, p)'
               PROVE  FALSE
    BY <1>5 DEF KeyIsFree
  <2>1. ~Twin(s, p)
    BY DEF Ready, KeyIsFree
  <2>2. CASE p # o \/ ~IsCreate(r)
    BY <1>1, <1>2, <2>1, <2>2 DEF Twin, RowsLast
  <2>3. CASE p = o /\ IsCreate(r)
    <3>1. /\ req[s].command.subject = req[r].command.subject
          /\ req[s].command.key = req[r].command.key
      BY <1>2, <2>3 DEF Twin, Row
    <3>2. InsertsFor(s, req[r].command.subject, req[r].command.key)
      BY <3>1 DEF InsertsFor
    <3> QED BY <2>3, <3>2 DEF MayRecord
  <2> QED BY <2>2, <2>3
<1>13. DrewNumber(s)'
  <2> SUFFICES ASSUME req[s].phase = "commit"
               PROVE  /\ req[s].seq \in 1 .. nextSeq' - 1
                      /\ \A e \in journal' :
                           /\ e.seq # req[s].seq
                           /\ e.order = req[s].order => e.seq < req[s].seq
    BY DEF DrewNumber, NumberIsLater
  <2>1. /\ req[s].seq \in 1 .. nextSeq - 1
        /\ NumberIsLater(req[s].seq, req[s].order)
    BY DEF Ready, DrewNumber
  <2>2. req[s].order # o
    BY <1>6 DEF Creating, Holds
  <2>3. seq # req[s].seq
    BY DEF MayRecord
  <2>4. journal' = journal \cup {[seq |-> seq, venue |-> Row(r).venue,
                                  order |-> o, history |-> Draft(r)]}
    BY DEF Writes
  <2> QED BY <1>4, <2>1, <2>2, <2>3, <2>4 DEF NumberIsLater
<1>14. AnswerIsTrue(s)'
  <2> SUFFICES ASSUME Succeeded(s),
                      NEW c, c = req[s].command,
                      NEW p, p = req[s].reply.order,
                      NEW h, h = req[s].reply.history
               PROVE  IsOutcome(c, p, h)'
    BY DEF Ready, AnswerIsTrue, Succeeded, Answered
  <2>1. IsOutcome(c, p, h)
    BY DEF Ready, AnswerIsTrue
  <2> QED BY <1>2, <2>1, OutcomeLasts
<1> QED BY <1>8, <1>9, <1>10, <1>11, <1>12, <1>13, <1>14 DEF Ready

LEMMA WriteRecords ==
  ASSUME GroundInv, RecordInv, NEW r \in Requests,
         NEW seq, MayRecord(r, seq), Effect(r, seq)
  PROVE  RecordInv'
<1> TypeOK /\ PathsFit /\ MayWrite(r) /\ Writes(r, seq) /\ Ready(r)
  BY DEF GroundInv, RecordInv, HandlersAreReady, MayRecord, Effect
<1>1. req'[r].phase = "done" /\ \A s \in Requests \ {r} : req'[s] = req[s]
  BY AnswerMeans DEF Effect
<1>2. TablesAgree'
  BY WriteRecorded, WriteJournal DEF RecordInv, Ready, TablesAgree
<1>3. Ready(r)'
  <2>1. CASE Answer(r, Success(req[r].order, Draft(r)))
    <3>1. ASSUME NEW c, c = req[r].command, NEW o, o = req[r].order,
                 NEW draft, draft = Draft(r)
          PROVE  Ready(r)'
      <4>1. IsOutcome(c, o, draft)'
        BY <3>1, DraftIsOutcome DEF Writes, Ready
      <4>2. Answer(r, Success(o, draft))
        BY <2>1, <3>1
      <4> QED BY <3>1, <4>1, <4>2, SuccessReady
    <3> QED BY <3>1
  <2>2. CASE Answer(r, Problem("internal_error"))
    <3>1. req'[r].phase = "done" /\ req'[r].reply = Problem("internal_error")
      BY <2>2, AnswerMeans
    <3>2. AnswerIsTrue(r)'
      BY <3>1 DEF AnswerIsTrue, Succeeded, Problem, Reply
    <3> QED BY <3>1, <3>2, AnsweredReady
  <2> QED BY <2>1, <2>2 DEF Effect
<1>4. HandlersAreReady'
  BY <1>1, <1>3, WriteReady DEF HandlersAreReady
<1>5. WritersDiffer'
  BY <1>1 DEF RecordInv, WritersDiffer, InsertsFor, IsCreate
<1> QED BY <1>2, <1>4, <1>5 DEF RecordInv

\* A key that names no order has no answer.
LEMMA FreeKeyIsUnrecorded ==
  ASSUME RecordsAreTrue, NEW r \in Requests, req[r].command \in Commands,
         IsCreate(r), \A o \in Orders : ~Twin(r, o)
  PROVE  ~Recorded(r)
<1> SUFFICES ASSUME Recorded(r) PROVE FALSE
  OBVIOUS
<1> DEFINE id == CommandId(req[r].command)
<1>1. id \in RecordedIds
  BY DEF RecordedIds, CommandIds, Recorded
<1>2. PICK c \in Commands :
         /\ CommandId(c) = id
         /\ Concerns(c, commands[id].response.order)
  BY <1>1 DEF RecordsAreTrue, IsOutcome
<1>3. /\ c.operation = "create_order" /\ c.subject = req[r].command.subject
      /\ c.key = req[r].command.key
  BY <1>2 DEF CommandId, IsCreate
<1> QED BY <1>2, <1>3 DEF Concerns, Twin

\* A handler that commits may record its change.
LEMMA CommitMayRecord ==
  ASSUME GroundInv, RecordInv, NEW r \in Requests, req[r].phase = "commit"
  PROVE  MayRecord(r, req[r].seq) /\ req[r].seq \in 1 .. nextSeq - 1
<1> Ready(r)
  BY DEF RecordInv, HandlersAreReady
<1>1. MayWrite(r)
  BY CommitMayWrite
<1>2. ~Recorded(r)
  <2>1. CASE IsCreate(r)
    <3>1. req[r].command \in Commands
      BY DEF GroundInv, PathsFit, Fits
    <3> QED BY <2>1, <3>1, FreeKeyIsUnrecorded
            DEF RecordInv, TablesAgree, Ready, KeyIsFree
  <2>2. CASE ~IsCreate(r)
    BY <2>2 DEF Ready, NotRecorded, Holds
  <2> QED BY <2>1, <2>2
<1>3. /\ NumberIsLater(req[r].seq, req[r].order)
      /\ req[r].seq \in 1 .. nextSeq - 1
  BY DEF Ready, DrewNumber
<1>4. \A s \in Requests \ {r} : req[s].phase = "commit" =>
        /\ req[s].seq # req[r].seq
        /\ IsCreate(r) => ~InsertsFor(s, req[r].command.subject,
                                      req[r].command.key)
  BY DEF RecordInv, WritersDiffer
<1> QED BY <1>1, <1>2, <1>3, <1>4 DEF MayRecord

LEMMA CommitRecords ==
  ASSUME GroundInv, RecordInv, NEW r \in Requests,
         Commit(r) \/ CommitUnacknowledged(r)
  PROVE  RecordInv'
<1>1. req[r].phase = "commit"
  BY DEF Commit, CommitUnacknowledged
<1>2. MayRecord(r, req[r].seq) /\ req[r].seq \in 1 .. nextSeq - 1
  BY <1>1, CommitMayRecord
<1>3. Effect(r, req[r].seq)
  BY <1>2 DEF Commit, CommitUnacknowledged, Write, Writes, Effect, GroundInv,
              TypeOK
<1> QED BY <1>2, <1>3, WriteRecords

-----------------------------------------------------------------------------
(* Every step. *)

LEMMA StepRecords ==
  ASSUME GroundInv, RecordInv, [Next]_vars
  PROVE  RecordInv'
<1> TypeOK /\ PathsFit
  BY DEF GroundInv
<1>1. /\ nextSeq \in Nat /\ clock \in Nat
      /\ UNCHANGED <<tables, nextSeq, clock>> =>
           Quiet /\ menuVersion' = menuVersion
  BY DEF TypeOK, Quiet, tables
<1>2. ASSUME NEW r \in Requests,
             req'[r].phase \in {"idle", "replay", "prepare", "load"},
             \A s \in Requests \ {r} : req'[s] = req[s],
             Quiet, menuVersion' = menuVersion
      PROVE  RecordInv'
  BY <1>2, NothingHeld, QuietRecords
<1>3. ASSUME NEW r \in Requests, NEW c \in Commands, Receive(r, c)
      PROVE  RecordInv'
  <2>1. req'[r].phase = "replay" /\ \A s \in Requests \ {r} : req'[s] = req[s]
    BY <1>3 DEF Receive, Idle, TypeOK, Handler
  <2> QED BY <1>1, <1>2, <1>3, <2>1 DEF Receive
<1>4. ASSUME NEW r \in Requests, Respond(r)
      PROVE  RecordInv'
  <2>1. req'[r].phase = "idle" /\ \A s \in Requests \ {r} : req'[s] = req[s]
    BY <1>4 DEF Respond, Idle, TypeOK, Handler
  <2> QED BY <1>1, <1>2, <1>4, <2>1 DEF Respond
<1>5. ASSUME NEW r \in Requests, ReplayCommand(r)
      PROVE  RecordInv'
  <2>1. CASE Recorded(r)
    BY <1>1, <1>5, <2>1, RecordedRecords DEF ReplayCommand
  <2>2. CASE ~Recorded(r)
    <3>1. /\ req'[r].phase \in {"prepare", "load"}
          /\ \A s \in Requests \ {r} : req'[s] = req[s]
      BY <1>5, <2>2 DEF ReplayCommand, Proceed, TypeOK, Handler
    <3> QED BY <1>1, <1>2, <1>5, <3>1 DEF ReplayCommand
  <2> QED BY <2>1, <2>2
<1>6. ASSUME NEW r \in Requests, RefuseOrder(r) \/ RefuseCommand(r) \/ Fail(r)
      PROVE  RecordInv'
  <2>1. PICK code : Answer(r, Problem(code)) /\ code # "ok"
    <3>1. CASE RefuseCommand(r)
      <4>1. Refusal(r) # "ok"
        BY <3>1 DEF RefuseCommand, Refusal, NoneIsAbsent
      <4> QED BY <3>1, <4>1 DEF RefuseCommand
    <3> QED BY <1>6, <3>1 DEF RefuseOrder, Fail
  <2>2. Quiet /\ menuVersion' = menuVersion
    BY <1>1, <1>6 DEF RefuseOrder, RefuseCommand, Fail
  <2> QED BY <2>1, <2>2, ProblemRecords
<1>7. ASSUME NEW r \in Requests, PrepareOrder(r)
      PROVE  RecordInv'
  <2>1. Quiet /\ menuVersion' = menuVersion
    <3>1. UNCHANGED <<tables, nextSeq>> /\ clock' \in {clock, clock + 1}
      BY <1>7 DEF PrepareOrder
    <3> QED BY <1>1, <3>1 DEF Quiet, tables
  <2>2. CASE Answer(r, Problem("menu_version_mismatch"))
    BY <2>1, <2>2, ProblemRecords
  <2>3. ASSUME NEW o \in Orders,
               req' = [req EXCEPT ![r].phase = "find", ![r].order = o,
                                  ![r].at = clock],
               clock' = clock + 1
        PROVE  RecordInv'
    <3>1. /\ req'[r].phase = "find" /\ req'[r].at = clock
          /\ req'[r].base = <<>> /\ IsCreate(r)'
          /\ \A s \in Requests \ {r} : req'[s] = req[s]
      <4>1. req[r].base = <<>> /\ IsCreate(r)
        BY <1>7 DEF PrepareOrder, PathsFit, Fits, Active
      <4>2. /\ req'[r].phase = "find" /\ req'[r].at = clock
            /\ req'[r].base = req[r].base /\ req'[r].command = req[r].command
        BY <2>3 DEF TypeOK, Handler
      <4>3. \A s \in Requests \ {r} : req'[s] = req[s]
        BY <2>3 DEF TypeOK
      <4> QED BY <4>1, <4>2, <4>3 DEF IsCreate
    <3>2. TookTime(r)'
      <4>1. Before(<<>>, clock) /\ clock < clock'
        BY <1>1, <2>3 DEF Before
      <4> QED BY <3>1, <4>1 DEF TookTime
    <3>3. Ready(r)'
      BY <3>1, <3>2
      DEF Ready, OnCurrentMenu, OwnsOrder, SawOutcome, NotRecorded,
          KeyIsFree, DrewNumber, AnswerIsTrue, Changing, Holds, Succeeded,
          Answered
    <3> QED BY <2>1, <3>1, <3>3, QuietRecords
  <2> QED BY <1>7, <2>2, <2>3 DEF PrepareOrder
<1>8. ASSUME NEW r \in Requests, FindCommandTx(r) \/ LockMenuVersion(r)
      PROVE  RecordInv'
  <2>1. Quiet /\ menuVersion' = menuVersion
    BY <1>1, <1>8 DEF FindCommandTx, LockMenuVersion
  <2>2. CASE Recorded(r) /\ AnswerRecorded(r)
    BY <1>8, <2>1, <2>2, RecordedRecords DEF FindCommandTx, LockMenuVersion
  <2>3. CASE Answer(r, Problem("menu_version_mismatch"))
    BY <2>1, <2>3, ProblemRecords
  <2>4. ASSUME NEW phase, Proceed(r, phase),
               phase \in {"version", "insert"},
               phase = "insert" => req[r].command.body.menuVersion
                            = menuVersion[req[r].command.body.venue]
        PROVE  RecordInv'
    <3>1. /\ req'[r].phase = phase /\ req'[r].command = req[r].command
          /\ req'[r].at = req[r].at /\ req'[r].base = req[r].base
          /\ \A s \in Requests \ {r} : req'[s] = req[s]
      BY <2>4 DEF Proceed, TypeOK, Handler
    <3>2. IsCreate(r) /\ Creating(r) /\ Ready(r)
      BY <1>8 DEF FindCommandTx, LockMenuVersion, PathsFit, Fits, Creating,
                  RecordInv, HandlersAreReady
    <3>3. TookTime(r)'
      BY <2>1, <3>1, <3>2 DEF Ready, TookTime, Quiet, TypeOK, Handler
    <3>4. OnCurrentMenu(r)'
      BY <2>1, <2>4, <3>1 DEF OnCurrentMenu
    <3>5. Ready(r)'
      BY <2>4, <3>1, <3>2, <3>3, <3>4
      DEF Ready, OwnsOrder, SawOutcome, NotRecorded, KeyIsFree, DrewNumber,
          AnswerIsTrue, Changing, Holds, Succeeded, Answered
    <3> QED BY <2>1, <2>4, <3>1, <3>5, QuietRecords
  <2> QED BY <1>8, <2>2, <2>3, <2>4 DEF FindCommandTx, LockMenuVersion
<1>9. ASSUME NEW r \in Requests, InsertOrder(r) \/ UpdateOrder(r)
      PROVE  RecordInv'
  <2>1. Quiet /\ menuVersion' = menuVersion
    BY <1>1, <1>9 DEF InsertOrder, UpdateOrder, Quiet, tables
  <2>2. CASE Recorded(r) /\ AnswerRecorded(r)
    BY <1>9, <2>1, <2>2, RecordedRecords DEF InsertOrder, UpdateOrder
  <2>3. CASE Answer(r, Problem("internal_error"))
    BY <2>1, <2>3, ProblemRecords
  <2>4. CASE /\ req' = [req EXCEPT ![r].phase = "commit", ![r].seq = nextSeq]
             /\ nextSeq' = nextSeq + 1
             /\ InsertOrder(r) => ~\E o \in Orders : Twin(r, o)
    <3>1. /\ req'[r].phase = "commit" /\ req'[r].command = req[r].command
          /\ req'[r].order = req[r].order /\ req'[r].seq = nextSeq
          /\ req'[r].at = req[r].at /\ req'[r].base = req[r].base
          /\ \A s \in Requests \ {r} : req'[s] = req[s]
      BY <2>4 DEF TypeOK, Handler
    <3>2. /\ Ready(r)
          /\ InsertOrder(r) => Creating(r) /\ IsCreate(r)
          /\ UpdateOrder(r) => Changing(r) /\ Holds(r) /\ ~IsCreate(r)
      BY DEF InsertOrder, UpdateOrder, PathsFit, Fits, Creating, Changing,
             Holds, RecordInv, HandlersAreReady
    <3>3. /\ IsCreate(r)' <=> IsCreate(r)
          /\ Creating(r)' => Creating(r)
          /\ Changing(r)' => Changing(r)
          /\ Holds(r)' => Holds(r)
      BY <1>9, <3>1, <3>2 DEF IsCreate, Creating, Changing, Holds
    <3>4. OnCurrentMenu(r)' /\ KeyIsFree(r)'
      <4>1. InsertOrder(r) => req[r].phase = "insert"
        BY DEF InsertOrder
      <4>2. CASE IsCreate(r)
        BY <1>9, <2>1, <2>4, <3>1, <3>2, <3>3, <4>1, <4>2
        DEF Ready, OnCurrentMenu, KeyIsFree, Twin, Quiet
      <4>3. CASE ~IsCreate(r)
        BY <3>3, <4>3 DEF OnCurrentMenu, KeyIsFree
      <4> QED BY <4>2, <4>3
    <3>5. OwnsOrder(r)' /\ NotRecorded(r)' /\ TookTime(r)'
      BY <2>1, <3>1, <3>2, <3>3
      DEF Ready, OwnsOrder, NotRecorded, TookTime, Visible, Recorded, Quiet,
          TypeOK, Handler
    <3>6. DrewNumber(r)'
      <4>1. nextSeq >= 1 /\ \A e \in journal : e.seq \in 1 .. nextSeq - 1
        BY DEF RecordInv, TablesAgree, EventsAreNumbered
      <4>2. NumberIsLater(nextSeq, req[r].order)
        BY <1>1, <4>1 DEF NumberIsLater
      <4>3. nextSeq \in 1 .. nextSeq' - 1 /\ journal' = journal
        BY <1>1, <2>1, <2>4, <4>1 DEF Quiet
      <4> QED BY <3>1, <4>2, <4>3 DEF DrewNumber, NumberIsLater
    <3>7. Ready(r)'
      BY <3>1, <3>4, <3>5, <3>6
      DEF Ready, SawOutcome, AnswerIsTrue, Succeeded, Answered
    <3>8. ASSUME NEW s \in Requests \ {r}, req[s].phase = "commit"
          PROVE  /\ req[s].seq # req'[r].seq
                 /\ IsCreate(r)' => ~InsertsFor(s, req'[r].command.subject,
                                                req'[r].command.key)
      <4>1. req[s].seq # nextSeq
        BY <1>1, <3>8
        DEF RecordInv, HandlersAreReady, Ready, DrewNumber
      <4>2. IsCreate(r) => InsertOrder(r)
        BY <1>9, <3>2
      <4> QED BY <3>1, <3>3, <4>1, <4>2 DEF InsertOrder
    <3> QED BY <2>1, <3>1, <3>7, <3>8, QuietRecords
  <2> QED BY <1>9, <2>2, <2>3, <2>4 DEF InsertOrder, UpdateOrder
<1>10. ASSUME NEW r \in Requests, LoadAccepted(r)
       PROVE  RecordInv'
  <2> DEFINE c == req[r].command
             o == req[r].order
             h == orders[o].history
  <2>1. Quiet /\ menuVersion' = menuVersion
    BY <1>1, <1>10 DEF LoadAccepted
  <2>2. /\ req'[r].phase = "compare" /\ req'[r].command = c
        /\ req'[r].order = o /\ req'[r].base = h
        /\ \A s \in Requests \ {r} : req'[s] = req[s]
    BY <1>10 DEF LoadAccepted, TypeOK, Handler
  <2>3. IsOutcome(c, o, h)
    <3>1. ~IsCreate(r) /\ o \in Orders /\ c.order = o /\ c.operation = "accept_order"
      BY <1>10 DEF LoadAccepted, AlreadyAccepted, PathsFit, Fits, Active
    <3>2. Visible(c, o) /\ StatusOf(h) = "accepted" /\ orders[o] # None
      BY <1>10 DEF LoadAccepted, AlreadyAccepted, Visible
    <3>3. h \in History /\ h # <<>>
      BY <3>1, <3>2 DEF GroundInv, HistoriesAscend, TypeOK, OrderRow
    <3>4. IsPrefix(h, h)
      BY <3>3, PrefixOfItself
    <3> QED BY <3>1, <3>2, <3>3, <3>4
            DEF IsOutcome, Concerns, Target, IsCreate
  <2>4. SawOutcome(r)'
    BY <2>1, <2>2, <2>3 DEF SawOutcome, IsOutcome, Concerns, Visible, Quiet
  <2>5. Ready(r)'
    BY <2>2, <2>4
    DEF Ready, OnCurrentMenu, OwnsOrder, NotRecorded, KeyIsFree, DrewNumber,
        TookTime, AnswerIsTrue, Creating, Changing, Holds, Succeeded, Answered
  <2> QED BY <2>1, <2>2, <2>5, QuietRecords
<1>11. ASSUME NEW r \in Requests, CompareVenueOrderID(r)
       PROVE  RecordInv'
  <2>1. Quiet /\ menuVersion' = menuVersion
    BY <1>1, <1>11 DEF CompareVenueOrderID
  <2>2. CASE Answer(r, Problem("idempotency_key_reused"))
    BY <2>1, <2>2, ProblemRecords
  <2>3. CASE Answer(r, Success(req[r].order, req[r].base))
    <3>1. IsOutcome(req[r].command, req[r].order, req[r].base)
      BY <1>11 DEF CompareVenueOrderID, RecordInv, HandlersAreReady, Ready,
                   SawOutcome
    <3>2. Ready(r)'
      BY <2>1, <2>3, <3>1, QuietOutcome, SuccessReady DEF Quiet
    <3>3. req'[r].phase = "done" /\ \A s \in Requests \ {r} : req'[s] = req[s]
      BY <2>3, AnswerMeans
    <3> QED BY <2>1, <3>2, <3>3, QuietRecords
  <2> QED BY <1>11, <2>2, <2>3 DEF CompareVenueOrderID
<1>12. ASSUME NEW r \in Requests, LoadOrder(r)
       PROVE  RecordInv'
  <2> DEFINE o == req[r].order
             h == orders[o].history
  <2>1. Quiet /\ menuVersion' = menuVersion /\ clock' = clock + 1
    BY <1>1, <1>12 DEF LoadOrder, Quiet, tables
  <2>2. /\ req'[r].phase = "lock" /\ req'[r].command = req[r].command
        /\ req'[r].order = o /\ req'[r].base = h /\ req'[r].at = clock
        /\ \A s \in Requests \ {r} : req'[s] = req[s]
    BY <1>12 DEF LoadOrder, TypeOK, Handler
  <2>3. o \in Orders /\ Visible(req[r].command, o) /\ orders[o] # None
    BY <1>12, Unrefused DEF LoadOrder, Visible, PathsFit, Fits, Active
  <2>4. TookTime(r)'
    <3>1. Before(h, clock)
      BY <2>3 DEF RecordInv, TablesAgree, TimesIncrease
    <3> QED BY <1>1, <2>1, <2>2, <3>1 DEF TookTime
  <2>5. OwnsOrder(r)'
    BY <2>1, <2>2, <2>3 DEF OwnsOrder, Visible, Quiet
  <2>6. Ready(r)'
    BY <2>2, <2>4, <2>5
    DEF Ready, OnCurrentMenu, SawOutcome, NotRecorded, KeyIsFree, DrewNumber,
        AnswerIsTrue, Holds, Succeeded, Answered
  <2> QED BY <2>1, <2>2, <2>6, QuietRecords
<1>13. ASSUME NEW r \in Requests, LockOrder(r)
       PROVE  RecordInv'
  <2>1. Quiet /\ menuVersion' = menuVersion
    BY <1>1, <1>13 DEF LockOrder
  <2>2. CASE Recorded(r)
    BY <1>13, <2>1, <2>2, RecordedRecords DEF LockOrder
  <2>3. CASE Answer(r, Problem("invalid_order_transition"))
    BY <2>1, <2>3, ProblemRecords
  <2>4. CASE ~Recorded(r) /\ Proceed(r, "update")
    <3>1. /\ req'[r].phase = "update" /\ req'[r].command = req[r].command
          /\ req'[r].order = req[r].order /\ req'[r].base = req[r].base
          /\ req'[r].at = req[r].at
          /\ \A s \in Requests \ {r} : req'[s] = req[s]
      BY <2>4 DEF Proceed, TypeOK, Handler
    <3>2. Ready(r) /\ Changing(r)
      BY <1>13 DEF LockOrder, PathsFit, Fits, Changing, RecordInv,
                   HandlersAreReady
    <3>3. OwnsOrder(r)' /\ NotRecorded(r)' /\ TookTime(r)'
      BY <2>1, <2>4, <3>1, <3>2
      DEF Ready, OwnsOrder, NotRecorded, TookTime, Visible, Recorded, Quiet,
          TypeOK, Handler
    <3>4. Ready(r)'
      BY <3>1, <3>3
      DEF Ready, OnCurrentMenu, SawOutcome, KeyIsFree, DrewNumber,
          AnswerIsTrue, Succeeded, Answered
    <3> QED BY <2>1, <3>1, <3>4, QuietRecords
  <2> QED BY <1>13, <2>2, <2>3, <2>4 DEF LockOrder
<1>14. ASSUME NEW r \in Requests, Commit(r) \/ CommitUnacknowledged(r)
       PROVE  RecordInv'
  BY <1>14, CommitRecords
<1>15. ASSUME NEW v \in Venues, SyncMenu(v)
       PROVE  RecordInv'
  <2>1. Quiet /\ req' = req
    BY <1>15 DEF SyncMenu, Quiet, TypeOK
  <2>2. TablesAgree'
    BY <2>1, QuietTables DEF RecordInv
  <2>3. ASSUME NEW s \in Requests
        PROVE  Ready(s)'
    <3>1. OnCurrentMenu(s)'
      <4> SUFFICES ASSUME req[s].phase \in {"insert", "commit"}, IsCreate(s)
                   PROVE  req[s].command.body.menuVersion
                            = menuVersion'[req[s].command.body.venue]
        BY <2>1 DEF OnCurrentMenu, IsCreate
      <4>1. req[s].command.body.venue \in Venues
        BY CommandsType DEF PathsFit, Fits, IsCreate
      <4>2. req[s].command.body.venue # v
        BY <1>15 DEF SyncMenu, SharesVenue
      <4> QED BY <1>15, <4>1, <4>2
              DEF SyncMenu, TypeOK, RecordInv, HandlersAreReady, Ready,
                  OnCurrentMenu
    <3> QED BY <2>1, <3>1, QuietReady DEF RecordInv, HandlersAreReady
  <2>4. WritersDiffer'
    BY <2>1 DEF RecordInv, WritersDiffer, InsertsFor, IsCreate
  <2> QED BY <2>2, <2>3, <2>4 DEF RecordInv, HandlersAreReady
<1>16. CASE UNCHANGED vars
  <2>1. Quiet /\ req' = req /\ menuVersion' = menuVersion
    BY <1>16 DEF vars, Quiet, TypeOK
  <2>2. TablesAgree'
    BY <2>1, QuietTables DEF RecordInv
  <2>3. HandlersAreReady'
    BY <2>1, QuietReady DEF RecordInv, HandlersAreReady
  <2>4. WritersDiffer'
    BY <2>1 DEF RecordInv, WritersDiffer, InsertsFor, IsCreate
  <2> QED BY <2>2, <2>3, <2>4 DEF RecordInv
<1> QED
  BY <1>3, <1>4, <1>5, <1>6, <1>7, <1>8, <1>9, <1>10, <1>11, <1>12, <1>13,
     <1>14, <1>15, <1>16
  DEF Next, Step, Create, Change

-----------------------------------------------------------------------------
(* The identifiers that venues give to their orders. *)

\* While no row is written, only the handler that moves has to look whether
\* its identifier is new.
LEMMA QuietIndex ==
  ASSUME IndexInv, orders' = orders, NEW r \in Requests,
         \A s \in Requests \ {r} : req'[s] = req[s],
         Changing(r)' /\ req'[r].command.operation = "accept_order" =>
           req'[r].command.body.venueOrderID # None,
         Assigns(r)' =>
           /\ ~VenueOrderIDTaken(r)'
           /\ \A s \in Requests \ {r} :
                ~AssignsVenueOrderID(s, req'[r].command.subject,
                                     req'[r].command.body.venueOrderID)
  PROVE  IndexInv'
<1>1. VenueOrderIDsDiffer'
  BY DEF IndexInv, VenueOrderIDsDiffer
<1>2. AcceptsNameIDs'
  BY DEF IndexInv, AcceptsNameIDs, Changing, IsCreate
<1>3. AssignsNewID(r)'
  BY DEF AssignsNewID, AssignsVenueOrderID
<1>4. ASSUME NEW s \in Requests \ {r}
      PROVE  AssignsNewID(s)'
  <2>1. AssignsNewID(s) /\ req'[s] = req[s]
    BY DEF IndexInv
  <2>2. Assigns(s)' => ~VenueOrderIDTaken(s)'
    BY <2>1 DEF AssignsNewID, Assigns, VenueOrderIDTaken
  <2>3. ASSUME Assigns(s)', NEW q \in Requests \ {s},
               NEW v, v = req[s].command.subject,
               NEW id, id = req[s].command.body.venueOrderID
        PROVE  ~AssignsVenueOrderID(q, v, id)'
    <3>1. CASE q = r
      BY <2>1, <2>3, <3>1 DEF Assigns, AssignsVenueOrderID
    <3>2. CASE q # r
      BY <2>1, <2>3, <3>2 DEF AssignsNewID, Assigns, AssignsVenueOrderID
    <3> QED BY <3>1, <3>2
  <2> QED BY <2>1, <2>2, <2>3 DEF AssignsNewID
<1> QED BY <1>1, <1>2, <1>3, <1>4 DEF IndexInv

\* A handler that neither changes an order nor assigns an identifier has
\* nothing to look for.
LEMMA IdleIndex ==
  ASSUME IndexInv, orders' = orders, NEW r \in Requests,
         \A s \in Requests \ {r} : req'[s] = req[s],
         req'[r].phase \notin {"lock", "update", "commit"} \/ IsCreate(r)'
  PROVE  IndexInv'
<1>1. ~Changing(r)' /\ ~Assigns(r)'
  BY DEF Changing, Assigns, IsCreate
<1> QED BY <1>1, QuietIndex

LEMMA AnswerIndex ==
  ASSUME TypeOK, IndexInv, orders' = orders, NEW r \in Requests, NEW reply,
         Answer(r, reply)
  PROVE  IndexInv'
<1>1. req'[r].phase = "done" /\ \A s \in Requests \ {r} : req'[s] = req[s]
  BY AnswerMeans
<1> QED BY <1>1, IdleIndex

\* The commit of an accept gives an order an identifier that no other order of
\* its venue has, and that no other handler is about to give.
LEMMA CommitIndex ==
  ASSUME GroundInv, RecordInv, IndexInv, NEW r \in Requests,
         Commit(r) \/ CommitUnacknowledged(r)
  PROVE  IndexInv'
<1> DEFINE o == req[r].order
           c == req[r].command
<1> TypeOK /\ PathsFit
  BY DEF GroundInv
<1>1. req[r].phase = "commit" /\ orders' = [orders EXCEPT ![o] = Row(r)]
  BY DEF Commit, CommitUnacknowledged, Write
<1>2. MayWrite(r)
  BY <1>1, CommitMayWrite
<1>3. /\ o \in Orders /\ c \in Commands /\ Row(r) \in OrderRow
      /\ IsCreate(r) => orders[o] = None
      /\ ~IsCreate(r) => /\ Changing(r) /\ orders[o] # None
                         /\ orders[o] \in OrderRow
  BY <1>2, DraftMoves
<1>4. /\ orders'[o] = Row(r) /\ Row(r) # None /\ RowsLast
      /\ \A p \in Orders \ {o} : orders'[p] = orders[p]
  BY <1>1, <1>2, RowGrows
<1>5. req'[r].phase = "done" /\ \A s \in Requests \ {r} : req'[s] = req[s]
  BY AnswerMeans DEF Commit, CommitUnacknowledged
<1>6. IsCreate(r) => Row(r).venueOrderID = None
  BY DEF Row
<1>7. c.operation = "accept_order" =>
        /\ Row(r).venueOrderID = c.body.venueOrderID
        /\ Row(r).venue = c.subject /\ ~VenueOrderIDTaken(r) /\ Assigns(r)
  <2> SUFFICES ASSUME c.operation = "accept_order"
               PROVE  /\ Row(r).venueOrderID = c.body.venueOrderID
                      /\ Row(r).venue = c.subject
                      /\ ~VenueOrderIDTaken(r) /\ Assigns(r)
    OBVIOUS
  <2>1. ~IsCreate(r) /\ Changing(r) /\ Assigns(r)
    BY <1>1, <1>3 DEF IsCreate, Assigns
  <2>2. Visible(c, o)
    BY <2>1 DEF RecordInv, HandlersAreReady, Ready, OwnsOrder
  <2>3. /\ Row(r).venueOrderID = c.body.venueOrderID
        /\ Row(r).venue = orders[o].venue
    BY <1>3, <2>1 DEF Row, OrderRow
  <2> QED BY <2>1, <2>2, <2>3 DEF Visible, IndexInv, AssignsNewID
<1>8. ~IsCreate(r) /\ c.operation # "accept_order" =>
        /\ Row(r).venueOrderID = orders[o].venueOrderID
        /\ Row(r).venue = orders[o].venue
  BY <1>3 DEF Row, OrderRow
<1>9. VenueOrderIDsDiffer'
  <2>1. ASSUME NEW p \in Orders \ {o}, orders[p] # None,
               Row(r).venueOrderID # None,
               Row(r).venueOrderID = orders[p].venueOrderID,
               Row(r).venue = orders[p].venue
        PROVE  FALSE
    <3>1. CASE c.operation = "accept_order"
      BY <1>7, <2>1, <3>1 DEF VenueOrderIDTaken
    <3>2. CASE ~IsCreate(r) /\ c.operation # "accept_order"
      BY <1>3, <1>8, <2>1, <3>2 DEF IndexInv, VenueOrderIDsDiffer
    <3> QED BY <1>6, <2>1, <3>1, <3>2
  <2> SUFFICES ASSUME NEW p \in Orders, NEW q \in Orders, p # q,
                      orders'[p] # None, orders'[q] # None,
                      orders'[p].venueOrderID # None,
                      orders'[p].venueOrderID = orders'[q].venueOrderID,
                      orders'[p].venue = orders'[q].venue
               PROVE  FALSE
    BY DEF VenueOrderIDsDiffer
  <2>2. CASE p = o
    BY <1>4, <2>1, <2>2
  <2>3. CASE q = o
    BY <1>4, <2>1, <2>3
  <2>4. CASE p # o /\ q # o
    BY <1>4, <2>4 DEF IndexInv, VenueOrderIDsDiffer
  <2> QED BY <2>2, <2>3, <2>4
<1>10. AcceptsNameIDs'
  BY <1>5 DEF IndexInv, AcceptsNameIDs, Changing, IsCreate
<1>11. ASSUME NEW s \in Requests \ {r}
       PROVE  AssignsNewID(s)'
  <2>1. /\ AssignsNewID(s) /\ req'[s] = req[s]
        /\ \A q \in Requests \ {r} : req'[q] = req[q]
    BY <1>5 DEF IndexInv
  <2>2. ASSUME Assigns(s)', VenueOrderIDTaken(s)'
        PROVE  FALSE
    <3>1. PICK p \in Orders \ {req[s].order} :
             /\ orders'[p] # None
             /\ orders'[p].venue = req[s].command.subject
             /\ orders'[p].venueOrderID = req[s].command.body.venueOrderID
      BY <2>1, <2>2 DEF VenueOrderIDTaken
    <3>2. /\ Assigns(s) /\ ~VenueOrderIDTaken(s)
          /\ req[s].command.operation = "accept_order"
      BY <2>1, <2>2 DEF Assigns, AssignsNewID
    <3>3. CASE p # o \/ (~IsCreate(r) /\ c.operation # "accept_order")
      <4>1. /\ orders[p] # None
            /\ orders[p].venue = req[s].command.subject
            /\ orders[p].venueOrderID = req[s].command.body.venueOrderID
        BY <1>3, <1>4, <1>8, <3>1, <3>3
      <4> QED BY <3>1, <3>2, <4>1 DEF VenueOrderIDTaken
    <3>4. CASE p = o /\ IsCreate(r)
      <4>1. Changing(s)
        BY <3>2 DEF Assigns, Changing, IsCreate
      <4>2. req[s].command.body.venueOrderID # None
        BY <3>2, <4>1 DEF IndexInv, AcceptsNameIDs
      <4> QED BY <1>4, <1>6, <3>1, <3>4, <4>2
    <3>5. CASE p = o /\ c.operation = "accept_order"
      <4>1. AssignsVenueOrderID(r, req[s].command.subject,
                                req[s].command.body.venueOrderID)
        BY <1>4, <1>7, <3>1, <3>5 DEF Assigns, AssignsVenueOrderID
      <4> QED BY <2>1, <3>2, <4>1 DEF AssignsNewID
    <3> QED BY <3>3, <3>4, <3>5
  <2>3. ASSUME Assigns(s)', NEW q \in Requests \ {s},
               NEW v, v = req[s].command.subject,
               NEW id, id = req[s].command.body.venueOrderID
        PROVE  ~AssignsVenueOrderID(q, v, id)'
    <3>1. CASE q = r
      BY <1>5, <3>1 DEF AssignsVenueOrderID
    <3>2. CASE q # r
      BY <2>1, <2>3, <3>2 DEF AssignsNewID, Assigns, AssignsVenueOrderID
    <3> QED BY <3>1, <3>2
  <2> QED BY <2>1, <2>2, <2>3 DEF AssignsNewID
<1>12. AssignsNewID(r)'
  BY <1>5 DEF AssignsNewID, Assigns
<1> QED BY <1>9, <1>10, <1>11, <1>12 DEF IndexInv

LEMMA StepIndex ==
  ASSUME GroundInv, RecordInv, IndexInv, [Next]_vars
  PROVE  IndexInv'
<1> TypeOK /\ PathsFit
  BY DEF GroundInv
<1>1. ASSUME NEW r \in Requests, NEW c \in Commands, Receive(r, c)
      PROVE  IndexInv'
  <2>1. req'[r].phase = "replay" /\ \A s \in Requests \ {r} : req'[s] = req[s]
    BY <1>1 DEF Receive, Idle, TypeOK, Handler
  <2> QED BY <1>1, <2>1, IdleIndex DEF Receive, tables
<1>2. ASSUME NEW r \in Requests, Respond(r)
      PROVE  IndexInv'
  <2>1. req'[r].phase = "idle" /\ \A s \in Requests \ {r} : req'[s] = req[s]
    BY <1>2 DEF Respond, Idle, TypeOK, Handler
  <2> QED BY <1>2, <2>1, IdleIndex DEF Respond, tables
<1>3. ASSUME NEW r \in Requests, ReplayCommand(r)
      PROVE  IndexInv'
  <2>1. CASE Recorded(r)
    BY <1>3, <2>1, AnswerIndex DEF ReplayCommand, AnswerRecorded, tables
  <2>2. CASE ~Recorded(r)
    <3>1. /\ req'[r].phase \in {"prepare", "load"}
          /\ \A s \in Requests \ {r} : req'[s] = req[s]
      BY <1>3, <2>2 DEF ReplayCommand, Proceed, TypeOK, Handler
    <3> QED BY <1>3, <3>1, IdleIndex DEF ReplayCommand, tables
  <2> QED BY <2>1, <2>2
<1>4. ASSUME NEW r \in Requests,
             \/ RefuseOrder(r) \/ RefuseCommand(r) \/ CompareVenueOrderID(r)
             \/ Fail(r)
      PROVE  IndexInv'
  BY <1>4, AnswerIndex
  DEF RefuseOrder, RefuseCommand, CompareVenueOrderID, Fail, tables
<1>5. ASSUME NEW r \in Requests,
             \/ PrepareOrder(r) \/ FindCommandTx(r) \/ LockMenuVersion(r)
             \/ InsertOrder(r)
      PROVE  IndexInv'
  <2>1. orders' = orders
    BY <1>5 DEF PrepareOrder, FindCommandTx, LockMenuVersion, InsertOrder,
                tables
  <2>2. CASE \E reply : Answer(r, reply)
    BY <2>1, <2>2, AnswerIndex
  <2>3. CASE /\ req'[r].command = req[r].command
             /\ \A s \in Requests \ {r} : req'[s] = req[s]
    <3>1. IsCreate(r)'
      BY <1>5, <2>3
      DEF PrepareOrder, FindCommandTx, LockMenuVersion, InsertOrder, PathsFit,
          Fits, IsCreate
    <3> QED BY <2>1, <2>3, <3>1, IdleIndex
  <2>4. CASE \E phase : Proceed(r, phase)
    BY <2>3, <2>4 DEF Proceed, TypeOK, Handler
  <2>5. ASSUME PrepareOrder(r)
        PROVE  IndexInv'
    <3>1. CASE Answer(r, Problem("menu_version_mismatch"))
      BY <2>2, <3>1
    <3>2. CASE \E o \in Orders :
                 req' = [req EXCEPT ![r].phase = "find", ![r].order = o,
                                    ![r].at = clock]
      BY <2>3, <3>2 DEF TypeOK, Handler
    <3> QED BY <2>5, <3>1, <3>2 DEF PrepareOrder
  <2>6. ASSUME InsertOrder(r)
        PROVE  IndexInv'
    <3>1. CASE req' = [req EXCEPT ![r].phase = "commit", ![r].seq = nextSeq]
      BY <2>3, <3>1 DEF TypeOK, Handler
    <3> QED BY <2>2, <2>6, <3>1 DEF InsertOrder, AnswerRecorded
  <2> QED BY <1>5, <2>2, <2>4, <2>5, <2>6
          DEF FindCommandTx, LockMenuVersion, AnswerRecorded
<1>6. ASSUME NEW r \in Requests, LoadAccepted(r)
      PROVE  IndexInv'
  <2>1. req'[r].phase = "compare" /\ \A s \in Requests \ {r} : req'[s] = req[s]
    BY <1>6 DEF LoadAccepted, TypeOK, Handler
  <2> QED BY <1>6, <2>1, IdleIndex DEF LoadAccepted, tables
<1>7. ASSUME NEW r \in Requests, LoadOrder(r)
      PROVE  IndexInv'
  <2>1. /\ req'[r].phase = "lock" /\ req'[r].command = req[r].command
        /\ \A s \in Requests \ {r} : req'[s] = req[s]
    BY <1>7 DEF LoadOrder, TypeOK, Handler
  <2>2. req[r].command.operation = "accept_order" =>
          req[r].command.body.venueOrderID # None
    BY <1>7, NoneIsAbsent DEF LoadOrder, Refusal, Codes
  <2>3. ~Assigns(r)'
    BY <2>1 DEF Assigns
  <2> QED BY <1>7, <2>1, <2>2, <2>3, QuietIndex DEF LoadOrder, tables
<1>8. ASSUME NEW r \in Requests, LockOrder(r)
      PROVE  IndexInv'
  <2>1. orders' = orders
    BY <1>8 DEF LockOrder, tables
  <2>2. CASE \E reply : Answer(r, reply)
    BY <2>1, <2>2, AnswerIndex
  <2>3. CASE Proceed(r, "update")
    <3>1. /\ req'[r].phase = "update" /\ req'[r].command = req[r].command
          /\ \A s \in Requests \ {r} : req'[s] = req[s]
      BY <2>3 DEF Proceed, TypeOK, Handler
    <3>2. Changing(r) /\ ~Assigns(r)'
      BY <1>8, <3>1 DEF LockOrder, Changing, Assigns, PathsFit, Fits
    <3> QED BY <2>1, <3>1, <3>2, QuietIndex DEF IndexInv, AcceptsNameIDs
  <2> QED BY <1>8, <2>2, <2>3 DEF LockOrder, AnswerRecorded
<1>9. ASSUME NEW r \in Requests, UpdateOrder(r)
      PROVE  IndexInv'
  <2>1. orders' = orders
    BY <1>9 DEF UpdateOrder, tables
  <2>2. CASE \E reply : Answer(r, reply)
    BY <2>1, <2>2, AnswerIndex
  <2>3. CASE /\ ~VenueOrderIDTaken(r)
             /\ req' = [req EXCEPT ![r].phase = "commit", ![r].seq = nextSeq]
    <3>1. /\ req'[r].phase = "commit" /\ req'[r].command = req[r].command
          /\ req'[r].order = req[r].order
          /\ \A s \in Requests \ {r} : req'[s] = req[s]
      BY <2>3 DEF TypeOK, Handler
    <3>2. Changing(r)
      BY <1>9 DEF UpdateOrder, Changing, PathsFit, Fits
    <3>3. ~VenueOrderIDTaken(r)'
      BY <2>1, <2>3, <3>1 DEF VenueOrderIDTaken
    <3>4. Assigns(r)' =>
            \A s \in Requests \ {r} :
              ~AssignsVenueOrderID(s, req'[r].command.subject,
                                   req'[r].command.body.venueOrderID)
      BY <1>9, <3>1 DEF UpdateOrder, Assigns
    <3> QED BY <2>1, <3>1, <3>2, <3>3, <3>4, QuietIndex
            DEF IndexInv, AcceptsNameIDs
  <2> QED BY <1>9, <2>2, <2>3 DEF UpdateOrder
<1>10. ASSUME NEW r \in Requests, Commit(r) \/ CommitUnacknowledged(r)
       PROVE  IndexInv'
  BY <1>10, CommitIndex
<1>11. ASSUME UNCHANGED <<orders, req>>
       PROVE  IndexInv'
  BY <1>11 DEF IndexInv, VenueOrderIDsDiffer, AcceptsNameIDs, AssignsNewID,
               Assigns, Changing, IsCreate, VenueOrderIDTaken,
               AssignsVenueOrderID
<1>12. ASSUME NEW v \in Venues, SyncMenu(v)
       PROVE  IndexInv'
  BY <1>11, <1>12 DEF SyncMenu
<1>13. CASE UNCHANGED vars
  BY <1>11, <1>13 DEF vars
<1> QED
  BY <1>1, <1>2, <1>3, <1>4, <1>5, <1>6, <1>7, <1>8, <1>9, <1>10, <1>12,
     <1>13
  DEF Next, Step, Create, Change

-----------------------------------------------------------------------------
(* The invariant, and what follows from it. *)

\* Nothing is recorded and nobody is at work at the start.
LEMMA RecordInit == Init => RecordInv /\ IndexInv
<1> SUFFICES ASSUME Init PROVE RecordInv /\ IndexInv
  OBVIOUS
<1>1. /\ journal = {} /\ nextSeq = 1 /\ clock = 1
      /\ \A o \in Orders : orders[o] = None
      /\ \A id \in CommandIds : commands[id] = None
      /\ \A r \in Requests : req[r].phase = "idle"
  BY DEF Init, Idle
<1>2. RecordsAreTrue /\ CreateKeyNamesOrder /\ TimesIncrease
  BY <1>1 DEF RecordsAreTrue, RecordedIds, CreateKeyNamesOrder, TimesIncrease
<1>3. EventsAreNumbered
  BY <1>1, FS_EmptySet DEF EventsAreNumbered
<1>4. JournalTellsHistory
  BY <1>1 DEF JournalTellsHistory, HistoryOf
<1>5. HandlersAreReady /\ WritersDiffer
  BY <1>1 DEF HandlersAreReady, WritersDiffer, Ready, OnCurrentMenu, OwnsOrder,
              SawOutcome, NotRecorded, KeyIsFree, DrewNumber, TookTime,
              AnswerIsTrue, Creating, Changing, Holds, Succeeded, Answered
<1>6. IndexInv
  BY <1>1 DEF IndexInv, VenueOrderIDsDiffer, AcceptsNameIDs, AssignsNewID,
              Assigns, Changing
<1> QED BY <1>2, <1>3, <1>4, <1>5, <1>6 DEF RecordInv, TablesAgree

\* What handlers rely on between their statements stays true, and with it what
\* the tables say of each other: see OrderCommandsInvariant.
THEOREM Inductive == Spec => []IInv
<1>1. Init => IInv
  BY InvInit, RecordInit DEF IInv
<1>2. IInv /\ GroundInv' /\ [Next]_vars => IInv'
  BY StepRecords, StepIndex DEF IInv
<1> QED BY <1>1, <1>2, GroundHolds, PTL DEF Spec

\* Read in sequence order, the journal of an order tells its whole history:
\* CreateOrder and ApplyOrderCommand draw the number under the lock.
THEOREM JournalIsTrue == Spec => []JournalTellsHistory
<1>1. IInv => JournalTellsHistory
  BY DEF IInv, RecordInv, TablesAgree
<1> QED BY <1>1, Inductive, PTL

\* A later event of an order carries a later time, so that the venue drops no
\* snapshot as an old one.
THEOREM TimesFollowNumbers == Spec => []JournalTimesIncrease
<1>1. ASSUME IInv PROVE JournalTimesIncrease
  <2> SUFFICES ASSUME NEW e \in journal, NEW f \in journal,
                      e.order = f.order, e.seq < f.seq
               PROVE  Last(e.history).changedAt < Last(f.history).changedAt
    BY DEF JournalTimesIncrease
  <2> DEFINE h == orders[e.order].history
             m == Len(e.history)
             n == Len(f.history)
  <2>1. /\ e.history # <<>> /\ e.history \in Seq(StatusChange)
        /\ f.history # <<>> /\ f.history \in Seq(StatusChange)
        /\ e.order \in Orders /\ orders[e.order] # None
    BY <1>1 DEF IInv, RecordInv, TablesAgree, EventsAreNumbered, GroundInv,
                TypeOK, History
  <2>2. h \in Seq(StatusChange) /\ Timed(h) /\ HistoryOf(e.order) = h
    BY <1>1, <2>1 DEF IInv, RecordInv, TablesAgree, TimesIncrease, GroundInv,
                      TypeOK, OrderRow, History, HistoryOf
  <2>3. m < n /\ IsPrefix(e.history, h) /\ IsPrefix(f.history, h)
    BY <1>1, <2>2 DEF IInv, RecordInv, TablesAgree, JournalTellsHistory
  <2>4. m \in Nat \ {0} /\ n \in Nat \ {0}
    BY <2>1, EmptySeq, LenProperties
  <2>5. /\ n <= Len(h) /\ e.history[m] = h[m] /\ f.history[n] = h[n]
    <3>1. /\ m <= Len(h)
          /\ \A i \in 1 .. m : e.history[i] = h[i]
      BY <2>1, <2>2, <2>3, PrefixMeans
    <3>2. /\ n <= Len(h)
          /\ \A i \in 1 .. n : f.history[i] = h[i]
      BY <2>1, <2>2, <2>3, PrefixMeans
    <3> HIDE DEF h, m, n
    <3> QED BY <2>4, <3>1, <3>2
  <2>6. m \in 1 .. Len(h) /\ n \in 1 .. Len(h)
    BY <2>2, <2>3, <2>4, <2>5, LenProperties
  <2>7. h[m].changedAt < h[n].changedAt
    BY <2>2, <2>3, <2>6 DEF Timed
  <2> QED BY <2>5, <2>7 DEF Last
<1> QED BY <1>1, Inductive, PTL

\* A customer's key names at most one order, which is the recorded answer:
\* CreateOrderCommand never finds an order without a command record.
THEOREM KeysNameOrders == Spec => []CreateKeyNamesOrder
<1>1. IInv => CreateKeyNamesOrder
  BY DEF IInv, RecordInv, TablesAgree
<1> QED BY <1>1, Inductive, PTL

\* Two orders of a venue never share the venue's identifier, even when they
\* are accepted at the same time.
THEOREM VenueIDsDiffer == Spec => []VenueOrderIDsDiffer
<1>1. IInv => VenueOrderIDsDiffer
  BY DEF IInv, IndexInv
<1> QED BY <1>1, Inductive, PTL

\* What a success says, for a handler that gave one.
LEMMA SuccessMeans ==
  ASSUME GroundInv, RecordInv, NEW r \in Requests, Succeeded(r),
         NEW o, o = req[r].reply.order, NEW h, h = req[r].reply.history
  PROVE  /\ req[r].reply = [code |-> "ok", order |-> o, history |-> h]
         /\ req[r].command \in Commands
         /\ IsOutcome(req[r].command, o, h)
<1>1. AnswerIsTrue(r) /\ PathsFit
  BY DEF GroundInv, RecordInv, HandlersAreReady, Ready
<1> QED BY <1>1 DEF AnswerIsTrue, PathsFit, Fits, Succeeded, Answered

\* The order of a success is the subject's own.
LEMMA SuccessIsOwn ==
  ASSUME GroundInv, RecordInv
  PROVE  TenantIsolation
<1>1. ASSUME NEW r \in Requests, Succeeded(r), NEW o, o = req[r].reply.order
      PROVE  orders[o] # None /\ req[r].command.subject
                                   \in {orders[o].customer, orders[o].venue}
  <2>1. IsOutcome(req[r].command, o, req[r].reply.history)
    BY <1>1, SuccessMeans
  <2> QED BY <2>1 DEF IsOutcome, Concerns, Visible
<1> QED BY <1>1 DEF TenantIsolation

\* An order that a client is told about is the client's own, although
\* ApplyOrderCommand takes no subject.
THEOREM TenantsAreApart == Spec => []TenantIsolation
<1>1. IInv => TenantIsolation
  BY SuccessIsOwn DEF IInv
<1> QED BY <1>1, Inductive, PTL

\* A success shows the order as it was when it was in the status that the
\* command asked for.
THEOREM SuccessesAreTrue == Spec => []SuccessIsTrue
<1>1. ASSUME IInv, NEW r \in Requests, Succeeded(r), NEW reply,
             reply = req[r].reply
      PROVE  /\ reply.history # <<>>
             /\ IsPrefix(reply.history, HistoryOf(reply.order))
             /\ StatusOf(reply.history) = Target(req[r].command)
  <2>1. IsOutcome(req[r].command, reply.order, reply.history)
    BY <1>1, SuccessMeans DEF IInv
  <2> QED BY <2>1 DEF IsOutcome, Concerns, HistoryOf
<1>2. IInv => SuccessIsTrue
  BY <1>1 DEF SuccessIsTrue
<1> QED BY <1>2, Inductive, PTL

\* Two pasts of an order in which no status comes back, and that end in the
\* same status, are the same past.
LEMMA SamePast ==
  ASSUME NEW g \in History, NEW b \in History, NEW h \in History,
         g # <<>>, b # <<>>, IsPrefix(g, h), IsPrefix(b, h), Ascends(h),
         StatusOf(g) = StatusOf(b)
  PROVE  g = b
<1> DEFINE m == Len(g)
           n == Len(b)
<1>1. /\ m \in Nat \ {0} /\ n \in Nat \ {0} /\ Len(h) \in Nat
      /\ m <= Len(h) /\ n <= Len(h)
      /\ \A i \in 1 .. m : g[i] = h[i]
      /\ \A i \in 1 .. n : b[i] = h[i]
  BY EmptySeq, LenProperties, PrefixMeans DEF History
<1>2. h[m].status = h[n].status
  BY <1>1 DEF StatusOf, Last
<1>3. Rank(h[m].status) \in Nat /\ Rank(h[n].status) \in Nat
  BY DEF Rank
<1>4. ~(m < n) /\ ~(n < m)
  <2>1. ASSUME m < n PROVE FALSE
    <3>1. Rank(h[m].status) < Rank(h[n].status)
      BY <1>1, <2>1 DEF Ascends
    <3> QED BY <1>2, <1>3, <3>1
  <2>2. ASSUME n < m PROVE FALSE
    <3>1. Rank(h[n].status) < Rank(h[m].status)
      BY <1>1, <2>2 DEF Ascends
    <3> QED BY <1>2, <1>3, <3>1
  <2> QED BY <2>1, <2>2
<1> QED BY <1>1, <1>4, SeqEqual DEF History

\* A command that is sent twice gets one answer, whichever handler acted, was
\* replayed or found the order accepted.
THEOREM RepliesAgree == Spec => []RetriesAgree
<1>1. ASSUME IInv, NEW r \in Requests, NEW s \in Requests,
             Succeeded(r), Succeeded(s), req[r].command = req[s].command
      PROVE  req[r].reply = req[s].reply
  <2> DEFINE c == req[r].command
             o == req[r].reply.order
             p == req[s].reply.order
             g == req[r].reply.history
             b == req[s].reply.history
  <2>1. /\ req[r].reply = [code |-> "ok", order |-> o, history |-> g]
        /\ IsOutcome(c, o, g)
    BY <1>1, SuccessMeans DEF IInv
  <2>2. /\ req[s].reply = [code |-> "ok", order |-> p, history |-> b]
        /\ IsOutcome(c, p, b)
    BY <1>1, SuccessMeans DEF IInv
  <2> HIDE DEF c, o, p, g, b
  <2>3. /\ Concerns(c, o) /\ g \in History /\ g # <<>>
        /\ IsPrefix(g, orders[o].history) /\ StatusOf(g) = Target(c)
    BY <2>1 DEF IsOutcome
  <2>4. /\ Concerns(c, p) /\ b \in History /\ b # <<>>
        /\ IsPrefix(b, orders[p].history) /\ StatusOf(b) = Target(c)
    BY <2>2 DEF IsOutcome
  <2>5. o = p
    <3>1. CASE c.operation = "create_order"
      <4>1. CreateKeyNamesOrder
        BY <1>1 DEF IInv, RecordInv, TablesAgree
      <4>2. /\ o \in Orders /\ p \in Orders
            /\ orders[o] # None /\ orders[p] # None
            /\ orders[o].customer = orders[p].customer
            /\ orders[o].createKey = orders[p].createKey
        BY <2>3, <2>4, <3>1 DEF Concerns
      <4> QED BY <4>1, <4>2 DEF CreateKeyNamesOrder
    <3>2. CASE c.operation # "create_order"
      BY <2>3, <2>4, <3>2 DEF Concerns
    <3> QED BY <3>1, <3>2
  <2>6. o \in Orders /\ orders[o] # None
    BY <2>3 DEF Concerns
  <2>7. orders[o].history \in History /\ Ascends(orders[o].history)
    BY <1>1, <2>6 DEF IInv, GroundInv, TypeOK, OrderRow, HistoriesAscend
  <2>8. g = b
    BY <2>3, <2>4, <2>5, <2>7, SamePast
  <2> QED BY <2>1, <2>2, <2>5, <2>8
<1>2. IInv => RetriesAgree
  BY <1>1 DEF RetriesAgree
<1> QED BY <1>2, Inductive, PTL

-----------------------------------------------------------------------------
(* What a step may never do. *)

\* Only a commit writes to the orders, and it is a commit of a handler that
\* may record its change.
LEMMA OnlyCommitsWrite ==
  ASSUME [Next]_vars
  PROVE  \/ UNCHANGED <<orders, commands, journal>>
         \/ \E r \in Requests : /\ req[r].phase = "commit" /\ Write(r)
                                /\ menuVersion' = menuVersion
<1>1. CASE Next
  <2>1. ASSUME NEW r \in Requests, Commit(r) \/ CommitUnacknowledged(r)
        PROVE  /\ req[r].phase = "commit" /\ Write(r)
               /\ menuVersion' = menuVersion
    BY <2>1 DEF Commit, CommitUnacknowledged
  <2>2. ASSUME NEW r \in Requests, Create(r)
        PROVE  UNCHANGED <<orders, commands, journal>>
    <3>1. PrepareOrder(r) \/ FindCommandTx(r) => UNCHANGED tables
      BY Zenon DEF PrepareOrder, FindCommandTx
    <3>2. LockMenuVersion(r) \/ InsertOrder(r) => UNCHANGED tables
      BY Zenon DEF LockMenuVersion, InsertOrder
    <3>3. RefuseOrder(r) => UNCHANGED tables
      BY Zenon DEF RefuseOrder
    <3> QED BY <2>2, <3>1, <3>2, <3>3 DEF Create, tables
  <2>3. ASSUME NEW r \in Requests, Change(r)
        PROVE  UNCHANGED <<orders, commands, journal>>
    BY <2>3 DEF Change, RefuseCommand, LoadAccepted, CompareVenueOrderID,
                LoadOrder, LockOrder, UpdateOrder, tables
  <2>4. ASSUME NEW r \in Requests, NEW c \in Commands, Receive(r, c)
        PROVE  UNCHANGED <<orders, commands, journal>>
    BY <2>4 DEF Receive, tables
  <2>5. ASSUME NEW r \in Requests, ReplayCommand(r) \/ Respond(r) \/ Fail(r)
        PROVE  UNCHANGED <<orders, commands, journal>>
    <3>1. UNCHANGED tables
      BY <2>5 DEF ReplayCommand, Respond, Fail
    <3> QED BY <3>1 DEF tables
  <2>6. ASSUME NEW v \in Venues, SyncMenu(v)
        PROVE  UNCHANGED <<orders, commands, journal>>
    BY <2>6 DEF SyncMenu
  <2> QED BY <1>1, <2>1, <2>2, <2>3, <2>4, <2>5, <2>6 DEF Next, Step
<1>2. CASE UNCHANGED vars
  BY <1>2 DEF vars
<1> QED BY <1>1, <1>2

\* An order comes into being only on the menu its customer saw: FOR SHARE on
\* the venue holds every newer snapshot back.
THEOREM OrdersUseCurrentMenu == Spec => OrderedFromCurrentMenu
<1> DEFINE A == \A o \in Orders : orders[o] = None /\ orders'[o] # None =>
                  LET id == <<orders'[o].customer, "create_order", None,
                              orders'[o].createKey>>
                  IN commands'[id].hash.menuVersion
                       = menuVersion'[orders'[o].venue]
<1>1. ASSUME IInv, [Next]_vars PROVE [A]_vars
  <2> SUFFICES ASSUME NEW o \in Orders, orders[o] = None, orders'[o] # None
               PROVE  commands'[<<orders'[o].customer, "create_order", None,
                                  orders'[o].createKey>>].hash.menuVersion
                        = menuVersion'[orders'[o].venue]
    OBVIOUS
  <2>1. GroundInv /\ RecordInv /\ TypeOK /\ PathsFit
    BY <1>1 DEF IInv, GroundInv
  <2>2. PICK r \in Requests : /\ req[r].phase = "commit" /\ Write(r)
                              /\ menuVersion' = menuVersion
    BY <1>1, OnlyCommitsWrite
  <2> DEFINE c == req[r].command
  <2>3. /\ MayWrite(r) /\ (Creating(r) \/ Changing(r))
        /\ Writes(r, req[r].seq)
    BY <2>1, <2>2, CommitMayWrite, CommitsWork DEF Write, Writes
  <2>4. /\ orders'[req[r].order] = Row(r)
        /\ \A p \in Orders \ {req[r].order} : orders'[p] = orders[p]
    BY <2>1, <2>3, RowGrows DEF Writes
  <2>5. o = req[r].order /\ IsCreate(r)
    <3>1. o = req[r].order
      BY <2>4
    <3>2. Changing(r) => orders[o] # None
      BY <2>1, <3>1 DEF PathsFit, Fits
    <3> QED BY <2>2, <3>1, <3>2 DEF Changing
  <2>6. /\ c \in Commands /\ c.operation = "create_order" /\ c.order = None
        /\ orders'[o].customer = c.subject /\ orders'[o].venue = c.body.venue
        /\ orders'[o].createKey = c.key
    BY <2>1, <2>2, <2>4, <2>5, CommandsType
    DEF Row, IsCreate, PathsFit, Fits
  <2>7. commands'[CommandId(c)].hash = c.body
    BY <2>1, <2>3, RowOfCommand
  <2>8. c.body.menuVersion = menuVersion[c.body.venue]
    BY <2>1, <2>2, <2>5 DEF RecordInv, HandlersAreReady, Ready, OnCurrentMenu
  <2>9. CommandId(c) = <<orders'[o].customer, "create_order", None,
                         orders'[o].createKey>>
    BY <2>6 DEF CommandId
  <2> HIDE DEF c
  <2> QED BY <2>2, <2>6, <2>7, <2>8, <2>9
<1>2. IInv /\ [Next]_vars => [A]_vars
  BY <1>1
<1> HIDE DEF A
<1>3. Spec => [][A]_vars
  BY <1>2, Inductive, PTL DEF Spec
<1> QED BY <1>3 DEF A, OrderedFromCurrentMenu

-----------------------------------------------------------------------------
(* The tables implement the abstract order book. *)

\* The histories and the answers that the order book shows.
BookHistory == [o \in Orders |-> Statuses(HistoryOf(o))]
BookAnswer ==
  [id \in CommandIds |->
     IF commands[id] = None THEN None
     ELSE <<commands[id].response.order,
            Statuses(commands[id].response.history)>>]

\* The statuses of a longer history.
LEMMA StatusesAppend ==
  ASSUME NEW h \in History, NEW e \in StatusChange
  PROVE  Statuses(Append(h, e)) = Append(Statuses(h), e.status)
<1> DEFINE g == Append(h, e)
           n == Len(h)
<1>1. /\ g \in History /\ Len(g) = n + 1 /\ n \in Nat
      /\ \A i \in 1 .. n : g[i] = h[i]
      /\ g[n + 1] = e
  BY AppendProperties, LenProperties DEF History
<1>2. /\ Statuses(g) \in Seq(Status) /\ Len(Statuses(g)) = n + 1
      /\ \A i \in 1 .. n + 1 : Statuses(g)[i] = g[i].status
  BY <1>1, StatusesType
<1>3. /\ Statuses(h) \in Seq(Status) /\ Len(Statuses(h)) = n
      /\ \A i \in 1 .. n : Statuses(h)[i] = h[i].status
  BY StatusesType
<1>4. e.status \in Status
  BY DEF StatusChange
<1> DEFINE b == Append(Statuses(h), e.status)
<1>5. /\ b \in Seq(Status) /\ Len(b) = n + 1
      /\ \A i \in 1 .. n : b[i] = Statuses(h)[i]
      /\ b[n + 1] = e.status
  BY <1>3, <1>4, AppendProperties
<1> HIDE DEF g, b, n
<1>6. \A i \in 1 .. n + 1 : Statuses(g)[i] = b[i]
  <2> SUFFICES ASSUME NEW i \in 1 .. n + 1 PROVE Statuses(g)[i] = b[i]
    OBVIOUS
  <2>1. CASE i \in 1 .. n
    BY <1>1, <1>2, <1>3, <1>5, <2>1
  <2>2. CASE i = n + 1
    BY <1>1, <1>2, <1>5, <2>2
  <2> QED BY <1>1, <2>1, <2>2
<1>7. Statuses(g) = b
  BY <1>1, <1>2, <1>5, <1>6, SeqEqual
<1> QED BY <1>7 DEF g, b

\* A write is a command that takes effect: it had no answer, it moves its order
\* by one legal move, and the order as it leaves it is its answer.
LEMMA WriteExecutes ==
  ASSUME GroundInv, NEW r \in Requests, NEW seq, MayRecord(r, seq),
         Writes(r, seq)
  PROVE  \E id \in CommandIds, o \in Orders, status \in Status :
           Book!Execute(id, o, status)
<1> PICK c, o, h, id, draft :
           /\ c = req[r].command /\ o = req[r].order /\ h = HistoryOf(o)
           /\ id = CommandId(c) /\ draft = Draft(r)
  OBVIOUS
<1>1. /\ MayWrite(r) /\ ~Recorded(r) /\ (Creating(r) \/ Changing(r))
      /\ TypeOK /\ PathsFit
  BY DEF MayRecord, MayWrite, GroundInv
<1>2. /\ o \in Orders /\ c \in Commands
      /\ h \in History /\ Move(r) \in StatusChange
      /\ Draft(r) = Append(h, Move(r)) /\ Row(r).history = Draft(r)
      /\ MayFollow(Statuses(h), Target(c))
  BY <1>1, DraftMoves
<1>3. /\ orders'[o] = Row(r) /\ Row(r) # None
      /\ \A p \in Orders \ {o} : orders'[p] = orders[p]
  BY <1>1, RowGrows DEF Writes
<1>4. /\ id \in CommandIds /\ commands'[id] # None
      /\ commands'[id].response.order = o
      /\ commands'[id].response.history = Draft(r)
      /\ \A d \in CommandIds \ {id} : commands'[d] = commands[d]
  BY <1>1, RowOfCommand
<1>5. Target(c) \in Status /\ Move(r).status = Target(c)
  BY <1>2, TargetType DEF Move
<1>6. Statuses(draft) = Append(Statuses(h), Target(c))
  BY <1>2, <1>5, StatusesAppend
<1>7. commands[id] = None
  BY <1>1 DEF Recorded
<1>8. BookHistory' = [BookHistory EXCEPT ![o] = Append(@, Target(c))]
  <2>1. HistoryOf(o)' = draft /\ \A p \in Orders \ {o} :
                                    HistoryOf(p)' = HistoryOf(p)
    BY <1>2, <1>3 DEF HistoryOf
  <2>2. BookHistory[o] = Statuses(h)
    BY <1>2 DEF BookHistory
  <2>3. BookHistory'[o] = Statuses(draft)
    BY <1>2, <2>1 DEF BookHistory, Statuses
  <2>4. ASSUME NEW p \in Orders \ {o} PROVE BookHistory'[p] = BookHistory[p]
    BY <2>1 DEF BookHistory, Statuses
  <2>5. /\ BookHistory = [p \in Orders |-> BookHistory[p]]
        /\ BookHistory' = [p \in Orders |-> BookHistory'[p]]
    BY DEF BookHistory
  <2> QED BY <1>2, <1>6, <2>2, <2>3, <2>4, <2>5
<1>9. BookAnswer' = [BookAnswer EXCEPT
                       ![id] = <<o, Append(Statuses(h), Target(c))>>]
  <2>1. BookAnswer'[id] = <<o, Statuses(draft)>>
    BY <1>4 DEF BookAnswer, Statuses
  <2>2. ASSUME NEW d \in CommandIds \ {id} PROVE BookAnswer'[d] = BookAnswer[d]
    BY <1>4, <2>2 DEF BookAnswer, Statuses
  <2>3. /\ BookAnswer = [d \in CommandIds |-> BookAnswer[d]]
        /\ BookAnswer' = [d \in CommandIds |-> BookAnswer'[d]]
    BY DEF BookAnswer
  <2> QED BY <1>4, <1>6, <2>1, <2>2, <2>3
<1>10. BookHistory[o] = Statuses(h) /\ BookAnswer[id] = None
  BY <1>2, <1>4, <1>7 DEF BookHistory, BookAnswer
<1>11. Book!MayFollow(BookHistory[o], Target(c))
  BY <1>2, <1>10
  DEF Book!MayFollow, MayFollow, Book!LegalMove, LegalMove, Book!Last, Last
<1>12. BookAnswer' = [BookAnswer EXCEPT
                        ![id] = <<o, Append(BookHistory[o], Target(c))>>]
  BY <1>9, <1>10
<1>13. Book!Execute(id, o, Target(c))
  BY <1>8, <1>10, <1>11, <1>12 DEF Book!Execute, BookHistory, BookAnswer
<1> QED BY <1>2, <1>4, <1>5, <1>13

\* The platform implements the order book: every command acts at most once, on
\* one order, by one legal move, and its answer is recorded with the effect.
THEOREM RefinesOrderBook == Spec => ImplementsOrderBook
<1>1. Init => Book!Init
  <2> SUFFICES ASSUME Init PROVE Book!Init
    OBVIOUS
  <2>1. \A o \in Orders : HistoryOf(o) = <<>>
    BY DEF Init, HistoryOf
  <2>2. Statuses(<<>>) = <<>>
    <3>1. <<>> \in History /\ Len(<<>>) = 0
      BY EmptySeq DEF History
    <3> QED BY <3>1, StatusesType, EmptySeq
  <2>3. \A id \in CommandIds : commands[id] = None
    BY DEF Init
  <2> QED BY <2>1, <2>2, <2>3 DEF Book!Init
<1>2. IInv /\ [Next]_vars => [Book!Next]_Book!vars
  <2> SUFFICES ASSUME IInv, [Next]_vars PROVE [Book!Next]_Book!vars
    OBVIOUS
  <2>1. GroundInv /\ RecordInv /\ TypeOK
    BY DEF IInv, GroundInv
  <2>2. CASE UNCHANGED <<orders, commands, journal>>
    <3>1. \A o \in Orders : HistoryOf(o)' = HistoryOf(o)
      BY <2>2 DEF HistoryOf
    <3> QED BY <2>2, <3>1 DEF Book!vars, Statuses
  <2>3. ASSUME NEW r \in Requests, req[r].phase = "commit", Write(r)
        PROVE  Book!Next
    <3>1. MayRecord(r, req[r].seq) /\ Writes(r, req[r].seq)
      BY <2>1, <2>3, CommitMayRecord DEF Write, Writes
    <3> QED BY <2>1, <3>1, WriteExecutes DEF Book!Next, Book!Status, Status
  <2> QED BY <2>1, <2>2, <2>3, OnlyCommitsWrite
<1> QED BY <1>1, <1>2, Inductive, PTL DEF Spec, ImplementsOrderBook, Book!Spec

-----------------------------------------------------------------------------
(* Waiting. *)

\* A handler only waits for one that is further on its way.
LEMMA WaitingLooksAhead ==
  ASSUME NEW r \in Requests, NEW s \in Requests, WaitsFor(r, s)
  PROVE  \/ req[r].phase \in {"insert", "update"} /\ req[s].phase = "commit"
         \/ req[r].phase = "lock" /\ req[s].phase \in {"update", "commit"}
BY DEF WaitsFor, LocksOrder, InsertsFor, AssignsVenueOrderID

\* Whatever locks and unique keys the handlers hold, some handler of every set
\* of them waits for none of the others: waiting never goes in a circle.
THEOREM WaitingEnds == Spec => []NobodyWaitsInACircle
<1>1. ASSUME NEW S \in SUBSET Requests, S # {}
      PROVE  \E r \in S : \A s \in S : ~WaitsFor(r, s)
  <2>1. CASE \E r \in S : req[r].phase = "commit"
    BY <2>1, WaitingLooksAhead
  <2>2. CASE /\ \A s \in S : req[s].phase # "commit"
             /\ \E r \in S : req[r].phase = "update"
    BY <2>2, WaitingLooksAhead
  <2>3. CASE \A s \in S : req[s].phase \notin {"update", "commit"}
    BY <1>1, <2>3, WaitingLooksAhead
  <2> QED BY <2>1, <2>2, <2>3
<1>2. NobodyWaitsInACircle
  BY <1>1 DEF NobodyWaitsInACircle
<1> QED BY <1>2, PTL
=============================================================================
