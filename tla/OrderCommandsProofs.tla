------------------------ MODULE OrderCommandsProofs ------------------------
(***************************************************************************)
(* Theorems about the order commands, for any number of handlers, orders,   *)
(* subjects and commands: what the tables and the handlers hold is always   *)
(* of its type, every handler is on the path of its command's kind, and     *)
(* what happens to the histories of orders, whatever handlers race for      *)
(* them.                                                                    *)
(***************************************************************************)
EXTENDS OrderCommandsInvariant, SequenceTheorems, TLAPS

-----------------------------------------------------------------------------
(* Types. *)

\* Every command that was sent asks for a status that orders can have.
LEMMA TargetType == \A c \in Commands : Target(c) \in Status
BY CommandsType DEF Target, Operations, Status

\* A handler that is about to change an order has a history to write.
LEMMA DraftType ==
  ASSUME TypeOK, NEW r \in Requests, req[r].command \in Commands
  PROVE  Draft(r) \in History
<1>1. req[r].base \in Seq(StatusChange) /\ req[r].at \in Nat
  BY DEF TypeOK, Handler, History
<1>2. [status |-> Target(req[r].command), changedAt |-> req[r].at]
        \in StatusChange
  BY <1>1, TargetType DEF StatusChange
<1> QED BY <1>1, <1>2, AppendProperties DEF Draft, History

\* What a write leaves in the three tables, with this number on its event.
Writes(r, seq) ==
  LET c == req[r].command
      o == req[r].order
  IN /\ orders' = [orders EXCEPT ![o] = Row(r)]
     /\ journal' = journal \cup {[seq |-> seq, venue |-> Row(r).venue,
                                  order |-> o, history |-> Draft(r)]}
     /\ commands' = [commands EXCEPT ![CommandId(c)] =
                       [hash |-> c.body,
                        response |-> [order |-> o, history |-> Draft(r)]]]

\* A handler that commits is creating or changing its order.
LEMMA CommitsWork ==
  ASSUME NEW r, req[r].phase = "commit"
  PROVE  Creating(r) \/ Changing(r)
BY DEF Creating, Changing

\* What a handler writes is a row of the orders table.
LEMMA RowType ==
  ASSUME TypeOK, PathsFit, NEW r \in Requests, Creating(r) \/ Changing(r)
  PROVE  /\ req[r].order \in Orders
         /\ Row(r) \in OrderRow
         /\ Row(r).history = Draft(r)
         /\ ~IsCreate(r) => /\ orders[req[r].order] \in OrderRow
                            /\ Row(r).customer = orders[req[r].order].customer
                            /\ Row(r).venue = orders[req[r].order].venue
<1> DEFINE c == req[r].command
           o == req[r].order
<1>1. c \in Commands /\ Draft(r) \in History
  BY DraftType DEF PathsFit, Fits, Creating, Changing
<1>2. CASE IsCreate(r)
  <2>1. o \in Orders
    BY <1>2 DEF PathsFit, Fits, Creating, Changing
  <2>2. c.subject \in Users /\ c.body.venue \in Venues
    BY <1>1, <1>2, CommandsType DEF IsCreate
  <2> QED BY <1>1, <1>2, <2>1, <2>2 DEF Row, OrderRow
<1>3. CASE ~IsCreate(r)
  <2>1. o \in Orders /\ orders[o] # None
    BY <1>3 DEF PathsFit, Fits, Creating, Changing, Active, InTransaction
  <2>2. orders[o] \in OrderRow
    BY <2>1 DEF TypeOK
  <2>3. c.operation = "accept_order" =>
          c.body.venueOrderID \in VenueOrderIDs \cup {None}
    BY <1>1, CommandsType
  <2> QED BY <1>1, <1>3, <2>1, <2>2, <2>3 DEF Row, OrderRow
<1> QED BY <1>2, <1>3

\* A handler that does not move keeps its footing while rows only appear.
LEMMA FitsFrame ==
  ASSUME NEW s, Fits(s), req'[s] = req[s],
         \A o \in Orders : orders[o] # None => orders'[o] # None
  PROVE  Fits(s)'
BY DEF Fits, Creating, Changing, IsCreate, Active, InTransaction

\* Nothing else changes when a handler has its answer.
LEMMA AnswerType ==
  ASSUME TypeOK, PathsFit, NEW r \in Requests, req[r].phase # "idle",
         NEW reply \in [code : Codes, order : Orders \cup {None},
                        history : History],
         Answer(r, reply),
         \A o \in Orders : orders[o] # None => orders'[o] # None
  PROVE  req' \in [Requests -> Handler] /\ PathsFit'
<1>1. req[r].command \in Commands
  BY DEF PathsFit, Fits
<1>2. <<>> \in History
  BY DEF History
<1>3. req' \in [Requests -> Handler]
  BY <1>1, <1>2 DEF Answer, Idle, TypeOK, Handler
<1>4. /\ req'[r].phase = "done" /\ req'[r].command = req[r].command
      /\ \A s \in Requests \ {r} : req'[s] = req[s]
  BY DEF Answer, Idle, TypeOK, Handler
<1>5. Fits(r)'
  BY <1>1, <1>4 DEF Fits, Creating, Changing, Active, InTransaction
<1>6. ASSUME NEW s \in Requests \ {r}
      PROVE  Fits(s)'
  BY <1>4, FitsFrame DEF PathsFit
<1> QED BY <1>3, <1>5, <1>6 DEF PathsFit

\* A handler stays a handler when one of its fields gets a value of its type.
LEMMA FieldTypes ==
  ASSUME NEW q \in [Requests -> Handler], NEW r \in Requests
  PROVE  /\ \A phase \in Active :
              [q EXCEPT ![r].phase = phase] \in [Requests -> Handler]
         /\ \A o \in Orders : [q EXCEPT ![r].order = o] \in [Requests -> Handler]
         /\ \A b \in History : [q EXCEPT ![r].base = b] \in [Requests -> Handler]
         /\ \A n \in Nat : [q EXCEPT ![r].at = n] \in [Requests -> Handler]
         /\ \A n \in Nat : [q EXCEPT ![r].seq = n] \in [Requests -> Handler]
<1>1. q[r] \in Handler
  OBVIOUS
<1>2. ASSUME NEW phase \in Active
      PROVE  [q EXCEPT ![r].phase = phase] \in [Requests -> Handler]
  <2>1. [q[r] EXCEPT !.phase = phase] \in Handler
    BY <1>1 DEF Handler
  <2> QED BY <2>1
<1>3. ASSUME NEW o \in Orders
      PROVE  [q EXCEPT ![r].order = o] \in [Requests -> Handler]
  <2>1. [q[r] EXCEPT !.order = o] \in Handler
    BY <1>1 DEF Handler
  <2> QED BY <2>1
<1>4. ASSUME NEW b \in History
      PROVE  [q EXCEPT ![r].base = b] \in [Requests -> Handler]
  <2>1. [q[r] EXCEPT !.base = b] \in Handler
    BY <1>1 DEF Handler
  <2> QED BY <2>1
<1>5. ASSUME NEW n \in Nat
      PROVE  /\ [q EXCEPT ![r].at = n] \in [Requests -> Handler]
             /\ [q EXCEPT ![r].seq = n] \in [Requests -> Handler]
  <2>1. /\ [q[r] EXCEPT !.at = n] \in Handler
        /\ [q[r] EXCEPT !.seq = n] \in Handler
    BY <1>1 DEF Handler
  <2> QED BY <2>1
<1> QED BY <1>2, <1>3, <1>4, <1>5

\* A handler that goes on to its next phase stays on the path of its kind.
LEMMA ProceedType ==
  ASSUME TypeOK, PathsFit, NEW r \in Requests,
         NEW phase \in Active, Proceed(r, phase), orders' = orders,
         req[r].phase \in Active,
         phase \in {"prepare", "find", "version", "insert"} => IsCreate(r),
         phase \in {"load", "compare", "lock", "update"} => ~IsCreate(r),
         IsCreate(r) /\ phase # "prepare" => Creating(r),
         ~IsCreate(r) /\ phase # "load" => Changing(r)
  PROVE  req' \in [Requests -> Handler] /\ PathsFit'
<1>1. req' = [req EXCEPT ![r].phase = phase]
  BY DEF Proceed
<1>2. req' \in [Requests -> Handler]
  BY <1>1, FieldTypes DEF TypeOK
<1>3. /\ req'[r].phase = phase /\ req'[r].command = req[r].command
      /\ req'[r].order = req[r].order /\ req'[r].base = req[r].base
      /\ \A s \in Requests \ {r} : req'[s] = req[s]
  BY <1>1 DEF TypeOK, Handler
<1>4. Fits(r)'
  BY <1>3 DEF PathsFit, Fits, Creating, Changing, IsCreate, Active,
              InTransaction
<1>5. ASSUME NEW s \in Requests \ {r}
      PROVE  Fits(s)'
  BY <1>3, FitsFrame DEF PathsFit
<1> QED BY <1>2, <1>4, <1>5 DEF PathsFit

\* A handler that finds no reason to refuse sees its order, and either the
\* order is accepted as asked or the change is permitted.
LEMMA Unrefused ==
  ASSUME NEW r, Refusal(r) = None
  PROVE  /\ Visible(req[r].command, req[r].order)
         /\ \/ AlreadyAccepted(r)
            \/ Permits(req[r].command, StatusOf(orders[req[r].order].history))
BY NoneIsAbsent DEF Refusal, Codes

\* What a recorded row answers is an answer.
LEMMA RecordedType ==
  ASSUME TypeOK, PathsFit, NEW r \in Requests, req[r].phase # "idle",
         Recorded(r), AnswerRecorded(r), orders' = orders
  PROVE  req' \in [Requests -> Handler] /\ PathsFit'
<1> DEFINE row == commands[CommandId(req[r].command)]
           reply == IF row.hash = req[r].command.body
                    THEN Success(row.response.order, row.response.history)
                    ELSE Problem("idempotency_key_reused")
<1>1. req[r].command \in Commands
  BY DEF PathsFit, Fits
<1>2. CommandId(req[r].command) \in CommandIds
  BY <1>1 DEF CommandIds
<1>3. row \in CommandRow
  BY <1>2 DEF TypeOK, Recorded
<1>4. <<>> \in History
  BY DEF History
<1>5. reply \in [code : Codes, order : Orders \cup {None}, history : History]
  BY <1>3, <1>4 DEF CommandRow, Success, Problem, Reply, Codes
<1>6. Answer(r, reply)
  BY DEF AnswerRecorded
<1> QED BY <1>5, <1>6, AnswerType

\* A problem is an answer.
LEMMA ProblemType ==
  ASSUME TypeOK, PathsFit, NEW r \in Requests, req[r].phase # "idle",
         NEW code \in Codes, Answer(r, Problem(code)), orders' = orders
  PROVE  req' \in [Requests -> Handler] /\ PathsFit'
<1>1. Problem(code) \in [code : Codes, order : Orders \cup {None},
                         history : History]
  BY DEF Problem, Reply, History
<1> QED BY <1>1, AnswerType

\* A write keeps the types, and answers the handler that wrote.
LEMMA WriteType ==
  ASSUME TypeOK, PathsFit, NEW r \in Requests, Creating(r) \/ Changing(r),
         NEW seq \in Nat, Writes(r, seq), nextSeq' \in Nat,
         UNCHANGED <<menuVersion, clock, received>>,
         \/ Answer(r, Success(req[r].order, Draft(r)))
         \/ Answer(r, Problem("internal_error"))
  PROVE  TypeOK' /\ PathsFit'
<1> DEFINE c == req[r].command
           o == req[r].order
<1>1. /\ c \in Commands /\ o \in Orders /\ Row(r) \in OrderRow
      /\ Draft(r) \in History /\ CommandId(c) \in CommandIds
  BY RowType, DraftType
  DEF PathsFit, Fits, CommandIds, Creating, Changing
<1>2. orders' = [orders EXCEPT ![o] = Row(r)]
  BY DEF Writes
<1>3. orders' \in [Orders -> {None} \cup OrderRow]
  BY <1>1, <1>2 DEF TypeOK
<1>4. journal' \subseteq
        [seq : Nat, venue : Venues, order : Orders, history : History]
  <2>1. Row(r).venue \in Venues
    BY <1>1 DEF OrderRow
  <2> QED BY <1>1, <2>1 DEF Writes, TypeOK
<1>5. commands' \in [CommandIds -> {None} \cup CommandRow]
  <2> DEFINE row == [hash |-> c.body,
                     response |-> [order |-> o, history |-> Draft(r)]]
  <2>1. row \in CommandRow
    BY <1>1 DEF CommandRow
  <2>2. commands' = [commands EXCEPT ![CommandId(c)] = row]
    BY DEF Writes
  <2> HIDE DEF row, c
  <2> QED BY <1>1, <2>1, <2>2 DEF TypeOK
<1>6. \A p \in Orders : orders[p] # None => orders'[p] # None
  BY <1>1, <1>2, NoneIsAbsent DEF TypeOK
<1>7. req' \in [Requests -> Handler] /\ PathsFit'
  <2>1. /\ Success(o, Draft(r)) \in [code : Codes, order : Orders \cup {None},
                                      history : History]
        /\ Problem("internal_error") \in
             [code : Codes, order : Orders \cup {None}, history : History]
    BY <1>1 DEF Success, Problem, Reply, Codes, History
  <2>2. req[r].phase # "idle"
    BY DEF Creating, Changing
  <2> QED BY <1>6, <2>1, <2>2, AnswerType
<1> QED BY <1>3, <1>4, <1>5, <1>7 DEF TypeOK

\* Every step of the handlers, and of a venue that publishes its menu, keeps
\* the types and keeps the handlers on their paths.
LEMMA TypeStep ==
  ASSUME TypeOK, PathsFit, [Next]_vars
  PROVE  TypeOK' /\ PathsFit'
<1>1. ASSUME NEW r \in Requests, NEW c \in Commands, Receive(r, c)
      PROVE  TypeOK' /\ PathsFit'
  <2>1. /\ c.order \in Orders \cup {None}
        /\ c.operation # "create_order" => c.order \in Orders
    BY <1>1, CommandsType
  <2>2. req' \in [Requests -> Handler]
    <3>1. "replay" \in Active /\ <<>> \in History
      BY DEF Active, History
    <3> QED BY <1>1, <2>1, <3>1 DEF Receive, Idle, TypeOK, Handler
  <2>3. /\ req'[r].phase = "replay" /\ req'[r].command = c
        /\ req'[r].order = c.order /\ req'[r].base = <<>>
        /\ \A s \in Requests \ {r} : req'[s] = req[s]
    BY <1>1 DEF Receive, Idle, TypeOK, Handler
  <2>4. Fits(r)'
    BY <1>1, <2>1, <2>3
    DEF Receive, Fits, Creating, Changing, IsCreate
  <2>5. \A s \in Requests \ {r} : Fits(s)'
    BY <1>1, <2>3, FitsFrame DEF Receive, tables, PathsFit
  <2> QED BY <1>1, <2>2, <2>4, <2>5 DEF Receive, tables, TypeOK, PathsFit
<1>2. ASSUME NEW r \in Requests, ReplayCommand(r)
      PROVE  TypeOK' /\ PathsFit'
  <2>1. req' \in [Requests -> Handler] /\ PathsFit'
    <3>1. CASE Recorded(r)
      BY <1>2, <3>1, RecordedType DEF ReplayCommand, tables
    <3>2. CASE ~Recorded(r)
      BY <1>2, <3>2, ProceedType
      DEF ReplayCommand, tables, Active, InTransaction
    <3> QED BY <3>1, <3>2
  <2> QED BY <1>2, <2>1 DEF ReplayCommand, tables, TypeOK
<1>3. ASSUME NEW r \in Requests, RefuseOrder(r)
      PROVE  TypeOK' /\ PathsFit'
  BY <1>3, ProblemType DEF RefuseOrder, tables, TypeOK, Codes
<1>4. ASSUME NEW r \in Requests, PrepareOrder(r)
      PROVE  TypeOK' /\ PathsFit'
  <2>1. CASE Answer(r, Problem("menu_version_mismatch")) /\ clock' = clock
    BY <1>4, <2>1, ProblemType DEF PrepareOrder, tables, TypeOK, Codes
  <2>2. ASSUME NEW o \in Orders,
               req' = [req EXCEPT ![r].phase = "find", ![r].order = o,
                                  ![r].at = clock],
               clock' = clock + 1
        PROVE  TypeOK' /\ PathsFit'
    <3>1. req' \in [Requests -> Handler] /\ clock' \in Nat
      <4>1. "find" \in Active
        BY DEF Active, InTransaction
      <4>2. clock \in Nat /\ clock' \in Nat
        BY <2>2 DEF TypeOK
      <4> DEFINE found == [req EXCEPT ![r].phase = "find"]
                 named == [found EXCEPT ![r].order = o]
      <4>3. found \in [Requests -> Handler]
        BY <4>1, FieldTypes DEF TypeOK
      <4>4. req' = [named EXCEPT ![r].at = clock]
        BY <2>2
      <4> HIDE DEF found
      <4>5. named \in [Requests -> Handler]
        BY <4>3, FieldTypes
      <4> HIDE DEF named
      <4> QED BY <4>2, <4>4, <4>5, FieldTypes
    <3>2. /\ req'[r].phase = "find" /\ req'[r].order = o
          /\ req'[r].command = req[r].command /\ req'[r].base = req[r].base
          /\ \A s \in Requests \ {r} : req'[s] = req[s]
      BY <2>2 DEF TypeOK, Handler
    <3>3. Fits(r)'
      BY <1>4, <3>2
      DEF PrepareOrder, PathsFit, Fits, Creating, Changing, IsCreate, Active,
          InTransaction
    <3>4. \A s \in Requests \ {r} : Fits(s)'
      BY <1>4, <3>2, FitsFrame DEF PrepareOrder, tables, PathsFit
    <3> QED BY <1>4, <3>1, <3>3, <3>4 DEF PrepareOrder, tables, TypeOK, PathsFit
  <2> QED BY <1>4, <2>1, <2>2 DEF PrepareOrder
<1>5. ASSUME NEW r \in Requests, FindCommandTx(r)
      PROVE  TypeOK' /\ PathsFit'
  <2>1. CASE Recorded(r)
    BY <1>5, <2>1, RecordedType DEF FindCommandTx, tables, TypeOK
  <2>2. CASE Proceed(r, "version")
    <3>1. Creating(r)
      BY <1>5 DEF FindCommandTx, PathsFit, Fits, Creating
    <3>2. req' \in [Requests -> Handler] /\ PathsFit'
      BY <1>5, <2>2, <3>1, ProceedType
      DEF FindCommandTx, tables, Creating, Active, InTransaction
    <3> QED BY <1>5, <3>2 DEF FindCommandTx, tables, TypeOK
  <2> QED BY <1>5, <2>1, <2>2 DEF FindCommandTx
<1>6. ASSUME NEW r \in Requests, LockMenuVersion(r)
      PROVE  TypeOK' /\ PathsFit'
  <2>1. CASE Answer(r, Problem("menu_version_mismatch"))
    BY <1>6, <2>1, ProblemType DEF LockMenuVersion, tables, TypeOK, Codes
  <2>2. CASE Proceed(r, "insert")
    <3>1. Creating(r)
      BY <1>6 DEF LockMenuVersion, PathsFit, Fits, Creating
    <3>2. req' \in [Requests -> Handler] /\ PathsFit'
      BY <1>6, <2>2, <3>1, ProceedType
      DEF LockMenuVersion, tables, Creating, Active, InTransaction
    <3> QED BY <1>6, <3>2 DEF LockMenuVersion, tables, TypeOK
  <2> QED BY <1>6, <2>1, <2>2 DEF LockMenuVersion
<1>7. ASSUME NEW r \in Requests, InsertOrder(r) \/ UpdateOrder(r)
      PROVE  TypeOK' /\ PathsFit'
  <2> tables' = tables /\ UNCHANGED <<clock, received>>
    BY <1>7 DEF InsertOrder, UpdateOrder
  <2>1. CASE Recorded(r) /\ AnswerRecorded(r) /\ nextSeq' = nextSeq
    BY <1>7, <2>1, RecordedType
    DEF InsertOrder, UpdateOrder, tables, TypeOK
  <2>2. CASE Answer(r, Problem("internal_error")) /\ nextSeq' = nextSeq
    BY <1>7, <2>2, ProblemType
    DEF InsertOrder, UpdateOrder, tables, TypeOK, Codes
  <2>3. CASE /\ req' = [req EXCEPT ![r].phase = "commit", ![r].seq = nextSeq]
             /\ nextSeq' = nextSeq + 1
    <3>1. req' \in [Requests -> Handler] /\ nextSeq' \in Nat
      <4>1. "commit" \in Active
        BY DEF Active, InTransaction
      <4>2. nextSeq \in Nat /\ nextSeq' \in Nat
        BY <2>3 DEF TypeOK
      <4> DEFINE ready == [req EXCEPT ![r].phase = "commit"]
      <4>3. ready \in [Requests -> Handler]
        BY <4>1, FieldTypes DEF TypeOK
      <4>4. req' = [ready EXCEPT ![r].seq = nextSeq]
        BY <2>3
      <4> HIDE DEF ready
      <4> QED BY <4>2, <4>3, <4>4, FieldTypes
    <3>2. /\ req'[r].phase = "commit" /\ req'[r].order = req[r].order
          /\ req'[r].command = req[r].command /\ req'[r].base = req[r].base
          /\ \A s \in Requests \ {r} : req'[s] = req[s]
      BY <2>3 DEF TypeOK, Handler
    <3>3. Fits(r)'
      BY <1>7, <3>2
      DEF InsertOrder, UpdateOrder, PathsFit, Fits, Creating, Changing,
          IsCreate, Active, InTransaction, tables
    <3>4. \A s \in Requests \ {r} : Fits(s)'
      BY <3>2, FitsFrame DEF tables, PathsFit
    <3> QED BY <3>1, <3>3, <3>4 DEF tables, TypeOK, PathsFit
  <2> QED BY <1>7, <2>1, <2>2, <2>3 DEF InsertOrder, UpdateOrder
<1>8. ASSUME NEW r \in Requests, RefuseCommand(r)
      PROVE  TypeOK' /\ PathsFit'
  <2>1. Refusal(r) \in Codes
    BY <1>8 DEF RefuseCommand, Refusal, Codes
  <2> QED BY <1>8, <2>1, ProblemType DEF RefuseCommand, tables, TypeOK
<1>9. ASSUME NEW r \in Requests, LoadAccepted(r)
      PROVE  TypeOK' /\ PathsFit'
  <2>1. /\ req[r].order \in Orders /\ orders[req[r].order] # None
        /\ ~IsCreate(r)
    BY <1>9, CommandsType
    DEF LoadAccepted, AlreadyAccepted, Visible, PathsFit, Fits, Active
  <2>2. orders[req[r].order].history \in History
    BY <2>1 DEF TypeOK, OrderRow
  <2>3. req' \in [Requests -> Handler]
    <3>1. "compare" \in Active
      BY DEF Active
    <3> DEFINE found == [req EXCEPT ![r].phase = "compare"]
               history == orders[req[r].order].history
    <3>2. found \in [Requests -> Handler]
      BY <3>1, FieldTypes DEF TypeOK
    <3>3. req' = [found EXCEPT ![r].base = history]
      BY <1>9 DEF LoadAccepted
    <3> HIDE DEF found
    <3> QED BY <2>2, <3>2, <3>3, FieldTypes
  <2>4. /\ req'[r].phase = "compare" /\ req'[r].order = req[r].order
        /\ req'[r].command = req[r].command
        /\ \A s \in Requests \ {r} : req'[s] = req[s]
    BY <1>9 DEF LoadAccepted, TypeOK, Handler
  <2>5. Fits(r)'
    BY <1>9, <2>1, <2>4
    DEF LoadAccepted, PathsFit, Fits, Creating, Changing, IsCreate, Active,
        InTransaction
  <2>6. \A s \in Requests \ {r} : Fits(s)'
    BY <1>9, <2>4, FitsFrame DEF LoadAccepted, tables, PathsFit
  <2> QED BY <1>9, <2>3, <2>5, <2>6 DEF LoadAccepted, tables, TypeOK, PathsFit
<1>10. ASSUME NEW r \in Requests, CompareVenueOrderID(r)
       PROVE  TypeOK' /\ PathsFit'
  <2>1. req[r].order \in Orders /\ req[r].base \in History
    BY <1>10
    DEF CompareVenueOrderID, TypeOK, Handler, PathsFit, Fits, Active
  <2>2. Success(req[r].order, req[r].base)
          \in [code : Codes, order : Orders \cup {None}, history : History]
    BY <2>1 DEF Success, Reply, Codes
  <2>3. CASE Answer(r, Success(req[r].order, req[r].base))
    BY <1>10, <2>2, <2>3, AnswerType DEF CompareVenueOrderID, tables, TypeOK
  <2>4. CASE Answer(r, Problem("idempotency_key_reused"))
    BY <1>10, <2>4, ProblemType DEF CompareVenueOrderID, tables, TypeOK, Codes
  <2> QED BY <1>10, <2>3, <2>4 DEF CompareVenueOrderID
<1>11. ASSUME NEW r \in Requests, LoadOrder(r)
       PROVE  TypeOK' /\ PathsFit'
  <2>1. /\ req[r].order \in Orders /\ orders[req[r].order] # None
        /\ ~IsCreate(r)
    <3>1. ~IsCreate(r) /\ req[r].order \in Orders
      BY <1>11 DEF LoadOrder, PathsFit, Fits, Active
    <3>2. Visible(req[r].command, req[r].order)
      BY <1>11, Unrefused DEF LoadOrder
    <3> QED BY <3>1, <3>2 DEF Visible
  <2>2. /\ orders[req[r].order].history \in History
        /\ clock \in Nat /\ clock' \in Nat
    BY <1>11, <2>1 DEF LoadOrder, TypeOK, OrderRow
  <2> DEFINE locking == [req EXCEPT ![r].phase = "lock"]
             found == [locking EXCEPT ![r].base = orders[req[r].order].history]
  <2>3. found \in [Requests -> Handler]
    <3>1. "lock" \in Active
      BY DEF Active
    <3>2. locking \in [Requests -> Handler]
      BY <3>1, FieldTypes DEF TypeOK
    <3> HIDE DEF locking
    <3> QED BY <2>2, <3>2, FieldTypes
  <2>4. req' = [found EXCEPT ![r].at = clock]
    BY <1>11 DEF LoadOrder
  <2>5. req' \in [Requests -> Handler]
    <3> HIDE DEF found
    <3> QED BY <2>2, <2>3, <2>4, FieldTypes
  <2>6. /\ req'[r].phase = "lock" /\ req'[r].order = req[r].order
        /\ req'[r].command = req[r].command
        /\ \A s \in Requests \ {r} : req'[s] = req[s]
    BY <1>11 DEF LoadOrder, TypeOK, Handler
  <2>7. Fits(r)'
    BY <1>11, <2>1, <2>6
    DEF LoadOrder, PathsFit, Fits, Creating, Changing, IsCreate, Active,
        InTransaction, tables
  <2>8. \A s \in Requests \ {r} : Fits(s)'
    BY <1>11, <2>6, FitsFrame DEF LoadOrder, tables, PathsFit
  <2> QED BY <1>11, <2>2, <2>5, <2>7, <2>8
          DEF LoadOrder, tables, TypeOK, PathsFit
<1>12. ASSUME NEW r \in Requests, LockOrder(r)
       PROVE  TypeOK' /\ PathsFit'
  <2>1. CASE Recorded(r) /\ AnswerRecorded(r)
    BY <1>12, <2>1, RecordedType DEF LockOrder, tables, TypeOK
  <2>2. CASE Proceed(r, "update")
    <3>1. ~IsCreate(r) /\ Changing(r)
      BY <1>12 DEF LockOrder, PathsFit, Fits, Changing
    <3>2. req' \in [Requests -> Handler] /\ PathsFit'
      BY <1>12, <2>2, <3>1, ProceedType
      DEF LockOrder, tables, Active, InTransaction
    <3> QED BY <1>12, <3>2 DEF LockOrder, tables, TypeOK
  <2>3. CASE Answer(r, Problem("invalid_order_transition"))
    BY <1>12, <2>3, ProblemType DEF LockOrder, tables, TypeOK, Codes
  <2> QED BY <1>12, <2>1, <2>2, <2>3 DEF LockOrder
<1>13. ASSUME NEW r \in Requests, Commit(r) \/ CommitUnacknowledged(r)
       PROVE  TypeOK' /\ PathsFit'
  <2>1. /\ req[r].phase = "commit" /\ Writes(r, req[r].seq)
        /\ UNCHANGED <<menuVersion, nextSeq, clock, received>>
    BY <1>13 DEF Commit, CommitUnacknowledged, Write, Writes
  <2>2. /\ Creating(r) \/ Changing(r)
        /\ req[r].seq \in Nat /\ nextSeq' \in Nat
    BY <2>1, CommitsWork DEF TypeOK, Handler
  <2>3. \/ Answer(r, Success(req[r].order, Draft(r)))
        \/ Answer(r, Problem("internal_error"))
    BY <1>13 DEF Commit, CommitUnacknowledged
  <2> QED BY <2>1, <2>2, <2>3, WriteType
<1>14. ASSUME NEW r \in Requests, Fail(r)
       PROVE  TypeOK' /\ PathsFit'
  BY <1>14, ProblemType DEF Fail, tables, TypeOK, Codes, Active, InTransaction
<1>15. ASSUME NEW r \in Requests, Respond(r)
       PROVE  TypeOK' /\ PathsFit'
  <2>1. req' \in [Requests -> Handler]
    BY <1>15 DEF Respond, Idle, TypeOK, Handler, History
  <2>2. /\ req'[r].phase = "idle"
        /\ \A s \in Requests \ {r} : req'[s] = req[s]
    BY <1>15 DEF Respond, Idle, TypeOK, Handler
  <2>3. Fits(r)'
    BY <2>2 DEF Fits, Creating, Changing, Active, InTransaction
  <2>4. \A s \in Requests \ {r} : Fits(s)'
    BY <1>15, <2>2, FitsFrame DEF Respond, tables, PathsFit
  <2> QED BY <1>15, <2>1, <2>3, <2>4 DEF Respond, tables, TypeOK, PathsFit
<1>16. ASSUME NEW v \in Venues, SyncMenu(v)
       PROVE  TypeOK' /\ PathsFit'
  <2>1. PathsFit'
    BY <1>16, FitsFrame DEF SyncMenu, PathsFit
  <2> QED BY <1>16, <2>1 DEF SyncMenu, TypeOK
<1>17. CASE UNCHANGED vars
  <2>1. PathsFit'
    BY <1>17, FitsFrame DEF vars, PathsFit
  <2> QED BY <1>17, <2>1 DEF vars, TypeOK
<1> QED
  BY <1>1, <1>2, <1>3, <1>4, <1>5, <1>6, <1>7, <1>8, <1>9, <1>10, <1>11,
     <1>12, <1>13, <1>14, <1>15, <1>16, <1>17
  DEF Next, Step, Create, Change

LEMMA TypeInit == Init => TypeOK /\ PathsFit
<1> SUFFICES ASSUME Init PROVE TypeOK /\ PathsFit
  OBVIOUS
<1>1. Idle \in Handler
  BY DEF Idle, Handler, History
<1>2. TypeOK
  BY <1>1 DEF Init, TypeOK
<1>3. PathsFit
  BY DEF Init, Idle, PathsFit, Fits, Creating, Changing, Active, InTransaction
<1> QED BY <1>2, <1>3

\* The tables and the handlers only ever hold what their types allow, for any
\* number of handlers and any set of well-formed commands.
THEOREM TypeCorrect == Spec => []TypeOK
<1>1. Init => TypeOK /\ PathsFit
  BY TypeInit
<1>2. TypeOK /\ PathsFit /\ [Next]_vars => TypeOK' /\ PathsFit'
  BY TypeStep
<1> QED BY <1>1, <1>2, PTL DEF Spec

-----------------------------------------------------------------------------
(* Histories as sequences. *)

\* A prefix agrees with the sequence wherever it is defined.
LEMMA PrefixMeans ==
  ASSUME NEW S, NEW b \in Seq(S), NEW h \in Seq(S)
  PROVE  IsPrefix(b, h) <=> /\ Len(b) <= Len(h)
                            /\ \A i \in 1 .. Len(b) : b[i] = h[i]
<1> Len(b) \in Nat /\ Len(h) \in Nat
  BY LenProperties
<1>1. SubSeq(b, 1, Len(b)) = b
  BY SubSeqFull
<1>2. ASSUME Len(b) <= Len(h)
      PROVE  /\ SubSeq(h, 1, Len(b)) \in Seq(S)
             /\ Len(SubSeq(h, 1, Len(b))) = Len(b)
             /\ \A i \in 1 .. Len(b) : SubSeq(h, 1, Len(b))[i] = h[i]
  <2>1. \A i \in 1 .. Len(b) : h[i] \in S
    BY <1>2, ElementOfSeq
  <2> QED BY <2>1, SubSeqProperties
<1> QED BY <1>1, <1>2, SeqEqual DEF IsPrefix

\* What a sequence grows by leaves its prefixes alone.
LEMMA PrefixOfAppend ==
  ASSUME NEW S, NEW b \in Seq(S), NEW h \in Seq(S), NEW e \in S,
         IsPrefix(b, h)
  PROVE  IsPrefix(b, Append(h, e))
<1>1. /\ Append(h, e) \in Seq(S) /\ Len(Append(h, e)) = Len(h) + 1
      /\ \A i \in 1 .. Len(h) : Append(h, e)[i] = h[i]
  BY AppendProperties
<1>2. Len(b) \in Nat /\ Len(h) \in Nat
  BY LenProperties
<1>3. Len(b) <= Len(h) /\ \A i \in 1 .. Len(b) : b[i] = h[i]
  BY PrefixMeans
<1>4. /\ Len(b) <= Len(Append(h, e))
      /\ \A i \in 1 .. Len(b) : b[i] = Append(h, e)[i]
  BY <1>1, <1>2, <1>3
<1> QED BY <1>1, <1>4, PrefixMeans

\* Where the rank grows along a history, a part that ends in the status of
\* the whole is the whole: comparing statuses compares histories.
LEMMA SameStatusSameHistory ==
  ASSUME NEW b \in History, NEW h \in History, b # <<>>,
         IsPrefix(b, h), Ascends(h), StatusOf(h) = StatusOf(b)
  PROVE  b = h
<1>1. /\ Len(b) \in Nat \ {0} /\ Len(h) \in Nat /\ Len(b) <= Len(h)
      /\ \A i \in 1 .. Len(b) : b[i] = h[i]
  BY EmptySeq, LenProperties, PrefixMeans DEF History
<1>2. Len(b) = Len(h)
  <2> SUFFICES ASSUME Len(b) < Len(h) PROVE FALSE
    BY <1>1
  <2>1. Rank(h[Len(b)].status) < Rank(h[Len(h)].status)
    BY <1>1 DEF Ascends
  <2>2. h[Len(b)].status = h[Len(h)].status
    BY <1>1 DEF StatusOf, Last
  <2>3. Rank(h[Len(h)].status) \in Nat
    BY DEF Rank
  <2> QED BY <2>1, <2>2, <2>3
<1> QED BY <1>1, <1>2, SeqEqual DEF History

\* Every legal move raises the rank.
LEMMA LegalMoveAscends ==
  \A a, b : LegalMove(a, b) => Rank(a) < Rank(b)
BY DEF LegalMove, Rank

\* The statuses of a history, one by one.
LEMMA StatusesType ==
  ASSUME NEW h \in History
  PROVE  /\ Statuses(h) \in Seq(Status)
         /\ Len(Statuses(h)) = Len(h)
         /\ \A i \in 1 .. Len(h) : Statuses(h)[i] = h[i].status
<1>1. Len(h) \in Nat /\ DOMAIN h = 1 .. Len(h)
  BY LenProperties DEF History
<1>2. \A i \in 1 .. Len(h) : h[i].status \in Status
  <2> TAKE i \in 1 .. Len(h)
  <2>1. h[i] \in StatusChange
    BY ElementOfSeq DEF History
  <2> QED BY <2>1 DEF StatusChange
<1>3. Statuses(h) \in [1 .. Len(h) -> Status]
  BY <1>1, <1>2 DEF Statuses
<1>4. Statuses(h) \in Seq(Status)
  BY <1>1, <1>3, SeqDef
<1>5. Len(Statuses(h)) = Len(h)
  BY <1>1, <1>3, <1>4, LenProperties
<1> QED BY <1>1, <1>4, <1>5 DEF Statuses

\* A legal move at the end of a legal history gives a legal history whose
\* rank grows.
LEMMA LegalAppend ==
  ASSUME NEW h \in History, NEW e \in StatusChange,
         LegalHistory(Statuses(h)), Ascends(h),
         MayFollow(Statuses(h), e.status)
  PROVE  LegalHistory(Statuses(Append(h, e))) /\ Ascends(Append(h, e))
<1> DEFINE g == Append(h, e)
           n == Len(h)
<1>1. /\ g \in History /\ n \in Nat /\ Len(g) = n + 1
      /\ \A i \in 1 .. n : g[i] = h[i]
      /\ g[n + 1] = e
  BY AppendProperties, LenProperties DEF History
<1>2. /\ Len(Statuses(g)) = n + 1 /\ Len(Statuses(h)) = n
      /\ \A i \in 1 .. n : Statuses(g)[i] = Statuses(h)[i]
      /\ Statuses(g)[n + 1] = e.status
      /\ \A i \in 1 .. n : Statuses(h)[i] = h[i].status
  <2>1. /\ Len(Statuses(h)) = n
        /\ \A i \in 1 .. n : Statuses(h)[i] = h[i].status
    BY StatusesType
  <2>2. /\ Len(Statuses(g)) = n + 1
        /\ \A i \in 1 .. n + 1 : Statuses(g)[i] = g[i].status
    BY <1>1, StatusesType
  <2> QED BY <1>1, <2>1, <2>2
<1>3. n = 0 => Statuses(h) = <<>>
  BY <1>2, StatusesType, EmptySeq
<1>4. n # 0 => LegalMove(Statuses(h)[n], e.status)
  BY <1>2, StatusesType DEF MayFollow, Last
<1> HIDE DEF g, n
<1>5. LegalHistory(Statuses(g))
  <2>1. Statuses(g)[1] = "pending_confirmation"
    <3>1. CASE n = 0
      BY <1>1, <1>2, <1>3, <3>1 DEF MayFollow
    <3>2. CASE n # 0
      BY <1>1, <1>2, <1>3, <3>2, StatusesType, EmptySeq DEF LegalHistory
    <3> QED BY <3>1, <3>2
  <2>2. ASSUME NEW i \in 1 .. n
        PROVE  LegalMove(Statuses(g)[i], Statuses(g)[i + 1])
    <3>1. CASE i = n
      BY <1>1, <1>2, <1>4, <3>1
    <3>2. CASE i # n
      BY <1>1, <1>2, <3>2 DEF LegalHistory
    <3> QED BY <3>1, <3>2
  <2> QED BY <1>1, <1>2, <2>1, <2>2 DEF LegalHistory
<1>6. Ascends(g)
  <2> SUFFICES ASSUME NEW i \in 1 .. n + 1, NEW j \in 1 .. n + 1, i < j
               PROVE  Rank(g[i].status) < Rank(g[j].status)
    BY <1>1 DEF Ascends
  <2>1. CASE j # n + 1
    BY <1>1, <2>1 DEF Ascends, n
  <2>2. CASE j = n + 1
    <3>1. Rank(g[n].status) < Rank(g[j].status)
      BY <1>1, <1>2, <1>4, <2>2, LegalMoveAscends
    <3>2. i # n => Rank(g[i].status) < Rank(g[n].status)
      BY <1>1, <2>2 DEF Ascends, n
    <3>3. Rank(g[i].status) \in Nat /\ Rank(g[n].status) \in Nat /\ Rank(g[j].status) \in Nat
      BY DEF Rank
    <3> QED BY <3>1, <3>2, <3>3
  <2> QED BY <2>1, <2>2
<1> QED BY <1>5, <1>6 DEF g

-----------------------------------------------------------------------------
(* The inductive invariant. *)

LEMMA InvInit == Init => GroundInv
<1> SUFFICES ASSUME Init PROVE GroundInv
  OBVIOUS
<1>1. TypeOK /\ PathsFit
  BY TypeInit
<1>2. \A r \in Requests : ~Creating(r) /\ ~Changing(r) /\ ~Holds(r)
  BY DEF Init, Idle, Creating, Changing, Holds
<1>3. \A o \in Orders : orders[o] = None
  BY DEF Init
<1>4. LegalHistories
  <2> SUFFICES ASSUME NEW o \in Orders PROVE LegalHistory(Statuses(<<>>))
    BY <1>3 DEF LegalHistories, HistoryOf
  <2>1. <<>> \in History /\ Len(<<>>) = 0
    BY EmptySeq DEF History
  <2>2. Statuses(<<>>) \in Seq(Status) /\ Len(Statuses(<<>>)) = 0
    BY <2>1, StatusesType
  <2>3. Statuses(<<>>) = <<>>
    BY <2>2, EmptySeq
  <2> QED BY <2>2, <2>3 DEF LegalHistory
<1> QED BY <1>1, <1>2, <1>3, <1>4
        DEF GroundInv, NewOrdersAreNew, OneHolder, HistoriesAscend,
            ChangesAreGrounded

\* The part of the invariant that is not about types.
Footing == /\ NewOrdersAreNew /\ OneHolder /\ HistoriesAscend
           /\ ChangesAreGrounded /\ LegalHistories

\* While no row is written, only the handler that moves has to keep its
\* footing.
LEMMA QuietStep ==
  ASSUME GroundInv, NEW r \in Requests, orders' = orders,
         \A s \in Requests \ {r} : req'[s] = req[s],
         Creating(r)' =>
           /\ orders[req'[r].order] = None
           /\ \A s \in Requests \ {r} :
                Creating(s) => req[s].order # req'[r].order,
         Holds(r)' => \A s \in Requests \ {r} :
                        Holds(s) => req[s].order # req'[r].order,
         Changing(r)' => Grounded(r)'
  PROVE  Footing'
<1>1. ASSUME NEW s \in Requests \ {r}
      PROVE  /\ Creating(s)' <=> Creating(s)
             /\ Holds(s)' <=> Holds(s)
             /\ Changing(s)' <=> Changing(s)
             /\ Grounded(s)' <=> Grounded(s)
  <2>1. req'[s] = req[s]
    OBVIOUS
  <2> QED BY <2>1 DEF Creating, Holds, Changing, Grounded, IsCreate
<1>2. NewOrdersAreNew'
  BY <1>1 DEF GroundInv, NewOrdersAreNew
<1>3. OneHolder'
  BY <1>1 DEF GroundInv, OneHolder
<1>4. HistoriesAscend' /\ LegalHistories'
  BY DEF GroundInv, HistoriesAscend, LegalHistories, HistoryOf
<1>5. ChangesAreGrounded'
  BY <1>1 DEF GroundInv, ChangesAreGrounded
<1> QED BY <1>2, <1>3, <1>4, <1>5 DEF Footing

\* A handler with an answer, or with nothing to do, needs no footing.
LEMMA AnswerStep ==
  ASSUME GroundInv, NEW r \in Requests, orders' = orders, NEW reply,
         Answer(r, reply)
  PROVE  Footing'
<1>1. req'[r].phase = "done" /\ \A s \in Requests \ {r} : req'[s] = req[s]
  BY DEF Answer, Idle, GroundInv, TypeOK, Handler
<1>2. ~Creating(r)' /\ ~Changing(r)' /\ ~Holds(r)'
  BY <1>1 DEF Creating, Changing, Holds
<1> QED BY <1>1, <1>2, QuietStep

\* A create that goes on keeps its identifier.
LEMMA CreateGoesOn ==
  ASSUME GroundInv, NEW r \in Requests, orders' = orders, Creating(r),
         req'[r].order = req[r].order, req'[r].command = req[r].command,
         \A s \in Requests \ {r} : req'[s] = req[s]
  PROVE  Footing'
<1>1. IsCreate(r)' /\ ~Changing(r)' /\ ~Holds(r)'
  BY DEF Creating, IsCreate, Changing, Holds
<1>2. /\ orders[req[r].order] = None
      /\ \A s \in Requests \ {r} : Creating(s) => req[s].order # req[r].order
  BY DEF GroundInv, NewOrdersAreNew
<1> QED BY <1>1, <1>2, QuietStep

\* The change of status that a handler is about to write.
Move(r) == [status |-> Target(req[r].command), changedAt |-> req[r].at]

\* A handler that may write: what it is about to write follows from the whole
\* history of its order, which nobody else is about to change.
MayWrite(r) ==
  /\ Creating(r) \/ Changing(r)
  /\ ~IsCreate(r) =>
       /\ req[r].base = orders[req[r].order].history
       /\ \A s \in Requests \ {r} : Holds(s) => req[s].order # req[r].order

\* What is written of an order is its history and a legal move.
LEMMA DraftMoves ==
  ASSUME GroundInv, NEW r \in Requests, MayWrite(r),
         NEW h, h = HistoryOf(req[r].order)
  PROVE  /\ req[r].order \in Orders /\ req[r].command \in Commands
         /\ Row(r) \in OrderRow /\ Row(r).history = Draft(r)
         /\ h \in History /\ Move(r) \in StatusChange
         /\ req[r].base = h /\ Draft(r) = Append(h, Move(r))
         /\ MayFollow(Statuses(h), Target(req[r].command))
         /\ LegalHistory(Statuses(Draft(r))) /\ Ascends(Draft(r))
         /\ Draft(r) # <<>>
         /\ IsCreate(r) => Creating(r) /\ orders[req[r].order] = None
         /\ ~IsCreate(r) =>
              /\ Changing(r) /\ orders[req[r].order] \in OrderRow
              /\ orders[req[r].order] # None /\ h # <<>>
              /\ h = orders[req[r].order].history
<1> DEFINE o == req[r].order
<1> TypeOK /\ PathsFit
  BY DEF GroundInv
<1>1. /\ o \in Orders /\ Row(r) \in OrderRow /\ Row(r).history = Draft(r)
      /\ req[r].command \in Commands
  BY RowType DEF MayWrite, PathsFit, Fits, Creating, Changing
<1>2. IsCreate(r) =>
        /\ Creating(r) /\ req[r].base = <<>> /\ orders[o] = None /\ h = <<>>
  BY DEF MayWrite, Creating, Changing, PathsFit, Fits, Active, InTransaction,
         GroundInv, NewOrdersAreNew, HistoryOf
<1>3. ~IsCreate(r) =>
        /\ Changing(r) /\ orders[o] # None /\ orders[o] \in OrderRow
        /\ h = orders[o].history /\ h # <<>> /\ req[r].base = h
        /\ Permits(req[r].command, StatusOf(h))
  <2> SUFFICES ASSUME ~IsCreate(r)
               PROVE  /\ Changing(r) /\ orders[o] # None
                      /\ orders[o] \in OrderRow
                      /\ h = orders[o].history /\ h # <<>> /\ req[r].base = h
                      /\ Permits(req[r].command, StatusOf(h))
    OBVIOUS
  <2>1. Changing(r)
    BY DEF MayWrite, Creating
  <2>2. Grounded(r) /\ orders[o] # None
    BY <2>1 DEF GroundInv, ChangesAreGrounded, PathsFit, Fits
  <2>3. h = orders[o].history
    BY <2>2 DEF HistoryOf
  <2> QED BY <1>1, <2>1, <2>2, <2>3
          DEF MayWrite, Grounded, TypeOK, GroundInv, HistoriesAscend
<1>4. h \in History /\ Move(r) \in StatusChange
  <2>1. h \in History
    BY <1>2, <1>3, EmptySeq DEF History, OrderRow
  <2>2. Move(r) \in StatusChange
    BY <1>1, TargetType DEF Move, StatusChange, TypeOK, Handler
  <2> QED BY <2>1, <2>2
<1>5. req[r].base = h /\ Draft(r) = Append(h, Move(r))
  BY <1>2, <1>3 DEF Draft, Move
<1>6. Ascends(h) /\ LegalHistory(Statuses(h))
  <2>1. CASE IsCreate(r)
    BY <1>1, <1>2, <2>1, EmptySeq
    DEF GroundInv, LegalHistories, HistoryOf, Ascends
  <2>2. CASE ~IsCreate(r)
    BY <1>1, <1>3, <2>2
    DEF GroundInv, LegalHistories, HistoryOf, HistoriesAscend
  <2> QED BY <2>1, <2>2
<1>7. MayFollow(Statuses(h), Target(req[r].command))
  <2>1. CASE IsCreate(r)
    <3>1. Statuses(h) = <<>>
      BY <1>2, <1>4, <2>1, StatusesType, EmptySeq
    <3> QED BY <2>1, <3>1 DEF MayFollow, IsCreate, Target
  <2>2. CASE ~IsCreate(r)
    <3>1. Statuses(h) # <<>> /\ Last(Statuses(h)) = StatusOf(h)
      <4>1. Len(h) \in Nat \ {0}
        BY <1>3, <1>4, <2>2, EmptySeq DEF History
      <4>2. Len(Statuses(h)) = Len(h) /\ Statuses(h)[Len(h)] = h[Len(h)].status
        BY <1>4, <4>1, StatusesType
      <4>3. Statuses(h) # <<>>
        BY <4>1, <4>2, EmptySeq
      <4> QED BY <4>1, <4>2, <4>3 DEF Last, StatusOf
    <3>2. Permits(req[r].command, StatusOf(h))
      BY <1>3, <2>2
    <3>3. LegalMove(StatusOf(h), Target(req[r].command))
      BY <1>1, <2>2, <3>2, CommandsType
      DEF Permits, Target, IsCreate, LegalMove, Operations, CanCancelOrder,
          CanVenueAdvanceOrder
    <3> QED BY <3>1, <3>3 DEF MayFollow
  <2> QED BY <2>1, <2>2
<1>8. LegalHistory(Statuses(Draft(r))) /\ Ascends(Draft(r)) /\ Draft(r) # <<>>
  <2>1. Move(r).status = Target(req[r].command)
    BY DEF Move
  <2>2. /\ LegalHistory(Statuses(Append(h, Move(r))))
        /\ Ascends(Append(h, Move(r)))
    BY <1>4, <1>6, <1>7, <2>1, LegalAppend
  <2>3. Append(h, Move(r)) # <<>>
    BY <1>4, AppendProperties DEF History
  <2> QED BY <1>5, <2>2, <2>3
<1> QED BY <1>1, <1>2, <1>3, <1>4, <1>5, <1>7, <1>8

\* A handler that is about to commit may write.
LEMMA CommitMayWrite ==
  ASSUME GroundInv, NEW r \in Requests, req[r].phase = "commit"
  PROVE  MayWrite(r)
<1>1. CASE IsCreate(r)
  BY <1>1 DEF MayWrite, Creating
<1>2. CASE ~IsCreate(r)
  <2>1. Changing(r) /\ Holds(r)
    BY <1>2 DEF Changing, Holds
  <2>2. req[r].base = orders[req[r].order].history
    BY <2>1 DEF GroundInv, ChangesAreGrounded, Grounded
  <2>3. \A s \in Requests \ {r} : Holds(s) => req[s].order # req[r].order
    BY <2>1 DEF GroundInv, OneHolder
  <2> QED BY <2>1, <2>2, <2>3 DEF MayWrite
<1> QED BY <1>1, <1>2

\* What the write of a create or of a change leaves in the orders table.
LEMMA WriteFooting ==
  ASSUME GroundInv, NEW r \in Requests, MayWrite(r),
         orders' = [orders EXCEPT ![req[r].order] = Row(r)],
         req'[r].phase = "done",
         \A s \in Requests \ {r} : req'[s] = req[s]
  PROVE  Footing'
<1> DEFINE o == req[r].order
           h == HistoryOf(o)
<1> TypeOK /\ PathsFit
  BY DEF GroundInv
<1>1. /\ o \in Orders /\ Row(r) \in OrderRow /\ Row(r).history = Draft(r)
      /\ h \in History /\ Move(r) \in StatusChange
      /\ Draft(r) = Append(h, Move(r))
      /\ LegalHistory(Statuses(Draft(r))) /\ Ascends(Draft(r))
      /\ Draft(r) # <<>>
      /\ IsCreate(r) => Creating(r) /\ orders[o] = None
      /\ ~IsCreate(r) => orders[o] # None /\ h = orders[o].history
  BY DraftMoves
<1> HIDE DEF h
<1>2. /\ orders'[o] = Row(r) /\ orders'[o] # None
      /\ \A p \in Orders \ {o} : orders'[p] = orders[p]
  BY <1>1, NoneIsAbsent DEF TypeOK
<1>3. HistoriesAscend' /\ LegalHistories'
  <2>1. orders'[o] # None /\ orders'[o].history = Draft(r)
    BY <1>1, <1>2
  <2>2. /\ Draft(r) # <<>> /\ Ascends(Draft(r))
        /\ LegalHistory(Statuses(Draft(r)))
    BY <1>1
  <2>3. HistoriesAscend'
    BY <1>2, <2>1, <2>2 DEF HistoriesAscend, GroundInv
  <2>4. LegalHistories'
    BY <1>2, <2>1, <2>2 DEF LegalHistories, HistoryOf, GroundInv
  <2> QED BY <2>3, <2>4
<1>4. ~Creating(r)' /\ ~Changing(r)' /\ ~Holds(r)'
  BY DEF Creating, Changing, Holds
<1>5. ASSUME NEW s \in Requests \ {r}
      PROVE  /\ Creating(s)' <=> Creating(s)
             /\ Holds(s)' <=> Holds(s)
             /\ Changing(s)' <=> Changing(s)
  BY DEF Creating, Holds, Changing, IsCreate
<1>6. OneHolder'
  BY <1>4, <1>5 DEF GroundInv, OneHolder
<1>7. NewOrdersAreNew'
  <2> SUFFICES ASSUME NEW s \in Requests \ {r}, Creating(s)
               PROVE  req[s].order # o
    BY <1>2, <1>4, <1>5 DEF GroundInv, NewOrdersAreNew, PathsFit, Fits
  <2>1. CASE IsCreate(r)
    BY <1>1, <2>1 DEF GroundInv, NewOrdersAreNew
  <2>2. CASE ~IsCreate(r)
    BY <1>1, <2>2 DEF GroundInv, NewOrdersAreNew
  <2> QED BY <2>1, <2>2
<1>8. ChangesAreGrounded'
  <2> SUFFICES ASSUME NEW s \in Requests \ {r}, Changing(s)
               PROVE  Grounded(s)'
    BY <1>4, <1>5 DEF ChangesAreGrounded
  <2>1. /\ Grounded(s) /\ req'[s] = req[s] /\ req[s].order \in Orders
        /\ orders[req[s].order] # None
    BY DEF GroundInv, ChangesAreGrounded, PathsFit, Fits, Changing, Active,
           InTransaction
  <2>2. CASE req[s].order # o
    BY <1>2, <1>5, <2>1, <2>2 DEF Grounded, Holds, IsCreate
  <2>3. CASE req[s].order = o
    <3>1. ~IsCreate(r)
      BY <1>1, <2>1, <2>3
    <3>2. ~Holds(s)
      BY <2>3, <3>1 DEF MayWrite
    <3>3. req[s].base \in History
      BY DEF TypeOK, Handler
    <3>4. IsPrefix(req[s].base, Draft(r))
      <4>1. IsPrefix(req[s].base, h)
        BY <1>1, <2>1, <2>3, <3>1 DEF Grounded
      <4> QED BY <1>1, <3>3, <4>1, PrefixOfAppend DEF History
    <3>5. orders'[o].history = Draft(r)
      BY <1>1, <1>2
    <3>6. ~Holds(s)'
      BY <1>5, <3>2
    <3> QED BY <2>1, <2>3, <3>4, <3>5, <3>6 DEF Grounded
  <2> QED BY <2>2, <2>3
<1> QED BY <1>3, <1>6, <1>7, <1>8 DEF Footing

LEMMA StepFooting ==
  ASSUME GroundInv, [Next]_vars
  PROVE  Footing'
<1> TypeOK /\ PathsFit
  BY DEF GroundInv
<1>1. ASSUME NEW r \in Requests, NEW c \in Commands, Receive(r, c)
      PROVE  Footing'
  <2>1. req'[r].phase = "replay" /\ \A s \in Requests \ {r} : req'[s] = req[s]
    BY <1>1 DEF Receive, Idle, TypeOK, Handler
  <2>2. ~Creating(r)' /\ ~Changing(r)' /\ ~Holds(r)'
    BY <2>1 DEF Creating, Changing, Holds
  <2> QED BY <1>1, <2>1, <2>2, QuietStep DEF Receive, tables
<1>2. ASSUME NEW r \in Requests, ReplayCommand(r)
      PROVE  Footing'
  <2>1. CASE Recorded(r)
    BY <1>2, <2>1, AnswerStep DEF ReplayCommand, AnswerRecorded, tables
  <2>2. CASE ~Recorded(r)
    <3>1. /\ req'[r].phase \in {"prepare", "load"}
          /\ \A s \in Requests \ {r} : req'[s] = req[s]
      BY <1>2, <2>2 DEF ReplayCommand, Proceed, TypeOK, Handler
    <3>2. ~Creating(r)' /\ ~Changing(r)' /\ ~Holds(r)'
      BY <3>1 DEF Creating, Changing, Holds
    <3> QED BY <1>2, <3>1, <3>2, QuietStep DEF ReplayCommand, tables
  <2> QED BY <2>1, <2>2
<1>3. ASSUME NEW r \in Requests, RefuseOrder(r)
      PROVE  Footing'
  BY <1>3, AnswerStep DEF RefuseOrder, tables
<1>4. ASSUME NEW r \in Requests, PrepareOrder(r)
      PROVE  Footing'
  <2>1. CASE Answer(r, Problem("menu_version_mismatch"))
    BY <1>4, <2>1, AnswerStep DEF PrepareOrder, tables
  <2>2. ASSUME NEW o \in Orders, Fresh(o),
               req' = [req EXCEPT ![r].phase = "find", ![r].order = o,
                                  ![r].at = clock]
        PROVE  Footing'
    <3>1. /\ req'[r].phase = "find" /\ req'[r].order = o
          /\ \A s \in Requests \ {r} : req'[s] = req[s]
      BY <2>2 DEF TypeOK, Handler
    <3>2. ~Changing(r)' /\ ~Holds(r)'
      BY <3>1 DEF Changing, Holds
    <3>3. orders[o] = None /\ \A s \in Requests : req[s].order # o
      BY <2>2 DEF Fresh
    <3> QED BY <1>4, <3>1, <3>2, <3>3, QuietStep DEF PrepareOrder, tables
  <2> QED BY <1>4, <2>1, <2>2 DEF PrepareOrder
<1>5. ASSUME NEW r \in Requests, FindCommandTx(r) \/ LockMenuVersion(r)
      PROVE  Footing'
  <2>1. CASE AnswerRecorded(r) \/ Answer(r, Problem("menu_version_mismatch"))
    BY <1>5, <2>1, AnswerStep
    DEF FindCommandTx, LockMenuVersion, AnswerRecorded, tables
  <2>2. CASE Proceed(r, "version") \/ Proceed(r, "insert")
    <3>1. Creating(r)
      BY <1>5 DEF FindCommandTx, LockMenuVersion, PathsFit, Fits, Creating
    <3>2. /\ req'[r].order = req[r].order /\ req'[r].command = req[r].command
          /\ \A s \in Requests \ {r} : req'[s] = req[s]
      BY <2>2 DEF Proceed, TypeOK, Handler
    <3> QED BY <1>5, <3>1, <3>2, CreateGoesOn
            DEF FindCommandTx, LockMenuVersion, tables
  <2> QED BY <1>5, <2>1, <2>2 DEF FindCommandTx, LockMenuVersion
<1>6. ASSUME NEW r \in Requests, InsertOrder(r)
      PROVE  Footing'
  <2>1. CASE AnswerRecorded(r) \/ Answer(r, Problem("internal_error"))
    BY <1>6, <2>1, AnswerStep DEF InsertOrder, AnswerRecorded, tables
  <2>2. CASE req' = [req EXCEPT ![r].phase = "commit", ![r].seq = nextSeq]
    <3>1. Creating(r)
      BY <1>6 DEF InsertOrder, PathsFit, Fits, Creating
    <3>2. /\ req'[r].order = req[r].order /\ req'[r].command = req[r].command
          /\ \A s \in Requests \ {r} : req'[s] = req[s]
      BY <2>2 DEF TypeOK, Handler
    <3> QED BY <1>6, <3>1, <3>2, CreateGoesOn DEF InsertOrder, tables
  <2> QED BY <1>6, <2>1, <2>2 DEF InsertOrder
<1>7. ASSUME NEW r \in Requests,
             RefuseCommand(r) \/ CompareVenueOrderID(r) \/ Fail(r)
      PROVE  Footing'
  BY <1>7, AnswerStep DEF RefuseCommand, CompareVenueOrderID, Fail, tables
<1>8. ASSUME NEW r \in Requests, LoadAccepted(r)
      PROVE  Footing'
  <2>1. /\ req'[r].phase = "compare"
        /\ \A s \in Requests \ {r} : req'[s] = req[s]
    BY <1>8 DEF LoadAccepted, TypeOK, Handler
  <2>2. ~Creating(r)' /\ ~Changing(r)' /\ ~Holds(r)'
    BY <2>1 DEF Creating, Changing, Holds
  <2> QED BY <1>8, <2>1, <2>2, QuietStep DEF LoadAccepted, tables
<1>9. ASSUME NEW r \in Requests, LoadOrder(r)
      PROVE  Footing'
  <2> DEFINE o == req[r].order
             h == orders[o].history
  <2>1. ~IsCreate(r) /\ o \in Orders
    BY <1>9 DEF LoadOrder, PathsFit, Fits, Active
  <2>2. orders[o] # None /\ Permits(req[r].command, StatusOf(h))
    BY <1>9, Unrefused DEF LoadOrder, Visible
  <2>3. h \in History /\ h # <<>>
    BY <2>1, <2>2 DEF GroundInv, HistoriesAscend, TypeOK, OrderRow
  <2>4. IsPrefix(h, h)
    BY <2>3, PrefixMeans, LenProperties DEF History
  <2>5. /\ req'[r].phase = "lock" /\ req'[r].base = h /\ req'[r].order = o
        /\ req'[r].command = req[r].command /\ orders' = orders
        /\ \A s \in Requests \ {r} : req'[s] = req[s]
    BY <1>9 DEF LoadOrder, TypeOK, Handler, tables
  <2>6. ~Creating(r)' /\ ~Holds(r)'
    BY <2>5 DEF Creating, Holds
  <2>7. Grounded(r)'
    BY <2>2, <2>3, <2>4, <2>5, <2>6 DEF Grounded
  <2> QED BY <2>5, <2>6, <2>7, QuietStep
<1>10. ASSUME NEW r \in Requests, LockOrder(r)
       PROVE  Footing'
  <2>1. CASE AnswerRecorded(r) \/ Answer(r, Problem("invalid_order_transition"))
    BY <1>10, <2>1, AnswerStep DEF LockOrder, AnswerRecorded, tables
  <2>2. CASE AsExpected(r) /\ Proceed(r, "update")
    <3> DEFINE o == req[r].order
               h == orders[o].history
    <3>1. /\ Changing(r) /\ Grounded(r) /\ o \in Orders /\ orders[o] # None
          /\ ~IsCreate(r)
      BY <1>10 DEF LockOrder, PathsFit, Fits, Changing, Active, GroundInv,
                   ChangesAreGrounded
    <3>2. h \in History /\ Ascends(h) /\ req[r].base \in History
      BY <3>1 DEF GroundInv, HistoriesAscend, TypeOK, OrderRow, Handler
    <3>3. req[r].base = h
      BY <2>2, <3>1, <3>2, SameStatusSameHistory DEF AsExpected, Grounded
    <3>4. /\ req'[r].phase = "update" /\ req'[r].base = req[r].base
          /\ req'[r].order = o /\ req'[r].command = req[r].command
          /\ orders' = orders
          /\ \A s \in Requests \ {r} : req'[s] = req[s]
      BY <1>10, <2>2 DEF LockOrder, Proceed, TypeOK, Handler, tables
    <3>5. ~Creating(r)'
      BY <3>1, <3>4 DEF Creating, IsCreate
    <3>6. \A s \in Requests \ {r} : Holds(s) => req[s].order # o
      BY <1>10 DEF LockOrder, LocksOrder, Holds
    <3>7. Grounded(r)'
      BY <3>1, <3>3, <3>4 DEF Grounded
    <3> QED BY <3>4, <3>5, <3>6, <3>7, QuietStep
  <2> QED BY <1>10, <2>1, <2>2 DEF LockOrder
<1>11. ASSUME NEW r \in Requests, UpdateOrder(r)
       PROVE  Footing'
  <2>1. CASE Answer(r, Problem("internal_error"))
    BY <1>11, <2>1, AnswerStep DEF UpdateOrder, tables
  <2>2. CASE req' = [req EXCEPT ![r].phase = "commit", ![r].seq = nextSeq]
    <3>1. Holds(r) /\ Changing(r) /\ Grounded(r) /\ ~IsCreate(r)
      BY <1>11 DEF UpdateOrder, PathsFit, Fits, Changing, Holds, GroundInv,
                   ChangesAreGrounded
    <3>2. /\ req'[r].phase = "commit" /\ req'[r].base = req[r].base
          /\ req'[r].order = req[r].order /\ req'[r].command = req[r].command
          /\ orders' = orders
          /\ \A s \in Requests \ {r} : req'[s] = req[s]
      BY <1>11, <2>2 DEF UpdateOrder, TypeOK, Handler, tables
    <3>3. ~Creating(r)'
      BY <3>1, <3>2 DEF Creating, IsCreate
    <3>4. \A s \in Requests \ {r} : Holds(s) => req[s].order # req[r].order
      BY <3>1 DEF GroundInv, OneHolder
    <3>5. Grounded(r)'
      BY <3>1, <3>2 DEF Grounded
    <3> QED BY <3>2, <3>3, <3>4, <3>5, QuietStep
  <2> QED BY <1>11, <2>1, <2>2 DEF UpdateOrder
<1>12. ASSUME NEW r \in Requests, Commit(r) \/ CommitUnacknowledged(r)
       PROVE  Footing'
  <2>1. \E reply : Answer(r, reply)
    BY <1>12 DEF Commit, CommitUnacknowledged
  <2>2. req'[r].phase = "done" /\ \A s \in Requests \ {r} : req'[s] = req[s]
    BY <2>1 DEF Answer, Idle, TypeOK, Handler
  <2> QED BY <1>12, <2>2, CommitMayWrite, WriteFooting
          DEF Commit, CommitUnacknowledged, Write
<1>13. ASSUME NEW r \in Requests, Respond(r)
       PROVE  Footing'
  <2>1. req'[r].phase = "idle" /\ \A s \in Requests \ {r} : req'[s] = req[s]
    BY <1>13 DEF Respond, Idle, TypeOK, Handler
  <2>2. ~Creating(r)' /\ ~Changing(r)' /\ ~Holds(r)'
    BY <2>1 DEF Creating, Changing, Holds
  <2> QED BY <1>13, <2>1, <2>2, QuietStep DEF Respond, tables
<1>14. ASSUME UNCHANGED <<orders, req>>
       PROVE  Footing'
  BY <1>14 DEF Footing, GroundInv, NewOrdersAreNew, OneHolder, HistoriesAscend,
               ChangesAreGrounded, LegalHistories, HistoryOf, Creating,
               Holds, Changing, Grounded, IsCreate
<1>15. ASSUME NEW v \in Venues, SyncMenu(v)
       PROVE  Footing'
  BY <1>14, <1>15 DEF SyncMenu
<1>16. CASE UNCHANGED vars
  BY <1>14, <1>16 DEF vars
<1> QED
  BY <1>1, <1>2, <1>3, <1>4, <1>5, <1>6, <1>7, <1>8, <1>9, <1>10, <1>11,
     <1>12, <1>13, <1>15, <1>16
  DEF Next, Step, Create, Change

\* What handlers rely on stays true: see OrderCommandsInvariant.
THEOREM GroundHolds == Spec => []GroundInv
<1>1. Init => GroundInv
  BY InvInit
<1>2. GroundInv /\ [Next]_vars => GroundInv'
  <2> SUFFICES ASSUME GroundInv, [Next]_vars PROVE GroundInv'
    OBVIOUS
  <2>1. TypeOK' /\ PathsFit'
    BY TypeStep DEF GroundInv
  <2>2. Footing'
    BY StepFooting
  <2> QED BY <2>1, <2>2 DEF GroundInv, Footing
<1> QED BY <1>1, <1>2, PTL DEF Spec

\* Every order goes through a path of the documented lifecycle, whatever
\* customers, kitchens and retries race for it, with any number of handlers.
THEOREM HistoriesAreLegal == Spec => []LegalHistories
<1>1. GroundInv => LegalHistories
  BY DEF GroundInv
<1> QED BY <1>1, GroundHolds, PTL
=============================================================================
