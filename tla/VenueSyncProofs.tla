--------------------------- MODULE VenueSyncProofs ---------------------------
(***************************************************************************)
(* Theorems about the venue's read model, for any number of orders and      *)
(* operators, any page size and any schedule of the two services: what the  *)
(* kitchen sees is real, no event is forgotten but those that were overtaken *)
(* before their commit, and the worker neither drops a change nor takes a   *)
(* cancelled request's word for the newest.                                 *)
(***************************************************************************)
EXTENDS VenueSyncRequirements, FiniteSetTheorems, SequenceTheorems,
        WellFoundedInduction, TLAPS

-----------------------------------------------------------------------------
(* What holds of the platform. *)

Event == [order : Orders, version : Nat, seq : Nat, at : Int]

PlatformType ==
  /\ history \in [Orders -> Seq(Status)]
  /\ DOMAIN answer = Orders \X Status
  /\ journal \in Seq(Event)
  /\ holds \in [Orders -> {None} \cup [status : Status, seq : Nat]]

\* The order went through a status.
Took(o, status) == \E n \in DOMAIN history[o] : history[o][n] = status

\* The journal has one event for each change, an order's in their order.
JournalFits ==
  /\ \A i \in Events :
       journal[i].version \in 1 .. Len(history[journal[i].order])
  /\ \A o \in Orders : \A n \in 1 .. Len(history[o]) :
       \E i \in Events : journal[i].order = o /\ journal[i].version = n
  /\ \A i, j \in Events :
       journal[i].order = journal[j].order /\ i < j =>
         journal[i].version < journal[j].version

\* No status comes back.
HistoriesAscend ==
  \A o \in Orders : \A i, j \in 1 .. Len(history[o]) :
    i < j => Rank(history[o][i]) < Rank(history[o][j])

AnswersAreTaken ==
  \A o \in Orders, status \in Status :
    answer[<<o, status>>] # None => Took(o, status)

PlatformInv ==
  /\ PlatformType /\ JournalFits /\ HistoriesAscend /\ AnswersAreTaken

\* What was once in the journal or in a history stays there.
PlatformLasts ==
  /\ Len(journal) <= Len(journal)'
  /\ \A i \in Events : journal'[i] = journal[i]
  /\ \A o \in Orders : /\ Len(history[o]) <= Len(history'[o])
                       /\ \A n \in 1 .. Len(history[o]) :
                            history'[o][n] = history[o][n]

\* The event of a change is where EventOf finds it.
LEMMA EventIsFound ==
  ASSUME PlatformInv, NEW i \in Events, NEW o, o = journal[i].order,
         NEW n, n = journal[i].version
  PROVE  EventOf(o, n) = journal[i]
<1>1. /\ DOMAIN journal = Events /\ Len(journal) \in Nat
      /\ \A j \in Events : journal[j] \in Event
  BY LenProperties, ElementOfSeq DEF PlatformInv, PlatformType, Events
<1>2. ASSUME NEW j \in Events, journal[j].order = o, journal[j].version = n
      PROVE  j = i
  <2>1. i \in Int /\ j \in Int /\ n \in Nat
    BY <1>1 DEF Events, Event
  <2>2. ~(i < j) /\ ~(j < i)
    BY <1>2, <2>1 DEF PlatformInv, JournalFits
  <2> QED BY <2>1, <2>2
<1>3. i = CHOOSE j \in DOMAIN journal :
            journal[j].order = o /\ journal[j].version = n
  BY <1>1, <1>2
<1> QED BY <1>3 DEF EventOf

\* The time of an order's last change.
LEMMA LastIsFound ==
  ASSUME PlatformInv, NEW o \in Orders, history[o] # <<>>
  PROVE  \E i \in Events : /\ journal[i].order = o
                           /\ journal[i].version = Len(history[o])
                           /\ LastAt(o) = journal[i].at
<1> DEFINE n == Len(history[o])
<1>1. n \in 1 .. Len(history[o])
  BY EmptySeq, LenProperties DEF PlatformInv, PlatformType
<1>2. PICK i \in Events : journal[i].order = o /\ journal[i].version = n
  BY <1>1 DEF PlatformInv, JournalFits
<1>3. EventOf(o, n) = journal[i]
  BY <1>2, EventIsFound
<1> QED BY <1>2, <1>3 DEF LastAt

\* A change of an order: one legal move, its answer and its event.
Moves(o, status, new) ==
  /\ new.order = o /\ new.version = Len(history[o]) + 1
  /\ holds[o] # None /\ new.seq = holds[o].seq
  /\ holds' = [holds EXCEPT ![o] = None]
  /\ MaxSlips = 0 => new.at = LastAt(o) + 1
  /\ MayFollow(history[o], status)
  /\ history' = [history EXCEPT ![o] = Append(history[o], status)]
  /\ answer' = [answer EXCEPT ![<<o, status>>] =
                                <<o, Append(history[o], status)>>]
  /\ journal' = Append(journal, new)

LEMMA CommitMeans ==
  ASSUME PlatformInv, NEW o \in Orders, Commit(o)
  PROVE  \E status \in Status, new \in Event : Moves(o, status, new)
<1>1. /\ history \in [Orders -> Seq(Status)] /\ journal \in Seq(Event)
      /\ history[o] \in Seq(Status)
  BY DEF PlatformInv, PlatformType
<1>0. PICK status \in Status, seq \in Nat :
        holds[o] # None /\ holds[o].status = status /\ holds[o].seq = seq
  BY DEF Commit, PlatformInv, PlatformType
<1>2. /\ MayFollow(history[o], status)
      /\ history' = [history EXCEPT ![o] = Append(history[o], status)]
      /\ answer' = [answer EXCEPT ![<<o, status>>] =
                                    <<o, Append(history[o], status)>>]
  BY <1>0 DEF Commit, Platform!Execute, Platform!MayFollow, MayFollow,
         Platform!LegalMove, LegalMove, Platform!Last, Last
<1>3. Len(history'[o]) = Len(history[o]) + 1 /\ Len(history[o]) \in Nat
  BY <1>1, <1>2, AppendProperties, LenProperties
<1>4. PICK tick \in IF history[o] # <<>> /\ Slips < MaxSlips
                    THEN -1 .. 1 ELSE {1} :
        journal' = Append(journal, [order |-> o, version |-> Len(history'[o]),
                                    seq |-> holds[o].seq, at |-> LastAt(o) + tick])
  BY DEF Commit
<1>5. tick \in Int
  BY <1>4
<1>6. MaxSlips = 0 => tick = 1
  <2>1. Slips \in Nat
    <3> DEFINE S == {i \in DOMAIN journal : \E j \in 1 .. i - 1 :
                       /\ journal[j].order = journal[i].order
                       /\ journal[j].version + 1 = journal[i].version
                       /\ journal[j].at >= journal[i].at}
    <3>1. /\ DOMAIN journal = 1 .. Len(journal) /\ Len(journal) \in Nat
          /\ S \subseteq DOMAIN journal
      BY <1>1, LenProperties
    <3> HIDE DEF S
    <3>2. IsFiniteSet(1 .. Len(journal))
      BY <3>1, FS_Interval
    <3>3. IsFiniteSet(S)
      BY <3>1, <3>2, FS_Subset
    <3>4. Cardinality(S) \in Nat
      BY <3>3, FS_CardinalityType
    <3> QED BY <3>4 DEF Slips, S
  <2> QED BY <1>4, <2>1
<1>7. LastAt(o) \in Int
  <2>1. CASE history[o] = <<>>
    BY <2>1 DEF LastAt
  <2>2. CASE history[o] # <<>>
    <3>1. PICK i \in Events : LastAt(o) = journal[i].at
      BY <2>2, LastIsFound
    <3>2. journal[i] \in Event
      BY <1>1, ElementOfSeq DEF Events
    <3> QED BY <3>1, <3>2 DEF Event
  <2> QED BY <2>1, <2>2
<1> DEFINE new == [order |-> o, version |-> Len(history[o]) + 1,
                   seq |-> seq, at |-> LastAt(o) + tick]
<1>8. new \in Event /\ journal' = Append(journal, new)
  BY <1>0, <1>3, <1>4, <1>5, <1>7 DEF Event
<1>9. holds' = [holds EXCEPT ![o] = None]
  BY DEF Commit
<1>10. Moves(o, status, new)
  BY <1>0, <1>2, <1>6, <1>8, <1>9 DEF Moves
<1> QED BY <1>8, <1>10

LEMMA LegalMovesAscend ==
  ASSUME NEW s \in Status, NEW t \in Status, LegalMove(s, t)
  PROVE  Rank(s) < Rank(t)
BY DEF LegalMove, Rank, Status

\* The platform's part of a step: a transaction begins or is rolled back, or
\* commits the change of its order.
Advance ==
  \/ /\ UNCHANGED <<history, answer, journal>>
     /\ holds' \in [Orders -> {None} \cup [status : Status, seq : Nat]]
  \/ \E o \in Orders, status \in Status, new \in Event : Moves(o, status, new)

LEMMA AdvanceLasts ==
  ASSUME PlatformInv, Advance
  PROVE  PlatformInv' /\ PlatformLasts
<1>1. /\ history \in [Orders -> Seq(Status)] /\ journal \in Seq(Event)
      /\ DOMAIN answer = Orders \X Status
      /\ Len(journal) \in Nat
      /\ \A i \in Events : journal[i] \in Event
      /\ \A o \in Orders : history[o] \in Seq(Status) /\ Len(history[o]) \in Nat
  BY LenProperties, ElementOfSeq DEF PlatformInv, PlatformType, Events
<1>2. CASE /\ UNCHANGED <<history, answer, journal>>
           /\ holds' \in [Orders -> {None} \cup [status : Status, seq : Nat]]
  <2>1. history' = history /\ answer' = answer /\ journal' = journal
    BY <1>2
  <2>2. PlatformType'
    BY <1>2, <2>1 DEF PlatformInv, PlatformType
  <2>3. JournalFits'
    BY <2>1 DEF PlatformInv, JournalFits, Events
  <2>4. HistoriesAscend' /\ AnswersAreTaken'
    BY <2>1 DEF PlatformInv, HistoriesAscend, AnswersAreTaken, Took
  <2>5. PlatformLasts
    BY <1>1, <2>1 DEF PlatformLasts
  <2> QED BY <2>2, <2>3, <2>4, <2>5 DEF PlatformInv
<1>3. ASSUME NEW o \in Orders, NEW status \in Status, NEW new \in Event,
             Moves(o, status, new)
      PROVE  PlatformInv' /\ PlatformLasts
  <2> DEFINE m == Len(journal)
             k == Len(history[o])
  <2>1. /\ journal' \in Seq(Event) /\ Len(journal') = m + 1
        /\ \A i \in 1 .. m : journal'[i] = journal[i]
        /\ journal'[m + 1] = new
    BY <1>1, <1>3, AppendProperties DEF Moves
  <2>2. /\ history' \in [Orders -> Seq(Status)]
        /\ \A o2 \in Orders \ {o} : history'[o2] = history[o2]
        /\ history'[o] = Append(history[o], status)
    BY <1>1, <1>3, AppendProperties DEF Moves
  <2>3. /\ Len(history'[o]) = k + 1
        /\ \A n \in 1 .. k : history'[o][n] = history[o][n]
        /\ history'[o][k + 1] = status
    BY <1>1, <2>2, AppendProperties
  <2>4. new.order = o /\ new.version = k + 1
    BY <1>3 DEF Moves
  <2>5. /\ Events = 1 .. m /\ Events' = Events \cup {m + 1}
        /\ m + 1 \notin Events /\ m \in Nat /\ k \in Nat
    BY <1>1, <2>1 DEF Events
  <2> HIDE DEF m, k
  <2>6. PlatformLasts
    <3>1. Len(journal) <= Len(journal)'
      BY <2>1, <2>5 DEF m
    <3>2. \A i \in Events : journal'[i] = journal[i]
      BY <2>1, <2>5
    <3>3. ASSUME NEW o2 \in Orders
          PROVE  /\ Len(history[o2]) <= Len(history'[o2])
                 /\ \A n \in 1 .. Len(history[o2]) :
                      history'[o2][n] = history[o2][n]
      <4>1. CASE o2 = o
        BY <4>1, <2>3, <2>5 DEF k
      <4>2. CASE o2 # o
        <5>1. history'[o2] = history[o2] /\ Len(history[o2]) \in Nat
          BY <4>2, <2>2, <1>1
        <5> QED BY <5>1
      <4> QED BY <4>1, <4>2
    <3> QED BY <3>1, <3>2, <3>3 DEF PlatformLasts
  <2>7. JournalFits'
    <3>1. ASSUME NEW i \in Events'
          PROVE  journal'[i].version \in 1 .. Len(history'[journal'[i].order])
      <4>1. CASE i \in Events
        <5>1. /\ journal'[i] = journal[i] /\ journal[i].order \in Orders
              /\ journal[i].version \in 1 .. Len(history[journal[i].order])
          BY <4>1, <2>6, <1>1 DEF PlatformLasts, PlatformInv, JournalFits, Event
        <5>2. PICK o2 \in Orders : o2 = journal[i].order
          BY <5>1
        <5>3. /\ Len(history[o2]) <= Len(history'[o2]) /\ Len(history[o2]) \in Nat
              /\ Len(history'[o2]) \in Nat
          BY <2>6, <1>1, <2>2, LenProperties DEF PlatformLasts
        <5> QED BY <5>1, <5>2, <5>3
      <4>2. CASE i = m + 1
        BY <4>2, <2>1, <2>3, <2>4, <2>5
      <4> QED BY <4>1, <4>2, <2>5
    <3>2. ASSUME NEW o2 \in Orders, NEW n \in 1 .. Len(history'[o2])
          PROVE  \E i \in Events' : journal'[i].order = o2 /\ journal'[i].version = n
      <4>1. CASE n \in 1 .. Len(history[o2])
        <5>1. PICK i \in Events : journal[i].order = o2 /\ journal[i].version = n
          BY <4>1 DEF PlatformInv, JournalFits
        <5> QED BY <5>1, <2>5, <2>6 DEF PlatformLasts
      <4>2. CASE n \notin 1 .. Len(history[o2])
        <5>1. o2 = o
          BY <4>2, <2>2
        <5>2. n = k + 1
          BY <5>1, <4>2, <2>3, <2>5 DEF k
        <5> QED BY <5>1, <5>2, <2>1, <2>4, <2>5
      <4> QED BY <4>1, <4>2
    <3>3. ASSUME NEW i \in Events', NEW j \in Events',
                 journal'[i].order = journal'[j].order, i < j
          PROVE  journal'[i].version < journal'[j].version
      <4>1. i \in Events
        BY <3>3, <2>5
      <4>2. journal'[i] = journal[i]
        BY <4>1, <2>6 DEF PlatformLasts
      <4>3. CASE j \in Events
        <5>1. journal'[j] = journal[j]
          BY <4>3, <2>6 DEF PlatformLasts
        <5> QED BY <3>3, <4>1, <4>2, <4>3, <5>1 DEF PlatformInv, JournalFits
      <4>4. CASE j = m + 1
        <5>1. journal'[j] = new
          BY <4>4, <2>1
        <5>2. journal[i].order = o
          BY <5>1, <3>3, <4>2, <2>4
        <5>3. journal[i].version \in 1 .. k
          BY <5>2, <4>1 DEF PlatformInv, JournalFits, k
        <5> QED BY <5>1, <5>3, <4>2, <2>4, <2>5
      <4> QED BY <4>3, <4>4, <2>5
    <3> QED BY <3>1, <3>2, <3>3 DEF JournalFits
  <2>8. HistoriesAscend'
    <3> SUFFICES ASSUME NEW o2 \in Orders, NEW i \in 1 .. Len(history'[o2]),
                        NEW j \in 1 .. Len(history'[o2]), i < j
                 PROVE  Rank(history'[o2][i]) < Rank(history'[o2][j])
      BY DEF HistoriesAscend
    <3>1. CASE j \in 1 .. Len(history[o2])
      <4>1. i \in 1 .. Len(history[o2])
        BY <3>1
      <4>2. Rank(history[o2][i]) < Rank(history[o2][j])
        BY <3>1, <4>1 DEF PlatformInv, HistoriesAscend
      <4>3. history'[o2][i] = history[o2][i] /\ history'[o2][j] = history[o2][j]
        BY <3>1, <4>1, <2>6 DEF PlatformLasts
      <4> QED BY <4>2, <4>3
    <3>2. CASE j \notin 1 .. Len(history[o2])
      <4>1. o2 = o
        BY <3>2, <2>2
      <4>2. j = k + 1 /\ i \in 1 .. k
        BY <4>1, <3>2, <2>3, <2>5 DEF k
      <4>3. history'[o2][j] = status /\ history'[o2][i] = history[o][i]
        BY <4>1, <4>2, <2>3
      <4>4. history[o] # <<>>
        <5>1. Len(<<>>) = 0 /\ k # 0
          BY <4>2, <2>5, EmptySeq
        <5> QED BY <5>1 DEF k
      <4>5. LegalMove(Last(history[o]), status)
        BY <1>3, <4>4 DEF Moves, MayFollow
      <4>6. /\ Last(history[o]) = history[o][k] /\ k \in 1 .. k
            /\ history[o][i] \in Status /\ history[o][k] \in Status
        BY <4>2, <2>5, <1>1, ElementOfSeq DEF Last, k
      <4>7. Rank(history[o][k]) < Rank(status)
        BY <4>5, <4>6, LegalMovesAscend
      <4>8. i = k \/ Rank(history[o][i]) < Rank(history[o][k])
        BY <4>2, <4>6, <2>5 DEF PlatformInv, HistoriesAscend, k
      <4>9. /\ Rank(history[o][i]) \in Int /\ Rank(history[o][k]) \in Int
            /\ Rank(status) \in Int
        BY DEF Rank
      <4> QED BY <4>1, <4>2, <4>3, <4>7, <4>8, <4>9
    <3> QED BY <3>1, <3>2
  <2>9. AnswersAreTaken'
    <3> SUFFICES ASSUME NEW o2 \in Orders, NEW s \in Status,
                        answer'[<<o2, s>>] # None
                 PROVE  Took(o2, s)'
      BY DEF AnswersAreTaken
    <3>1. \A p \in Orders : /\ DOMAIN history[p] = 1 .. Len(history[p])
                             /\ DOMAIN history'[p] = 1 .. Len(history'[p])
      BY <1>1, <2>2, LenProperties
    <3>2. CASE o2 = o /\ s = status
      BY <3>1, <3>2, <2>3, <2>5 DEF Took
    <3>3. CASE ~(o2 = o /\ s = status)
      <4>1. <<o2, s>> # <<o, status>>
        BY <3>3
      <4>2. <<o2, s>> \in DOMAIN answer
        BY <1>1
      <4>3. answer'[<<o2, s>>] = answer[<<o2, s>>]
        BY <4>1, <4>2, <1>3 DEF Moves
      <4>4. PICK n \in DOMAIN history[o2] : history[o2][n] = s
        BY <4>3 DEF PlatformInv, AnswersAreTaken, Took
      <4>5. /\ n \in 1 .. Len(history[o2]) /\ Len(history[o2]) \in Nat
            /\ Len(history'[o2]) \in Nat
            /\ Len(history[o2]) <= Len(history'[o2])
            /\ history'[o2][n] = s
        BY <4>4, <3>1, <1>1, <2>2, <2>6, LenProperties DEF PlatformLasts
      <4>6. n \in DOMAIN history'[o2]
        BY <4>5, <3>1
      <4> QED BY <4>5, <4>6 DEF Took
    <3> QED BY <3>2, <3>3
  <2>10. PlatformType'
    BY <1>1, <1>3, <2>1, <2>2 DEF PlatformType, PlatformInv, Moves
  <2> QED BY <2>6, <2>7, <2>8, <2>9, <2>10 DEF PlatformInv
<1> QED BY <1>2, <1>3 DEF Advance

\* A status once taken stays taken.
LEMMA TakenLasts ==
  ASSUME PlatformInv, PlatformInv', PlatformLasts,
         NEW o \in Orders, NEW status, Took(o, status)
  PROVE  Took(o, status)'
<1>1. /\ history[o] \in Seq(Status) /\ history'[o] \in Seq(Status)
  BY DEF PlatformInv, PlatformType
<1>2. /\ DOMAIN history[o] = 1 .. Len(history[o]) /\ Len(history[o]) \in Nat
      /\ DOMAIN history'[o] = 1 .. Len(history'[o]) /\ Len(history'[o]) \in Nat
  BY <1>1, LenProperties
<1>3. PICK n \in DOMAIN history[o] : history[o][n] = status
  BY DEF Took
<1>4. n \in DOMAIN history'[o] /\ history'[o][n] = status
  BY <1>2, <1>3 DEF PlatformLasts
<1> QED BY <1>4 DEF Took

-----------------------------------------------------------------------------
(* What holds of the venue, whatever the constants are. *)

CatalogueType ==
  /\ product \in [Orders -> {None, "seed", "venue"}]
  /\ menu \in {"seed", "venue"}
  /\ mapped \subseteq {"seed", "venue"}
  /\ restarts \in 0 .. MaxRestarts

\* A number belongs to one event or one transaction, and the numbers of an
\* order's events are in the order of its changes.
NumbersFit ==
  /\ drawn \in 0 .. MaxEvents
  /\ \A i \in Events : journal[i].seq \in 1 .. drawn
  /\ \A i, j \in Events : journal[i].seq = journal[j].seq => i = j
  /\ \A i, j \in Events : journal[i].order = journal[j].order /\ i < j =>
       journal[i].seq < journal[j].seq
  /\ \A o \in Orders : holds[o] # None =>
       /\ holds[o].seq \in 1 .. drawn
       /\ \A i \in Events : /\ journal[i].seq # holds[o].seq
                            /\ journal[i].order = o => journal[i].seq < holds[o].seq
       /\ \A q \in Orders \ {o} : holds[q] # None => holds[q].seq # holds[o].seq

SyncType ==
  /\ cursor \in 0 .. drawn
  /\ pending \subseteq Events /\ processed \subseteq Events /\ passed \subseteq Events
  /\ worker \in [phase : {"idle", "retry", "page"}, todo : SUBSET Events,
                 saving : {0} \cup Events, next : 0 .. drawn]

KitchenType ==
  /\ late \subseteq Orders \X Status
  /\ local \in [Orders -> {None} \cup [status : Status, at : Int]]
  /\ op \in [Operators ->
       [phase : {"idle", "call", "save"}, order : Orders \cup {None},
        at : Int, status : Status \cup {None}]]

\* The worker's lists: what it is about to handle is waiting or on its page,
\* and every event up to the end of the page is in one of them or was passed,
\* which happens only to events that were overtaken.
Behind(n) == {i \in Events : journal[i].seq <= n}
Handled == processed \cup pending \cup worker.todo
ReachedAnEvent == Reached # 0 => \E j \in Handled : journal[j].seq = Reached
WorkerFits ==
  /\ worker.phase = "idle" => worker.todo = {} /\ worker.saving = 0
  /\ worker.saving # 0 => worker.saving \in worker.todo
  /\ worker.phase = "retry" => worker.todo \subseteq pending
  /\ worker.phase = "page" => /\ cursor <= worker.next
                             /\ worker.todo \subseteq Unread
  /\ Handled \cup passed = Behind(Reached) /\ Handled \cap passed = {}
  /\ ReachedAnEvent
  /\ \A i \in passed : Overtaken(i)

\* A request names an order and a status, which the order has had once the
\* platform confirmed it.
RequestFits(p) ==
  op[p].phase # "idle" =>
    /\ op[p].order \in Orders /\ op[p].status \in Status
    /\ op[p].phase = "save" => Took(op[p].order, op[p].status)
RequestsFit == \A p \in Operators : RequestFits(p)

SyncInv == SyncType /\ WorkerFits
KitchenInv == KitchenType /\ RequestsFit /\ KitchenStatusIsReal

\* The orders of the events that are done are in the kitchen.
DoneIsThere == \A i \in processed : local[journal[i].order] # None

VenueInv == /\ PlatformInv /\ NumbersFit /\ CatalogueType /\ SyncInv /\ KitchenInv
            /\ DoneIsThere

-----------------------------------------------------------------------------
(* What holds in addition where the clock does not slip. *)

TimesAreVersions == \A i \in Events : journal[i].at = journal[i].version

\* A time of an order that the venue has handled an event of.
Reflects(o, t) ==
  \E i \in processed : journal[i].order = o /\ t <= journal[i].at

KitchenIsBehind ==
  /\ \A o \in Orders : local[o] # None => Reflects(o, local[o].at)
  /\ \A p \in Operators :
       op[p].phase # "idle" => Reflects(op[p].order, op[p].at)

\* A request that started from the order's last change is still to be
\* confirmed, and can be: so its copy is older once it is.
OutdatedOrOpen(p) ==
  /\ op[p].phase # "idle"
  /\ op[p].at = Len(history[op[p].order])
  => /\ op[p].phase = "call"
     /\ CanChangeOrderStatus(Last(history[op[p].order]), op[p].status)
RequestsAreOutdated == \A p \in Operators : OutdatedOrOpen(p)

\* The events of one order are done in their order.
Untranslated(i) == product[journal[i].order] \notin mapped
DoneBefore(e) ==
  \A j \in Events : journal[j].order = journal[e].order /\ j < e
                     => j \in processed \cup passed
DoneInOrder ==
  /\ \A i \in processed : DoneBefore(i)
  /\ processed \cap pending = {} /\ processed \cap worker.todo = {}
  /\ worker.phase # "idle" => \A i \in pending \ worker.todo : Untranslated(i)
  /\ worker.saving # 0 => DoneBefore(worker.saving)

SteadyInv ==
  /\ TimesAreVersions /\ KitchenIsBehind /\ RequestsAreOutdated
  /\ DoneInOrder /\ NewestStampIsTrue

-----------------------------------------------------------------------------
(* What holds in addition where no reply reaches an operator. *)

Unsaved == \A p \in Operators : op[p].phase # "save"
KitchenShowsEvents ==
  /\ \A o \in Orders : local[o] # None =>
       \E i \in processed : journal[i].order = o /\ local[o] = Snapshot(journal[i])
  /\ \A i \in processed : /\ local[journal[i].order] # None
                           /\ journal[i].at <= local[journal[i].order].at
SavingIsNews == worker.saving # 0 => Newer(journal[worker.saving])
WorkerAlone == Unsaved /\ KitchenShowsEvents /\ SavingIsNews

-----------------------------------------------------------------------------
(* The steps. *)

\* What the platform does with the customers' commands and with transactions
\* does not touch the venue.
PlatformActs(o) == PlaceOrder(o) \/ CancelOrder(o) \/ Commit(o) \/ RollBack(o)

LEMMA PlatformAlone ==
  ASSUME NEW o \in Orders, PlatformActs(o)
  PROVE  /\ UNCHANGED <<menu, late, mapped, local, cursor, pending, processed>>
         /\ UNCHANGED <<worker, op, restarts>>
         /\ Commit(o) \/ (passed' = passed /\ product' = product)
BY DEF PlatformActs, PlaceOrder, CancelOrder, Commit, RollBack, Begin, readModel

\* What a request does leaves the events alone.
Requests(p) ==
  \/ Arrive(p) \/ Confirmed(p) \/ NotConfirmed(p) \/ SaveConfirmed(p)
  \/ \E o \in Orders, status \in Status : StartUpdate(p, o, status)

LEMMA RequestAlone ==
  ASSUME NEW p \in Operators, Requests(p)
  PROVE  /\ UNCHANGED <<journal, mapped, cursor, pending, processed, passed>>
         /\ UNCHANGED <<worker, restarts, product, menu>>
BY DEF Requests, Arrive, Confirmed, NotConfirmed, SaveConfirmed, StartUpdate, Begin,
       platform, readModel

LEMMA LateAlone ==
  ASSUME NEW o \in Orders, NEW status \in Status, LateCommand(o, status)
  PROVE  /\ UNCHANGED <<journal, mapped, local, cursor, pending, processed, passed>>
         /\ UNCHANGED <<worker, op, restarts, product, menu>>
BY DEF LateCommand, Begin, platform, readModel

\* What a step does to the transactions and the numbers: nothing, a transaction
\* begins or is rolled back, or it commits.
Begins(o, status) ==
  /\ holds[o] = None /\ drawn < MaxEvents /\ drawn' = drawn + 1
  /\ holds' = [holds EXCEPT ![o] = [status |-> status, seq |-> drawn + 1]]
  /\ UNCHANGED <<history, answer, journal>>
Ends(o) ==
  /\ holds' = [holds EXCEPT ![o] = None]
  /\ UNCHANGED <<history, answer, journal, drawn>>

LEMMA PlatformSteps ==
  ASSUME VenueInv, [Next]_vars
  PROVE  \/ UNCHANGED <<history, answer, journal, drawn, holds>>
         \/ \E o \in Orders, status \in Status : Begins(o, status)
         \/ \E o \in Orders : Ends(o)
         \/ \E o \in Orders : Commit(o)
<1> DEFINE Goal == \/ UNCHANGED <<history, answer, journal, drawn, holds>>
                   \/ \E o \in Orders, status \in Status : Begins(o, status)
                   \/ \E o \in Orders : Ends(o)
                   \/ \E o \in Orders : Commit(o)
<1>1. ASSUME NEW o \in Orders, NEW status \in Status, Begin(o, status)
      PROVE  Begins(o, status)
  BY <1>1 DEF Begin, Begins
<1>2. ASSUME NEW o \in Orders, PlatformActs(o)
      PROVE  Goal
  BY <1>1, <1>2 DEF PlatformActs, PlaceOrder, CancelOrder, RollBack, Ends, Status
<1>3. ASSUME NEW o \in Orders, NEW status \in Status, LateCommand(o, status)
      PROVE  Goal
  BY <1>1, <1>3 DEF LateCommand, platform
<1>4. ASSUME NEW p \in Operators, Requests(p)
      PROVE  Goal
  <2>1. CASE Arrive(p)
    <3>1. op[p].phase # "idle" /\ Begin(op[p].order, op[p].status)
      BY <2>1 DEF Arrive
    <3>2. op[p].order \in Orders /\ op[p].status \in Status
      BY <3>1 DEF VenueInv, KitchenInv, RequestsFit, RequestFits
    <3> QED BY <1>1, <3>1, <3>2
  <2>2. CASE ~Arrive(p)
    BY <1>4, <2>2 DEF Requests, Confirmed, NotConfirmed, SaveConfirmed, StartUpdate,
                      platform
  <2> QED BY <2>1, <2>2
<1>5. CASE Sync \/ Restart \/ UNCHANGED vars
  BY <1>5 DEF Sync, PushMenu, Pull, PullFails, SaveSnapshot, SaveCursor,
              ProcessEvent, Restart, vars, platform
<1> QED BY <1>2, <1>3, <1>4, <1>5 DEF Next, PlatformActs, Requests

\* What a step may do to the platform.
LEMMA Advances ==
  ASSUME VenueInv, [Next]_vars
  PROVE  Advance
<1>1. /\ PlatformInv /\ drawn + 1 \in Nat
      /\ holds \in [Orders -> {None} \cup [status : Status, seq : Nat]]
  BY DEF VenueInv, PlatformInv, PlatformType, NumbersFit
<1>2. CASE UNCHANGED <<history, answer, journal, drawn, holds>>
  BY <1>1, <1>2 DEF Advance
<1>3. ASSUME NEW o \in Orders, NEW status \in Status, Begins(o, status)
      PROVE  Advance
  BY <1>1, <1>3 DEF Begins, Advance
<1>4. ASSUME NEW o \in Orders, Ends(o)
      PROVE  Advance
  BY <1>1, <1>4 DEF Ends, Advance
<1>5. ASSUME NEW o \in Orders, Commit(o)
      PROVE  Advance
  BY <1>1, <1>5, CommitMeans DEF Advance
<1> QED BY <1>2, <1>3, <1>4, <1>5, PlatformSteps

\* Numbers are drawn under the lock of the order's row, each one once.
LEMMA NumbersStep ==
  ASSUME VenueInv, [Next]_vars
  PROVE  NumbersFit' /\ drawn' \in Nat /\ drawn \in Nat /\ drawn <= drawn'
<1>1. /\ PlatformInv /\ NumbersFit /\ drawn \in Nat /\ MaxEvents \in Nat
      /\ holds \in [Orders -> {None} \cup [status : Status, seq : Nat]]
  BY BoundsType DEF VenueInv, PlatformInv, PlatformType, NumbersFit
<1>2. CASE UNCHANGED <<history, answer, journal, drawn, holds>>
  BY <1>1, <1>2 DEF NumbersFit, Events
<1>3. ASSUME NEW o \in Orders, NEW status \in Status, Begins(o, status)
      PROVE  NumbersFit' /\ drawn' \in Nat /\ drawn <= drawn'
  <2> DEFINE new == [status |-> status, seq |-> drawn + 1]
  <2>1. /\ drawn' = drawn + 1 /\ drawn' \in 0 .. MaxEvents /\ journal' = journal
        /\ Events' = Events
        /\ holds'[o] = new /\ \A q \in Orders \ {o} : holds'[q] = holds[q]
    BY <1>1, <1>3 DEF Begins, Events
  <2>2. new.seq = drawn + 1
    OBVIOUS
  <2> HIDE DEF new
  <2>3. ASSUME NEW q \in Orders, holds'[q] # None
        PROVE  /\ holds'[q].seq \in 1 .. drawn'
               /\ \A i \in Events :
                    /\ journal[i].seq # holds'[q].seq
                    /\ journal[i].order = q => journal[i].seq < holds'[q].seq
               /\ \A r \in Orders \ {q} :
                    holds'[r] # None => holds'[r].seq # holds'[q].seq
    <3>1. CASE q = o
      BY <1>1, <2>1, <2>2, <3>1 DEF NumbersFit
    <3>2. CASE q # o
      BY <1>1, <2>1, <2>2, <2>3, <3>2 DEF NumbersFit
    <3> QED BY <3>1, <3>2
  <2>4. \A i \in Events : journal[i].seq \in 1 .. drawn'
    BY <1>1, <2>1 DEF NumbersFit
  <2> QED BY <1>1, <2>1, <2>3, <2>4 DEF NumbersFit
<1>4. ASSUME NEW o \in Orders, Ends(o)
      PROVE  NumbersFit' /\ drawn' \in Nat /\ drawn <= drawn'
  <2>1. /\ drawn' = drawn /\ journal' = journal /\ Events' = Events
        /\ holds'[o] = None /\ \A q \in Orders \ {o} : holds'[q] = holds[q]
    BY <1>1, <1>4 DEF Ends, Events
  <2> QED BY <1>1, <2>1 DEF NumbersFit
<1>5. ASSUME NEW o \in Orders, Commit(o)
      PROVE  NumbersFit' /\ drawn' \in Nat /\ drawn <= drawn'
  <2>1. PICK status \in Status, new \in Event : Moves(o, status, new)
    BY <1>1, <1>5, CommitMeans
  <2>2. journal \in Seq(Event) /\ Len(journal) \in Nat
    BY <1>1, LenProperties DEF PlatformInv, PlatformType
  <2>3. /\ drawn' = drawn
        /\ holds'[o] = None /\ \A q \in Orders \ {o} : holds'[q] = holds[q]
    BY <1>1, <1>5 DEF Commit
  <2> DEFINE m == Len(journal) + 1
  <2>4. /\ Events' = Events \cup {m} /\ m \notin Events
        /\ journal'[m] = new /\ \A i \in Events : journal'[i] = journal[i] /\ i < m
    BY <2>1, <2>2, AppendProperties DEF Moves, Events
  <2>5. /\ new.seq \in 1 .. drawn /\ new.order = o
        /\ \A i \in Events : /\ journal[i].seq # new.seq
                             /\ journal[i].order = o => journal[i].seq < new.seq
        /\ \A q \in Orders \ {o} : holds[q] # None => holds[q].seq # new.seq
    BY <1>1, <2>1 DEF Moves, NumbersFit
  <2>6. \A i \in Events : i \in Nat
    BY <2>2 DEF Events
  <2>7. m \in Nat
    BY <2>2
  <2> HIDE DEF m
  <2>8. \A i \in Events' : journal'[i].seq \in 1 .. drawn'
    BY <1>1, <2>3, <2>4, <2>5 DEF NumbersFit
  <2>9. \A i, j \in Events' : journal'[i].seq = journal'[j].seq => i = j
    BY <1>1, <2>4, <2>5 DEF NumbersFit
  <2>10. ASSUME NEW i \in Events', NEW j \in Events',
                journal'[i].order = journal'[j].order, i < j
         PROVE  journal'[i].seq < journal'[j].seq
    <3>1. i \in Events
      BY <2>4, <2>6, <2>7, <2>10
    <3>2. CASE j \in Events
      BY <1>1, <2>4, <2>10, <3>1, <3>2 DEF NumbersFit
    <3>3. CASE j = m
      BY <2>4, <2>5, <2>10, <3>1, <3>3
    <3> QED BY <2>4, <3>2, <3>3
  <2>11. ASSUME NEW q \in Orders, holds'[q] # None
         PROVE  /\ holds'[q].seq \in 1 .. drawn'
                /\ \A i \in Events' :
                     /\ journal'[i].seq # holds'[q].seq
                     /\ journal'[i].order = q => journal'[i].seq < holds'[q].seq
                /\ \A r \in Orders \ {q} :
                     holds'[r] # None => holds'[r].seq # holds'[q].seq
    <3>1. q # o /\ holds'[q] = holds[q]
      BY <2>3, <2>11
    <3> QED BY <1>1, <2>3, <2>4, <2>5, <2>11, <3>1 DEF NumbersFit
  <2> QED BY <1>1, <2>3, <2>8, <2>9, <2>10, <2>11 DEF NumbersFit
<1> QED BY <1>1, <1>2, <1>3, <1>4, <1>5, PlatformSteps

LEMMA EventsGrow ==
  ASSUME PlatformInv, PlatformInv', PlatformLasts
  PROVE  /\ Len(journal) \in Nat /\ Len(journal') \in Nat
         /\ Len(journal) <= Len(journal')
         /\ Events \subseteq Events'
<1>1. Len(journal) \in Nat /\ Len(journal') \in Nat
  BY LenProperties DEF PlatformInv, PlatformType
<1> QED BY <1>1 DEF PlatformLasts, Events

LEMMA CatalogueStep ==
  ASSUME VenueInv, [Next]_vars
  PROVE  CatalogueType'
<1>1. CatalogueType
  BY DEF VenueInv
<1>2. ASSUME NEW o \in Orders, PlatformActs(o)
      PROVE  CatalogueType'
  <2>1. /\ UNCHANGED <<menu, mapped, restarts>>
        /\ product' \in {product, [product EXCEPT ![o] = menu]}
    BY <1>2, PlatformAlone DEF Commit
  <2> QED BY <1>1, <2>1 DEF CatalogueType
<1>3. ASSUME NEW o \in Orders, NEW status \in Status, LateCommand(o, status)
      PROVE  CatalogueType'
  BY <1>1, <1>3, LateAlone DEF CatalogueType
<1>4. ASSUME NEW p \in Operators, Requests(p)
      PROVE  CatalogueType'
  BY <1>1, <1>4, RequestAlone DEF CatalogueType
<1>6. CASE PushMenu
  BY <1>1, <1>6 DEF PushMenu, CatalogueType
<1>7. CASE Pull \/ PullFails \/ SaveSnapshot \/ SaveCursor
           \/ (\E e \in Upcoming : ProcessEvent(e))
  BY <1>1, <1>7 DEF Pull, PullFails, SaveSnapshot, SaveCursor, ProcessEvent,
                    platform, readModel, CatalogueType
<1>8. CASE Restart
  BY <1>1, <1>8, BoundsType DEF Restart, platform, CatalogueType
<1>9. CASE UNCHANGED vars
  BY <1>1, <1>9 DEF vars, platform, readModel, CatalogueType
<1> QED BY <1>2, <1>3, <1>4, <1>6, <1>7, <1>8, <1>9
        DEF Next, Sync, PlatformActs, Requests

-----------------------------------------------------------------------------
(* The worker's lists. *)

\* Max of the library finds the greatest number.
LEMMA GreatestNumber ==
  ASSUME NEW S \in SUBSET Nat, S # {}, NEW n \in Nat, \A x \in S : x <= n
  PROVE  Max(S) \in S /\ \A x \in S : x <= Max(S)
<1> DEFINE T == {n - x : x \in S}
           R == {ss \in Nat \X Nat : ss[1] < ss[2]}
<1>1. T \subseteq Nat /\ T # {}
  <2>1. ASSUME NEW x \in S PROVE n - x \in Nat
    OBVIOUS
  <2> QED BY <2>1
<1>2. IsWellFoundedOn(R, Nat)
  BY NatLessThanWellFounded DEF OpToRel
<1>3. \A i, j \in Nat : i < j => <<i, j>> \in R
  OBVIOUS
<1> HIDE DEF T, R
<1>4. PICK t \in T : \A u \in T : ~(<<u, t>> \in R)
  BY <1>1, <1>2, WFMin
<1>5. PICK m \in S : t = n - m
  BY <1>4 DEF T
<1>6. ASSUME NEW x \in S PROVE m >= x
  <2>1. n - x \in T /\ n - x \in Nat /\ t \in Nat
    BY <1>1 DEF T
  <2>2. ~(n - x < t)
    BY <1>3, <1>4, <2>1
  <2> QED BY <1>5, <2>1, <2>2
<1> QED BY <1>6 DEF Max

\* A page ends at its last number, before which no unread event is left out.
LastOfPage == Max({cursor} \cup {journal[i].seq : i \in Page})

LEMMA PageIsNext ==
  ASSUME PlatformInv, NumbersFit, SyncType
  PROVE  /\ LastOfPage \in 0 .. drawn /\ cursor <= LastOfPage
         /\ Page \subseteq Unread /\ Page \subseteq Events
         /\ Behind(LastOfPage) = Behind(cursor) \cup Page
         /\ LastOfPage = cursor \/ \E i \in Page : journal[i].seq = LastOfPage
<1>1. /\ drawn \in Nat /\ cursor \in Nat /\ cursor <= drawn /\ Len(journal) \in Nat
      /\ DOMAIN journal = Events
      /\ \A i \in Events : journal[i].seq \in Nat /\ journal[i].seq <= drawn
  BY LenProperties DEF PlatformInv, PlatformType, NumbersFit, SyncType, Events
<1>2. Page \subseteq Unread /\ Unread \subseteq Events
  BY <1>1 DEF Page, Unread
<1> DEFINE S == {cursor} \cup {journal[i].seq : i \in Page}
<1>3. S \in SUBSET Nat /\ S # {} /\ \A x \in S : x <= drawn
  BY <1>1, <1>2
<1>4. Max(S) \in S /\ \A x \in S : x <= Max(S)
  BY <1>1, <1>3, GreatestNumber
<1>5. LastOfPage = Max(S)
  BY DEF LastOfPage
<1> HIDE DEF S
<1>6. LastOfPage \in 0 .. drawn /\ cursor <= LastOfPage
  BY <1>1, <1>3, <1>4, <1>5 DEF S
<1>7. LastOfPage = cursor \/ \E i \in Page : journal[i].seq = LastOfPage
  BY <1>4, <1>5 DEF S
<1>8. \A i \in Page : journal[i].seq <= LastOfPage
  BY <1>4, <1>5 DEF S
<1>9. ASSUME NEW i \in Events, journal[i].seq <= LastOfPage, i \in Unread
      PROVE  i \in Page
  <2>1. PICK k \in Page : journal[k].seq = LastOfPage
    BY <1>1, <1>2, <1>6, <1>7, <1>9 DEF Unread
  <2> DEFINE Before(e) == {j \in Unread : journal[j].seq < journal[e].seq}
  <2>2. Before(i) \subseteq Before(k) /\ Before(k) \subseteq 1 .. Len(journal)
    <3>1. k \in Events /\ journal[i].seq <= journal[k].seq
      BY <1>2, <1>9, <2>1
    <3>2. ASSUME NEW j \in Unread, journal[j].seq < journal[i].seq
          PROVE  journal[j].seq < journal[k].seq
      <4>1. /\ journal[j].seq \in Nat /\ journal[i].seq \in Nat
            /\ journal[k].seq \in Nat
        BY <1>1, <1>2, <3>1
      <4> QED BY <3>1, <3>2, <4>1
    <3> QED BY <1>2, <3>2 DEF Events
  <2>3. IsFiniteSet(1 .. Len(journal))
    BY <1>1, FS_Interval
  <2>4. IsFiniteSet(Before(k))
    BY <2>2, <2>3, FS_Subset
  <2>5. Cardinality(Before(i)) <= Cardinality(Before(k)) /\ IsFiniteSet(Before(i))
    BY <2>2, <2>4, FS_Subset
  <2>6. Cardinality(Before(i)) \in Nat /\ Cardinality(Before(k)) \in Nat
    BY <2>4, <2>5, FS_CardinalityType
  <2>7. Cardinality(Before(k)) < PageLimit
    BY DEF Page
  <2>8. Cardinality(Before(i)) < PageLimit
    BY <2>5, <2>6, <2>7, PageLimitPositive
  <2> QED BY <1>9, <2>8 DEF Page
<1>10. Behind(LastOfPage) = Behind(cursor) \cup Page
  <2>1. \A i \in Events : i \in Unread <=> ~(journal[i].seq <= cursor)
    BY <1>1 DEF Unread
  <2> QED BY <1>1, <1>2, <1>6, <1>8, <1>9, <2>1 DEF Behind
<1> QED BY <1>2, <1>6, <1>7, <1>10

\* The worker handles what is on its list.
LEMMA UpcomingIsListed ==
  ASSUME SyncType, NEW e \in Upcoming
  PROVE  /\ e \in worker.todo /\ worker.todo \subseteq Events
         /\ worker.phase = "page" =>
              \A f \in worker.todo : journal[e].seq <= journal[f].seq
         /\ worker.phase # "page" =>
              \A f \in worker.todo : journal[e].at <= journal[f].at
BY DEF SyncType, Upcoming, NotAfter

\* What has been handled, and what overtook an event, stays so.
LEMMA ListsLast ==
  ASSUME Handled \subseteq Handled', \A i \in Handled : journal'[i] = journal[i]
  PROVE  /\ \A i : Overtaken(i) /\ journal'[i] = journal[i] => Overtaken(i)'
         /\ Reached' = Reached /\ ReachedAnEvent => ReachedAnEvent'
<1>1. ASSUME NEW i, Overtaken(i), journal'[i] = journal[i]
      PROVE  Overtaken(i)'
  <2>1. PICK j \in Handled : /\ j < i /\ journal[j].seq > journal[i].seq
                             /\ journal[j].order # journal[i].order
    BY <1>1 DEF Overtaken, Handled
  <2>2. j \in Handled' /\ journal'[j] = journal[j]
    BY <2>1
  <2> QED BY <1>1, <2>1, <2>2 DEF Overtaken, Handled
<1>2. Reached' = Reached /\ ReachedAnEvent => ReachedAnEvent'
  BY DEF ReachedAnEvent
<1> QED BY <1>1, <1>2

\* Settling and postponing an event of the list.
LEMMA HandledFits ==
  ASSUME SyncInv, NEW e \in worker.todo, Settle(e) \/ Postpone(e),
         worker.phase # "idle", worker.saving \in {0, e},
         UNCHANGED <<cursor, passed, journal, drawn>>
  PROVE  SyncInv'
<1>1. SyncType /\ WorkerFits
  BY DEF SyncInv
<1>2. worker' = [worker EXCEPT !.todo = @ \ {e}, !.saving = 0]
  BY DEF Settle, Postpone, Done
<1>3. /\ worker'.phase = worker.phase /\ worker'.todo = worker.todo \ {e}
      /\ worker'.saving = 0 /\ worker'.next = worker.next
  BY <1>1, <1>2 DEF SyncType
<1>4. /\ worker' \in [phase : {"idle", "retry", "page"}, todo : SUBSET Events,
                      saving : {0} \cup Events, next : 0 .. drawn]
  <2>1. /\ worker \in [phase : {"idle", "retry", "page"}, todo : SUBSET Events,
                       saving : {0} \cup Events, next : 0 .. drawn]
    BY <1>1 DEF SyncType
  <2>2. worker.todo \ {e} \in SUBSET Events
    BY <2>1
  <2> QED BY <1>2, <2>1, <2>2
<1>5. e \in Events
  BY <1>1 DEF SyncType
<1>6. /\ pending' \cup processed' = pending \cup processed \cup {e}
      /\ pending \ {e} \subseteq pending'
  BY DEF Settle, Postpone
<1>7. SyncType'
  BY <1>1, <1>4, <1>5, <1>6 DEF SyncType, Events
<1>8. Reached' = Reached /\ Handled' = Handled
  BY <1>3, <1>6 DEF Reached, Handled
<1>9. WorkerFits'
  <2>1. worker'.phase = "retry" => worker'.todo \subseteq pending'
    BY <1>1, <1>3, <1>6 DEF WorkerFits
  <2>2. worker'.phase = "page" => /\ cursor' <= worker'.next
                                 /\ worker'.todo \subseteq Unread'
    BY <1>1, <1>3 DEF WorkerFits, Unread
  <2>3. /\ Handled' \cup passed' = Behind(Reached)' /\ Handled' \cap passed' = {}
    BY <1>1, <1>8 DEF WorkerFits, Behind, Events
  <2>4. ReachedAnEvent' /\ \A i \in passed' : Overtaken(i)'
    BY <1>1, <1>8, ListsLast DEF WorkerFits
  <2> QED BY <1>3, <2>1, <2>2, <2>3, <2>4 DEF WorkerFits
<1> QED BY <1>7, <1>9 DEF SyncInv

\* A step that leaves the worker's lists and the journal alone.
LEMMA ListsKept ==
  ASSUME SyncInv, UNCHANGED <<cursor, pending, processed, passed, worker, journal>>,
         drawn \in Nat, drawn' \in Nat, drawn <= drawn'
  PROVE  SyncInv'
<1>1. 0 .. drawn \subseteq 0 .. drawn'
  OBVIOUS
<1>2. WorkerFits'
  BY DEF SyncInv, WorkerFits, Reached, ReachedAnEvent, Handled, Behind, Events,
         Unread, Overtaken
<1>3. worker' \in [phase : {"idle", "retry", "page"}, todo : SUBSET Events',
                  saving : {0} \cup Events', next : 0 .. drawn']
  BY <1>1 DEF SyncInv, SyncType, Events
<1> QED BY <1>1, <1>2, <1>3 DEF SyncInv, SyncType, Events

\* The event of a commit is on a page to come, unless its number was passed:
\* then the venue had read a later one, and of another order, as the numbers
\* of one order are drawn under its lock.
LEMMA CommitFits ==
  ASSUME VenueInv, NEW o \in Orders, Commit(o)
  PROVE  SyncInv'
<1>1. /\ PlatformInv /\ NumbersFit /\ SyncInv /\ SyncType /\ WorkerFits
      /\ drawn' = drawn
      /\ UNCHANGED <<cursor, pending, processed, worker>>
  BY DEF VenueInv, SyncInv, Commit
<1>2. PICK status \in Status, new \in Event : Moves(o, status, new)
  BY <1>1, CommitMeans
<1>3. journal \in Seq(Event) /\ Len(journal) \in Nat
  BY <1>1, LenProperties DEF PlatformInv, PlatformType
<1>0. PICK m \in Nat : m = Len(journal) + 1
  BY <1>3
<1>4. /\ Events' = Events \cup {m} /\ m \notin Events /\ m \in Nat
      /\ journal'[m] = new /\ \A i \in Events : journal'[i] = journal[i] /\ i < m
      /\ Len(journal') = m /\ DOMAIN journal = Events /\ DOMAIN journal' = Events'
  <2>1. /\ journal' = Append(journal, new)
    BY <1>2 DEF Moves
  <2>2. /\ Len(journal') = m /\ journal'[m] = new /\ journal' \in Seq(Event)
        /\ \A i \in 1 .. Len(journal) : journal'[i] = journal[i]
    BY <1>0, <1>3, <2>1, AppendProperties
  <2>3. DOMAIN journal = 1 .. Len(journal) /\ DOMAIN journal' = 1 .. Len(journal')
    BY <1>3, <2>2, LenProperties
  <2> QED BY <1>0, <1>3, <2>2, <2>3 DEF Events
<1>5. /\ new.seq \in 1 .. drawn /\ new.order = o /\ drawn \in Nat
      /\ new.seq = holds[o].seq
      /\ \A i \in Events : /\ journal[i].seq \in Nat
                           /\ journal[i].seq # new.seq
                           /\ journal[i].order = o => journal[i].seq < new.seq
  BY <1>1, <1>2 DEF Moves, NumbersFit
<1>6. /\ passed' = IF new.seq > Reached THEN passed ELSE passed \cup {m}
  BY <1>4, <1>5 DEF Commit
<1>7. /\ Reached' = Reached /\ Handled' = Handled
      /\ Reached \in Nat /\ Handled \subseteq Events /\ passed \subseteq Events
  BY <1>1, <1>5 DEF Reached, Handled, SyncType
<1>8. SyncType'
  <2>1. worker' \in [phase : {"idle", "retry", "page"}, todo : SUBSET Events',
                    saving : {0} \cup Events', next : 0 .. drawn']
    BY <1>1, <1>4 DEF SyncType
  <2> QED BY <1>1, <1>4, <1>6, <2>1 DEF SyncType
<1>9. worker'.phase = "page" => worker'.todo \subseteq Unread'
  <2>1. Unread \subseteq Unread'
    BY <1>1, <1>4 DEF Unread
  <2> QED BY <1>1, <2>1 DEF WorkerFits
<1>10. Behind(Reached)' = IF new.seq > Reached THEN Behind(Reached)
                          ELSE Behind(Reached) \cup {m}
  <2>1. \A i \in Events : journal'[i].seq <= Reached' <=> journal[i].seq <= Reached
    BY <1>4, <1>7
  <2>2. journal'[m].seq <= Reached' <=> ~(new.seq > Reached)
    BY <1>4, <1>5, <1>7
  <2> QED BY <1>4, <2>1, <2>2 DEF Behind
<1>11. Handled' \cup passed' = Behind(Reached)' /\ Handled' \cap passed' = {}
  BY <1>1, <1>4, <1>6, <1>7, <1>10 DEF WorkerFits
<1>12. ReachedAnEvent' /\ \A i \in passed : Overtaken(i)'
  BY <1>1, <1>4, <1>7, ListsLast DEF WorkerFits
<1>13. ASSUME ~(new.seq > Reached) PROVE Overtaken(m)'
  <2>1. PICK j \in Handled : journal[j].seq = Reached
    BY <1>1, <1>5, <1>7, <1>13 DEF WorkerFits, ReachedAnEvent
  <2>2. j \in Events /\ j < m /\ journal'[j] = journal[j]
    BY <1>4, <1>7, <2>1
  <2>3. journal[j].seq > new.seq /\ journal[j].order # o
    BY <1>5, <1>7, <1>13, <2>1, <2>2
  <2>4. j \in Handled'
    BY <1>7, <2>1
  <2> QED BY <1>4, <1>5, <2>2, <2>3, <2>4 DEF Overtaken, Handled
<1>14. \A i \in passed' : Overtaken(i)'
  BY <1>6, <1>12, <1>13
<1>15. WorkerFits'
  BY <1>1, <1>9, <1>11, <1>12, <1>14 DEF WorkerFits
<1> QED BY <1>8, <1>15 DEF SyncInv

LEMMA SyncStep ==
  ASSUME VenueInv, [Next]_vars
  PROVE  SyncInv'
<1>1. /\ PlatformInv /\ NumbersFit
      /\ drawn \in Nat /\ drawn' \in Nat /\ drawn <= drawn'
  BY NumbersStep DEF VenueInv
<1>2. SyncInv /\ SyncType /\ WorkerFits
  BY DEF VenueInv, SyncInv
<1>4. ASSUME UNCHANGED <<cursor, pending, processed, passed, worker, journal>>
      PROVE  SyncInv'
  BY <1>1, <1>2, <1>4, ListsKept
<1>5. ASSUME NEW o \in Orders, PlatformActs(o)
      PROVE  SyncInv'
  <2>1. CASE Commit(o)
    BY <2>1, CommitFits
  <2>2. CASE ~Commit(o)
    <3>1. journal' = journal
      BY <1>5, <2>2 DEF PlatformActs, PlaceOrder, CancelOrder, RollBack, Begin
    <3> QED BY <1>4, <1>5, <2>2, <3>1, PlatformAlone
  <2> QED BY <2>1, <2>2
<1>6. ASSUME NEW o \in Orders, NEW status \in Status, LateCommand(o, status)
      PROVE  SyncInv'
  BY <1>4, <1>6, LateAlone
<1>7. ASSUME NEW p \in Operators, Requests(p)
      PROVE  SyncInv'
  BY <1>4, <1>7, RequestAlone
<1>8. CASE UNCHANGED vars
  BY <1>4, <1>8 DEF vars, readModel, platform
<1>9. CASE PushMenu
  <2>1. /\ worker' = [worker EXCEPT !.phase = "retry", !.todo = pending]
        /\ journal' = journal /\ drawn' = drawn
        /\ UNCHANGED <<cursor, pending, processed, passed>> /\ worker.phase = "idle"
    BY <1>9 DEF PushMenu
  <2>2. /\ worker'.phase = "retry" /\ worker'.todo = pending
        /\ worker'.saving = worker.saving /\ worker'.next = worker.next
        /\ worker' \in [phase : {"idle", "retry", "page"}, todo : SUBSET Events,
                        saving : {0} \cup Events, next : 0 .. drawn]
    BY <1>2, <2>1 DEF SyncType
  <2>3. SyncType'
    BY <1>2, <2>1, <2>2 DEF SyncType, Events
  <2>4. Reached' = Reached /\ Handled' = Handled
    BY <1>2, <2>1, <2>2 DEF WorkerFits, Reached, Handled
  <2>5. ReachedAnEvent' /\ \A i \in passed' : Overtaken(i)'
    BY <1>2, <2>1, <2>4, ListsLast DEF WorkerFits
  <2>6. Handled' \cup passed' = Behind(Reached)' /\ Handled' \cap passed' = {}
    BY <1>2, <2>1, <2>4 DEF WorkerFits, Behind, Events
  <2>7. WorkerFits'
    BY <1>2, <2>1, <2>2, <2>5, <2>6 DEF WorkerFits
  <2> QED BY <2>3, <2>7 DEF SyncInv
<1>10. CASE Pull
  <2>1. /\ worker' = [worker EXCEPT !.phase = "page", !.todo = Page,
                                   !.next = LastOfPage]
        /\ UNCHANGED <<cursor, pending, processed, passed, journal, drawn>>
        /\ worker.phase = "retry" /\ worker.todo = {}
    BY <1>10 DEF Pull, LastOfPage, platform, readModel
  <2>2. /\ LastOfPage \in 0 .. drawn /\ cursor <= LastOfPage
        /\ Page \subseteq Unread /\ Page \subseteq Events
        /\ Behind(LastOfPage) = Behind(cursor) \cup Page
        /\ LastOfPage = cursor \/ \E i \in Page : journal[i].seq = LastOfPage
    BY <1>1, <1>2, PageIsNext
  <2>3. worker.saving = 0
    BY <1>2, <2>1 DEF WorkerFits
  <2>4. /\ worker'.phase = "page" /\ worker'.todo = Page
        /\ worker'.saving = 0 /\ worker'.next = LastOfPage
        /\ worker' \in [phase : {"idle", "retry", "page"}, todo : SUBSET Events,
                        saving : {0} \cup Events, next : 0 .. drawn]
    BY <1>2, <2>1, <2>2, <2>3 DEF SyncType
  <2>5. SyncType'
    BY <1>2, <2>1, <2>4 DEF SyncType, Events
  <2>6. /\ Reached = cursor /\ Reached' = LastOfPage
        /\ Handled = processed \cup pending /\ Handled' = Handled \cup Page
    BY <2>1, <2>4 DEF Reached, Handled
  <2>7. /\ Handled' \cup passed' = Behind(Reached)'
    BY <1>2, <2>1, <2>2, <2>6 DEF WorkerFits, Behind, Events
  <2>8. Handled' \cap passed' = {}
    <3>1. \A i \in passed : journal[i].seq <= cursor
      BY <1>2, <2>6 DEF WorkerFits, Behind
    <3>2. \A i \in Page : journal[i].seq > cursor /\ journal[i].seq \in Nat
      BY <1>1, <2>2 DEF Unread, NumbersFit
    <3>3. Page \cap passed = {}
      BY <1>2, <3>1, <3>2 DEF SyncType
    <3> QED BY <1>2, <2>1, <2>6, <3>3 DEF WorkerFits
  <2>9. \A i \in passed' : Overtaken(i)'
    BY <1>2, <2>1, <2>6, ListsLast DEF WorkerFits
  <2>10. ReachedAnEvent'
    BY <1>2, <2>1, <2>2, <2>6 DEF WorkerFits, ReachedAnEvent
  <2>11. worker'.todo \subseteq Unread'
    BY <2>1, <2>2, <2>4 DEF Unread
  <2>12. WorkerFits'
    BY <2>1, <2>2, <2>4, <2>7, <2>8, <2>9, <2>10, <2>11 DEF WorkerFits
  <2> QED BY <2>5, <2>12 DEF SyncInv
<1>11. CASE PullFails
  <2>1. /\ worker' = Asleep /\ worker.phase = "retry" /\ worker.todo = {}
        /\ UNCHANGED <<cursor, pending, processed, passed, journal, drawn>>
    BY <1>11 DEF PullFails, platform, readModel
  <2>2. SyncType'
    BY <1>1, <1>2, <2>1 DEF SyncType, Asleep, Events
  <2>3. Reached' = Reached /\ Handled' = Handled
    BY <2>1 DEF Reached, Handled, Asleep
  <2>4. WorkerFits'
    BY <1>2, <2>1, <2>3, ListsLast DEF WorkerFits, Asleep, Behind, Events
  <2> QED BY <2>2, <2>4 DEF SyncInv
<1>12. ASSUME NEW e \in Upcoming, ProcessEvent(e)
       PROVE  SyncInv'
  <2>1. e \in worker.todo /\ e \in Events
    BY <1>2, UpcomingIsListed
  <2>2. worker.phase # "idle"
    BY <1>2, <2>1 DEF WorkerFits
  <2>3. /\ worker.saving = 0
        /\ UNCHANGED <<cursor, passed, journal, drawn>>
    BY <1>12 DEF ProcessEvent, platform
  <2>4. ASSUME Settle(e) \/ Postpone(e)
        PROVE  SyncInv'
    BY <1>2, <2>1, <2>2, <2>3, <2>4, HandledFits
  <2>5. CASE e \in processed /\ Done(e) /\ UNCHANGED <<pending, processed>>
             /\ worker.phase = "page"
    <3>1. /\ worker'.phase = worker.phase /\ worker'.todo = worker.todo \ {e}
          /\ worker'.saving = 0 /\ worker'.next = worker.next
          /\ worker' \in [phase : {"idle", "retry", "page"}, todo : SUBSET Events,
                          saving : {0} \cup Events, next : 0 .. drawn]
      <4>1. worker' = [worker EXCEPT !.todo = @ \ {e}, !.saving = 0]
        BY <2>5 DEF Done
      <4>2. worker.todo \ {e} \in SUBSET Events
        BY <1>2 DEF SyncType
      <4> QED BY <1>2, <4>1, <4>2 DEF SyncType
    <3>2. SyncType'
      BY <1>2, <2>3, <2>5, <3>1 DEF SyncType, Events
    <3>3. Reached' = Reached /\ Handled' = Handled
      BY <2>3, <2>5, <3>1 DEF Reached, Handled
    <3>4. ReachedAnEvent' /\ \A i \in passed' : Overtaken(i)'
      BY <1>2, <2>3, <3>3, ListsLast DEF WorkerFits
    <3>5. Handled' \cup passed' = Behind(Reached)' /\ Handled' \cap passed' = {}
      BY <1>2, <2>3, <3>3 DEF WorkerFits, Behind, Events
    <3>6. WorkerFits'
      BY <1>2, <2>3, <2>5, <3>1, <3>4, <3>5 DEF WorkerFits, Unread
    <3> QED BY <3>2, <3>6 DEF SyncInv
  <2>6. CASE worker' = [worker EXCEPT !.saving = e]
             /\ UNCHANGED <<pending, processed>>
    <3>1. /\ worker'.phase = worker.phase /\ worker'.todo = worker.todo
          /\ worker'.saving = e /\ worker'.next = worker.next
          /\ worker' \in [phase : {"idle", "retry", "page"}, todo : SUBSET Events,
                          saving : {0} \cup Events, next : 0 .. drawn]
      BY <1>2, <2>1, <2>6 DEF SyncType
    <3>2. SyncType'
      BY <1>2, <2>3, <2>6, <3>1 DEF SyncType, Events
    <3>3. Reached' = Reached /\ Handled' = Handled
      BY <2>3, <2>6, <3>1 DEF Reached, Handled
    <3>4. ReachedAnEvent' /\ \A i \in passed' : Overtaken(i)'
      BY <1>2, <2>3, <3>3, ListsLast DEF WorkerFits
    <3>5. Handled' \cup passed' = Behind(Reached)' /\ Handled' \cap passed' = {}
      BY <1>2, <2>3, <3>3 DEF WorkerFits, Behind, Events
    <3>6. WorkerFits'
      BY <1>2, <2>1, <2>2, <2>3, <2>6, <3>1, <3>4, <3>5 DEF WorkerFits, Unread
    <3> QED BY <3>2, <3>6 DEF SyncInv
  <2> QED BY <1>12, <2>4, <2>5, <2>6 DEF ProcessEvent
<1>13. CASE SaveSnapshot
  <2>1. /\ worker.saving # 0 /\ Settle(worker.saving)
        /\ UNCHANGED <<cursor, passed, journal, drawn>>
    BY <1>13 DEF SaveSnapshot, platform
  <2>2. worker.saving \in worker.todo /\ worker.phase # "idle"
    BY <1>2, <2>1 DEF WorkerFits
  <2> QED BY <1>2, <2>1, <2>2, HandledFits
<1>14. CASE SaveCursor
  <2>1. /\ worker' = Asleep /\ worker.phase = "page" /\ worker.todo = {}
        /\ cursor' = worker.next
        /\ UNCHANGED <<pending, processed, passed, journal, drawn>>
    BY <1>14 DEF SaveCursor, platform
  <2>2. SyncType'
    BY <1>1, <1>2, <2>1 DEF SyncType, Asleep, Events
  <2>3. Reached' = Reached /\ Handled' = Handled
    BY <2>1 DEF Reached, Handled, Asleep
  <2>4. WorkerFits'
    BY <1>2, <2>1, <2>3, ListsLast DEF WorkerFits, Asleep, Behind, Events
  <2> QED BY <2>2, <2>4 DEF SyncInv
<1>15. CASE Restart
  <2>1. /\ worker' = Asleep /\ cursor' = 0 /\ pending' = {} /\ processed' = {}
        /\ passed' = {} /\ journal' = journal /\ drawn' = drawn
    BY <1>15 DEF Restart, platform
  <2>2. SyncType'
    BY <1>1, <2>1 DEF SyncType, Asleep
  <2>3. Reached' = 0 /\ Handled' = {}
    BY <2>1 DEF Reached, Handled, Asleep
  <2>4. Behind(Reached)' = {}
    <3>1. \A i \in Events : ~(journal[i].seq <= 0)
      BY <1>1 DEF NumbersFit
    <3> QED BY <2>1, <2>3, <3>1 DEF Behind, Events
  <2>5. WorkerFits'
    BY <2>1, <2>3, <2>4 DEF WorkerFits, ReachedAnEvent, Asleep
  <2> QED BY <2>2, <2>5 DEF SyncInv
<1> QED BY <1>5, <1>6, <1>7, <1>8, <1>9, <1>10, <1>11, <1>12, <1>13, <1>14, <1>15
        DEF Next, Sync, PlatformActs, Requests

-----------------------------------------------------------------------------
(* The kitchen's orders and the operators' requests. *)

\* A request that a step does not touch.
LEMMA RequestLasts ==
  ASSUME PlatformInv, PlatformInv', PlatformLasts,
         NEW p \in Operators, RequestFits(p), op'[p] = op[p]
  PROVE  RequestFits(p)'
<1>1. CASE op[p].phase # "idle"
  <2>1. PICK o, s : o = op[p].order /\ s = op[p].status
    OBVIOUS
  <2>2. o \in Orders /\ s \in Status /\ (op[p].phase = "save" => Took(o, s))
    BY <1>1, <2>1 DEF RequestFits
  <2>3. op[p].phase = "save" => Took(o, s)'
    BY <2>2, TakenLasts
  <2>4. op'[p].order = o /\ op'[p].status = s /\ op'[p].phase = op[p].phase
    BY <2>1
  <2>5. op'[p].phase = "save" => Took(op[p].order, op[p].status)'
    BY <2>1, <2>3, <2>4 DEF Took
  <2> QED BY <2>2, <2>4, <2>5 DEF RequestFits
<1>2. CASE op[p].phase = "idle"
  BY <1>2 DEF RequestFits
<1> QED BY <1>1, <1>2

\* An order of the kitchen that a step does not touch.
LEMMA RealStatusLasts ==
  ASSUME PlatformInv, PlatformInv', PlatformLasts,
         KitchenStatusIsReal, NEW o \in Orders, local'[o] = local[o],
         local'[o] # None
  PROVE  \E n \in DOMAIN history'[o] : history'[o][n] = local'[o].status
<1>1. PICK s : s = local[o].status
  OBVIOUS
<1>2. Took(o, s)
  BY <1>1 DEF KitchenStatusIsReal, Took
<1>3. Took(o, s)'
  BY <1>2, TakenLasts
<1> QED BY <1>1, <1>3 DEF Took

LEMMA KitchenKept ==
  ASSUME PlatformInv, PlatformInv', PlatformLasts, KitchenInv,
         late' \subseteq Orders \X Status, local' = local, op' = op
  PROVE  KitchenInv'
<1>1. KitchenType'
  BY DEF KitchenInv, KitchenType
<1>2. RequestsFit'
  BY RequestLasts DEF KitchenInv, RequestsFit
<1>3. KitchenStatusIsReal'
  BY RealStatusLasts DEF KitchenInv, KitchenStatusIsReal
<1> QED BY <1>1, <1>2, <1>3 DEF KitchenInv

\* A step that changes one request.
LEMMA RequestChanges ==
  ASSUME PlatformInv, PlatformInv', PlatformLasts, KitchenInv,
         NEW p \in Operators, NEW new, op' = [op EXCEPT ![p] = new],
         new \in [phase : {"idle", "call", "save"}, order : Orders \cup {None},
                 at : Int, status : Status \cup {None}],
         RequestFits(p)'
  PROVE  /\ op' \in [Operators ->
                [phase : {"idle", "call", "save"}, order : Orders \cup {None},
                 at : Int, status : Status \cup {None}]]
         /\ RequestsFit'
<1>1. /\ op \in [Operators ->
             [phase : {"idle", "call", "save"}, order : Orders \cup {None},
              at : Int, status : Status \cup {None}]]
      /\ RequestsFit
  BY DEF KitchenInv, KitchenType
<1>2. \A q \in Operators \ {p} : op'[q] = op[q]
  BY <1>1
<1>3. \A q \in Operators \ {p} : RequestFits(q)'
  BY <1>1, <1>2, RequestLasts DEF RequestsFit
<1> QED BY <1>1, <1>3 DEF RequestsFit

\* A step that saves one order.
LEMMA OrderSaved ==
  ASSUME PlatformInv, PlatformInv', PlatformLasts, KitchenInv,
         NEW o \in Orders, NEW new \in [status : Status, at : Int],
         local' = [local EXCEPT ![o] = new],
         NEW s, s = new.status, Took(o, s)'
  PROVE  /\ local' \in [Orders -> {None} \cup [status : Status, at : Int]]
         /\ KitchenStatusIsReal'
<1>1. /\ local \in [Orders -> {None} \cup [status : Status, at : Int]]
      /\ KitchenStatusIsReal
  BY DEF KitchenInv, KitchenType
<1>2. local'[o] = new /\ \A q \in Orders \ {o} : local'[q] = local[q]
  BY <1>1
<1>3. \E n \in DOMAIN history'[o] : history'[o][n] = local'[o].status
  BY <1>2 DEF Took
<1>4. ASSUME NEW q \in Orders \ {o}, local'[q] # None
      PROVE  \E n \in DOMAIN history'[q] : history'[q][n] = local'[q].status
  BY <1>1, <1>2, <1>4, RealStatusLasts
<1> QED BY <1>1, <1>3, <1>4 DEF KitchenStatusIsReal

\* The order as an event shows it.
LEMMA SnapshotIsReal ==
  ASSUME PlatformInv, NEW i \in Events
  PROVE  /\ journal[i].order \in Orders
         /\ Snapshot(journal[i]) \in [status : Status, at : Int]
         /\ Took(journal[i].order, Snapshot(journal[i]).status)
<1>1. journal[i] \in Event /\ journal[i].order \in Orders
  <2>1. journal[i] \in Event
    BY ElementOfSeq DEF PlatformInv, PlatformType, Events
  <2> QED BY <2>1 DEF Event
<1>2. PICK o \in Orders : o = journal[i].order
  BY <1>1
<1>3. journal[i].version \in 1 .. Len(history[o]) /\ history[o] \in Seq(Status)
  BY <1>2 DEF PlatformInv, PlatformType, JournalFits
<1>4. /\ history[o][journal[i].version] \in Status
      /\ journal[i].version \in DOMAIN history[o]
  BY <1>3, ElementOfSeq, LenProperties
<1>5. /\ Snapshot(journal[i]) = [status |-> history[o][journal[i].version],
                                at |-> journal[i].at]
      /\ journal[i].at \in Int
  BY <1>1, <1>2 DEF Snapshot, Event
<1> QED BY <1>1, <1>2, <1>4, <1>5 DEF Took

LEMMA KitchenStep ==
  ASSUME VenueInv, [Next]_vars
  PROVE  KitchenInv'
<1>1. PlatformInv' /\ PlatformLasts
  BY Advances, AdvanceLasts DEF VenueInv
<1>2. PlatformInv /\ KitchenInv /\ KitchenType /\ RequestsFit /\ SyncInv
  BY DEF VenueInv, KitchenInv
<1>3. ASSUME late' \subseteq Orders \X Status, local' = local, op' = op
      PROVE  KitchenInv'
  BY <1>1, <1>2, <1>3, KitchenKept
<1>4. ASSUME NEW o \in Orders, PlatformActs(o)
      PROVE  KitchenInv'
  BY <1>2, <1>3, <1>4, PlatformAlone DEF KitchenType
<1>5. ASSUME NEW o \in Orders, NEW status \in Status, LateCommand(o, status)
      PROVE  KitchenInv'
  BY <1>2, <1>3, <1>5 DEF LateCommand, readModel, KitchenType
<1>15. ASSUME NEW p \in Operators, Arrive(p)
      PROVE  KitchenInv'
  BY <1>2, <1>3, <1>15 DEF Arrive, readModel, KitchenType
<1>6. CASE PushMenu \/ Pull \/ PullFails \/ SaveCursor
           \/ (\E e \in Upcoming : ProcessEvent(e)) \/ UNCHANGED vars
  BY <1>2, <1>3, <1>6 DEF PushMenu, Pull, PullFails, SaveCursor, ProcessEvent,
                          vars, readModel, KitchenType
<1>7. ASSUME NEW p \in Operators, NEW o \in Orders, NEW status \in Status,
             StartUpdate(p, o, status)
      PROVE  KitchenInv'
  <2> DEFINE new == [phase |-> "call", order |-> o, status |-> status,
                     at |-> local[o].at]
  <2>1. op' = [op EXCEPT ![p] = new] /\ late' = late /\ local' = local
    BY <1>7 DEF StartUpdate, readModel
  <2>2. local[o].at \in Int
    BY <1>2, <1>7 DEF StartUpdate, KitchenType
  <2>3. new \in [phase : {"idle", "call", "save"}, order : Orders \cup {None},
                at : Int, status : Status \cup {None}]
    BY <2>2
  <2>4. op'[p] = new
    BY <1>2, <2>1 DEF KitchenType
  <2>5. RequestFits(p)'
    BY <2>4 DEF RequestFits
  <2> HIDE DEF new
  <2>6. KitchenType' /\ RequestsFit'
    BY <1>1, <1>2, <2>1, <2>3, <2>5, RequestChanges DEF KitchenType
  <2>7. KitchenStatusIsReal'
    BY <1>1, <1>2, <2>1, RealStatusLasts DEF KitchenInv, KitchenStatusIsReal
  <2> QED BY <2>6, <2>7 DEF KitchenInv
<1>8. ASSUME NEW p \in Operators, Confirmed(p)
      PROVE  KitchenInv'
  <2> DEFINE new == [op[p] EXCEPT !.phase = "save"]
  <2>1. op' = [op EXCEPT ![p] = new] /\ late' = late /\ local' = local
    BY <1>8 DEF Confirmed, readModel
  <2>2. PICK o, s : o = op[p].order /\ s = op[p].status
    OBVIOUS
  <2>3. o \in Orders /\ s \in Status /\ answer[<<o, s>>] # None
    BY <1>2, <1>8, <2>2 DEF Confirmed, RequestsFit, RequestFits
  <2>4. Took(o, s)'
    <3>1. Took(o, s)
      BY <1>2, <2>3 DEF PlatformInv, AnswersAreTaken
    <3> QED BY <1>1, <1>2, <2>3, <3>1, TakenLasts
  <2>5. /\ new \in [phase : {"idle", "call", "save"}, order : Orders \cup {None},
                   at : Int, status : Status \cup {None}]
        /\ new.order = o /\ new.status = s
    BY <1>2, <2>2 DEF KitchenType
  <2>6. op'[p] = new
    BY <1>2, <2>1 DEF KitchenType
  <2>7. RequestFits(p)'
    BY <2>3, <2>4, <2>5, <2>6 DEF RequestFits, Took
  <2> HIDE DEF new
  <2>8. KitchenType' /\ RequestsFit'
    BY <1>1, <1>2, <2>1, <2>5, <2>7, RequestChanges DEF KitchenType
  <2>9. KitchenStatusIsReal'
    BY <1>1, <1>2, <2>1, RealStatusLasts DEF KitchenInv, KitchenStatusIsReal
  <2> QED BY <2>8, <2>9 DEF KitchenInv
<1>9. NoCall \in [phase : {"idle", "call", "save"}, order : Orders \cup {None},
                 at : Int, status : Status \cup {None}]
      /\ NoCall.phase = "idle"
  BY DEF NoCall
<1>10. ASSUME NEW p \in Operators, op' = [op EXCEPT ![p] = NoCall]
       PROVE  /\ op' \in [Operators ->
                    [phase : {"idle", "call", "save"}, order : Orders \cup {None},
                     at : Int, status : Status \cup {None}]]
              /\ RequestsFit'
  <2>1. op'[p] = NoCall
    BY <1>2, <1>10 DEF KitchenType
  <2>2. RequestFits(p)'
    BY <1>9, <2>1 DEF RequestFits
  <2> QED BY <1>1, <1>2, <1>9, <1>10, <2>2, RequestChanges
<1>11. ASSUME NEW p \in Operators, NotConfirmed(p)
       PROVE  KitchenInv'
  <2>1. /\ op' = [op EXCEPT ![p] = NoCall] /\ local' = local
        /\ late' \in {late, late \cup {<<op[p].order, op[p].status>>}}
        /\ op[p].phase # "idle"
    BY <1>11 DEF NotConfirmed, readModel
  <2>2. late' \subseteq Orders \X Status
    BY <1>2, <2>1 DEF KitchenType, RequestsFit, RequestFits
  <2>3. KitchenType' /\ RequestsFit'
    BY <1>2, <1>10, <2>1, <2>2 DEF KitchenType
  <2>4. KitchenStatusIsReal'
    BY <1>1, <1>2, <2>1, RealStatusLasts DEF KitchenInv, KitchenStatusIsReal
  <2> QED BY <2>3, <2>4 DEF KitchenInv
<1>12. ASSUME NEW p \in Operators, SaveConfirmed(p)
       PROVE  KitchenInv'
  <2>1. PICK o, s : o = op[p].order /\ s = op[p].status
    OBVIOUS
  <2> DEFINE new == [status |-> s, at |-> op[p].at]
  <2>2. /\ op' = [op EXCEPT ![p] = NoCall] /\ late' = late
        /\ local' = [local EXCEPT ![o] = new] /\ op[p].phase = "save"
    BY <1>12, <2>1 DEF SaveConfirmed
  <2>3. o \in Orders /\ s \in Status /\ Took(o, s)
    BY <1>2, <2>1, <2>2 DEF RequestsFit, RequestFits
  <2>4. new \in [status : Status, at : Int] /\ new.status = s
    BY <1>2, <2>3 DEF KitchenType
  <2> HIDE DEF new
  <2>5. Took(o, s)'
    BY <1>1, <1>2, <2>3, TakenLasts
  <2>6. /\ local' \in [Orders -> {None} \cup [status : Status, at : Int]]
        /\ KitchenStatusIsReal'
    BY <1>1, <1>2, <2>2, <2>3, <2>4, <2>5, OrderSaved
  <2> QED BY <1>2, <1>10, <2>2, <2>6 DEF KitchenInv, KitchenType
<1>13. CASE SaveSnapshot
  <2>1. worker.saving \in Events
    BY <1>2, <1>13 DEF SaveSnapshot, SyncInv, SyncType
  <2>2. PICK o, new, s : /\ o = journal[worker.saving].order
                         /\ new = Snapshot(journal[worker.saving])
                         /\ s = new.status
    OBVIOUS
  <2>3. o \in Orders /\ new \in [status : Status, at : Int] /\ Took(o, s)
    BY <1>2, <2>1, <2>2, SnapshotIsReal
  <2>4. /\ op' = op /\ late' = late /\ local' = [local EXCEPT ![o] = new]
    BY <1>13, <2>2 DEF SaveSnapshot
  <2>5. Took(o, s)'
    BY <1>1, <1>2, <2>3, TakenLasts
  <2>6. /\ local' \in [Orders -> {None} \cup [status : Status, at : Int]]
        /\ KitchenStatusIsReal'
    BY <1>1, <1>2, <2>2, <2>3, <2>4, <2>5, OrderSaved
  <2>7. KitchenType'
    BY <1>2, <2>4, <2>6 DEF KitchenType
  <2>8. RequestsFit'
    BY <1>1, <1>2, <2>4, RequestLasts DEF RequestsFit
  <2> QED BY <2>6, <2>7, <2>8 DEF KitchenInv
<1>14. CASE Restart
  <2>1. /\ op' = [p \in Operators |-> NoCall] /\ local' = Unseen
        /\ \E sent \in SUBSET {<<op[p].order, op[p].status>> :
                                 p \in {q \in Operators : op[q].phase = "call"}} :
             late' = late \cup sent
    BY <1>14 DEF Restart
  <2>2. ASSUME NEW p \in Operators, op[p].phase = "call"
        PROVE  <<op[p].order, op[p].status>> \in Orders \X Status
    BY <1>2, <2>2 DEF RequestsFit, RequestFits
  <2>3. late' \subseteq Orders \X Status
    BY <1>2, <2>1, <2>2 DEF KitchenType
  <2>4. \A p \in Operators : op'[p] = NoCall
    BY <2>1
  <2>5. KitchenType'
    BY <1>9, <2>1, <2>3 DEF KitchenType, Unseen
  <2>6. RequestsFit'
    BY <1>9, <2>4 DEF RequestsFit, RequestFits
  <2>7. KitchenStatusIsReal'
    BY <2>1 DEF KitchenStatusIsReal, Unseen
  <2> QED BY <2>5, <2>6, <2>7 DEF KitchenInv
<1> QED BY <1>4, <1>5, <1>6, <1>7, <1>8, <1>11, <1>12, <1>13, <1>14, <1>15
        DEF Next, Sync, PlatformActs

-----------------------------------------------------------------------------
(* The events that are done. *)

\* What the worker handles without saving the order is in the kitchen already.
LEMMA OnlyTheWorkerHandles ==
  ASSUME VenueInv, [Next]_vars, ~SaveSnapshot, ~Restart
  PROVE  /\ \A i \in processed' \ processed :
              /\ i \in Events /\ local[journal[i].order] # None
              /\ ~(local[journal[i].order].at < journal[i].at)
         /\ worker'.saving \notin {0, worker.saving} =>
              worker'.saving \in Events /\ Newer(journal[worker'.saving])
<1>1. SyncInv /\ SyncType
  BY DEF VenueInv, SyncInv
<1>2. ASSUME NEW o \in Orders, PlatformActs(o)
      PROVE  processed' = processed /\ worker' = worker
  BY <1>2, PlatformAlone
<1>3. ASSUME NEW o \in Orders, NEW status \in Status, LateCommand(o, status)
      PROVE  processed' = processed /\ worker' = worker
  BY <1>3, LateAlone
<1>4. ASSUME NEW p \in Operators, Requests(p)
      PROVE  processed' = processed /\ worker' = worker
  BY <1>4, RequestAlone
<1>5. CASE PushMenu \/ Pull \/ PullFails \/ SaveCursor \/ UNCHANGED vars
  <2>1. processed' = processed
    BY <1>5 DEF PushMenu, Pull, PullFails, SaveCursor, readModel, vars
  <2>2. worker'.saving \in {0, worker.saving}
    <3>1. CASE PushMenu
      BY <1>1, <3>1 DEF PushMenu, SyncType
    <3>2. CASE Pull
      <4>1. PICK todo, last : worker' = [worker EXCEPT !.phase = "page",
                                           !.todo = todo, !.next = last]
        BY <3>2 DEF Pull
      <4> QED BY <1>1, <4>1 DEF SyncType
    <3>3. CASE PullFails \/ SaveCursor
      BY <3>3 DEF PullFails, SaveCursor, Asleep
    <3>4. CASE UNCHANGED vars
      BY <3>4 DEF vars
    <3> QED BY <1>5, <3>1, <3>2, <3>3, <3>4
  <2> QED BY <2>1, <2>2
<1>6. ASSUME NEW e \in Upcoming, ProcessEvent(e)
      PROVE  /\ \A i \in processed' \ processed :
                  /\ i \in Events /\ local[journal[i].order] # None
                  /\ ~(local[journal[i].order].at < journal[i].at)
             /\ worker'.saving \notin {0, worker.saving} =>
                  worker'.saving \in Events /\ Newer(journal[worker'.saving])
  <2>1. e \in Events
    BY <1>1, UpcomingIsListed
  <2>2. CASE ~Newer(journal[e]) /\ Settle(e)
    <3>1. processed' = processed \cup {e} /\ worker'.saving = 0
      BY <1>1, <2>2 DEF Settle, Done, SyncType
    <3> QED BY <2>1, <2>2, <3>1 DEF Newer
  <2>3. CASE /\ Newer(journal[e]) /\ processed' = processed
             /\ worker' = [worker EXCEPT !.saving = e]
    <3>1. worker'.saving = e
      BY <1>1, <2>3 DEF SyncType
    <3> QED BY <2>1, <2>3, <3>1
  <2>4. CASE processed' = processed /\ Done(e)
    <3>1. worker'.saving = 0
      BY <1>1, <2>4 DEF Done, SyncType
    <3> QED BY <2>4, <3>1
  <2> QED BY <1>6, <2>2, <2>3, <2>4 DEF ProcessEvent, Postpone
<1> QED BY <1>2, <1>3, <1>4, <1>5, <1>6 DEF Next, Sync, PlatformActs, Requests

\* Operators and the worker replace orders, only a restart removes them.
LEMMA OrdersStay ==
  ASSUME VenueInv, [Next]_vars, ~Restart,
         NEW o \in Orders, local[o] # None
  PROVE  local'[o] # None
<1>1. /\ PlatformInv /\ SyncType /\ KitchenType /\ RequestsFit
  BY DEF VenueInv, SyncInv, KitchenInv
<1>2. ASSUME NEW q \in Orders, NEW new \in [status : Status, at : Int],
             local' = [local EXCEPT ![q] = new]
      PROVE  local'[o] # None
  BY <1>1, <1>2, NoneIsNoOrder DEF KitchenType
<1>3. ASSUME NEW q \in Orders, PlatformActs(q)
      PROVE  local' = local
  BY <1>3, PlatformAlone
<1>4. ASSUME NEW q \in Orders, NEW status \in Status, LateCommand(q, status)
      PROVE  local' = local
  BY <1>4 DEF LateCommand, readModel
<1>5. ASSUME NEW p \in Operators,
             \/ Arrive(p) \/ Confirmed(p) \/ NotConfirmed(p)
             \/ \E q \in Orders, status \in Status : StartUpdate(p, q, status)
      PROVE  local' = local
  BY <1>5 DEF Arrive, Confirmed, NotConfirmed, StartUpdate, readModel
<1>6. CASE PushMenu \/ Pull \/ PullFails \/ SaveCursor
           \/ (\E e \in Upcoming : ProcessEvent(e)) \/ UNCHANGED vars
  BY <1>6 DEF PushMenu, Pull, PullFails, SaveCursor, ProcessEvent, readModel, vars
<1>7. ASSUME NEW p \in Operators, SaveConfirmed(p)
      PROVE  local'[o] # None
  <2>1. /\ op[p].order \in Orders
        /\ [status |-> op[p].status, at |-> op[p].at] \in [status : Status, at : Int]
        /\ local' = [local EXCEPT ![op[p].order] =
                       [status |-> op[p].status, at |-> op[p].at]]
    BY <1>1, <1>7 DEF SaveConfirmed, KitchenType, RequestsFit, RequestFits
  <2> QED BY <1>2, <2>1
<1>8. CASE SaveSnapshot
  <2>1. worker.saving \in Events
    BY <1>1, <1>8 DEF SaveSnapshot, SyncType
  <2>2. PICK q \in Orders, new \in [status : Status, at : Int] :
          /\ q = journal[worker.saving].order
          /\ new = Snapshot(journal[worker.saving])
    BY <1>1, <2>1, SnapshotIsReal
  <2>3. local' = [local EXCEPT ![q] = new]
    BY <1>8, <2>2 DEF SaveSnapshot
  <2> QED BY <1>2, <2>3
<1> QED BY <1>3, <1>4, <1>5, <1>6, <1>7, <1>8 DEF Next, Sync, PlatformActs

\* An event is done when its order is saved or was there.
LEMMA DoneStep ==
  ASSUME VenueInv, [Next]_vars
  PROVE  DoneIsThere'
<1>1. /\ PlatformInv /\ PlatformLasts /\ SyncType /\ KitchenType /\ DoneIsThere
  BY Advances, AdvanceLasts DEF VenueInv, SyncInv, KitchenInv
<1>2. CASE Restart
  BY <1>2 DEF Restart, DoneIsThere
<1>3. ASSUME ~Restart, NEW i \in Events, local[journal[i].order] # None
      PROVE  local'[journal'[i].order] # None
  <2>1. journal'[i] = journal[i] /\ journal[i].order \in Orders
    BY <1>1, SnapshotIsReal DEF PlatformLasts
  <2> QED BY <1>3, <2>1, OrdersStay
<1>4. CASE ~Restart /\ ~SaveSnapshot
  <2>1. ASSUME NEW i \in processed'
        PROVE  i \in Events /\ local[journal[i].order] # None
    <3>1. CASE i \in processed
      BY <1>1, <3>1 DEF SyncType, DoneIsThere
    <3>2. CASE i \notin processed
      BY <1>4, <3>2, OnlyTheWorkerHandles
    <3> QED BY <3>1, <3>2
  <2> QED BY <1>3, <1>4, <2>1 DEF DoneIsThere
<1>5. CASE ~Restart /\ SaveSnapshot
  <2>1. /\ worker.saving \in Events /\ journal' = journal
        /\ processed' = processed \cup {worker.saving}
    BY <1>1, <1>5 DEF SaveSnapshot, SyncType, Settle, platform
  <2>2. PICK o \in Orders, new \in [status : Status, at : Int] :
          /\ o = journal[worker.saving].order
          /\ new = Snapshot(journal[worker.saving])
    BY <1>1, <2>1, SnapshotIsReal
  <2>3. local'[o] = new /\ new # None
    BY <1>1, <1>5, <2>2, NoneIsNoOrder DEF SaveSnapshot, KitchenType
  <2>4. ASSUME NEW i \in processed
        PROVE  local'[journal'[i].order] # None
    BY <1>1, <1>3, <1>5 DEF SyncType, DoneIsThere
  <2> QED BY <2>1, <2>2, <2>3, <2>4 DEF DoneIsThere
<1> QED BY <1>2, <1>4, <1>5

-----------------------------------------------------------------------------
(* The theorems that hold for all constants. *)

LEMMA VenueInit ==
  ASSUME Init PROVE VenueInv
<1>1. /\ history = [o \in Orders |-> <<>>] /\ journal = <<>>
      /\ answer = [c \in Orders \X Status |-> None]
  BY DEF Init, Platform!Init
<1>2. /\ <<>> \in Seq(Status) /\ <<>> \in Seq(Event) /\ Len(<<>>) = 0
  BY EmptySeq
<1>3. PlatformType /\ Events = {}
  BY <1>1, <1>2 DEF Init, PlatformType, Events
<1>4. JournalFits /\ HistoriesAscend
  BY <1>1, <1>2, <1>3 DEF JournalFits, HistoriesAscend
<1>5. AnswersAreTaken
  BY <1>1 DEF AnswersAreTaken
<1>6. CatalogueType
  BY BoundsType DEF Init, CatalogueType
<1>10. NumbersFit
  BY <1>1, <1>3, BoundsType DEF Init, NumbersFit
<1>7. SyncInv
  BY <1>1, <1>2, <1>3
     DEF Init, SyncInv, SyncType, WorkerFits, Reached, ReachedAnEvent, Handled, Behind,
         Asleep, Events
<1>8. KitchenInv
  BY DEF Init, KitchenInv, KitchenType, RequestsFit, RequestFits,
         KitchenStatusIsReal, Unseen, NoCall
<1>9. DoneIsThere
  BY DEF Init, DoneIsThere
<1> QED BY <1>3, <1>4, <1>5, <1>6, <1>7, <1>8, <1>9, <1>10 DEF VenueInv, PlatformInv

\* The inductive invariant of VenueSync.
THEOREM VenueInductive == Spec => []VenueInv
<1>1. Init => VenueInv
  BY VenueInit
<1>2. ASSUME VenueInv, [Next]_vars PROVE VenueInv'
  BY <1>2, Advances, AdvanceLasts, NumbersStep, CatalogueStep, SyncStep, KitchenStep,
     DoneStep
     DEF VenueInv
<1> QED BY <1>1, <1>2, PTL DEF Spec

\* Every variable of the venue and of its platform keeps its type.
THEOREM VenueTypeCorrect == Spec => []TypeOK
<1>1. VenueInv => TypeOK
  <2> SUFFICES ASSUME VenueInv PROVE TypeOK
    OBVIOUS
  <2>1. /\ PlatformType /\ NumbersFit /\ CatalogueType /\ SyncType /\ KitchenType
    BY DEF VenueInv, PlatformInv, SyncInv, KitchenInv
  <2> DEFINE Numbered == [order : Orders, version : Nat, seq : 1 .. drawn, at : Int]
  <2>2. journal \in Seq(Numbered)
    <3>1. /\ Len(journal) \in Nat /\ journal \in [1 .. Len(journal) -> Event]
      BY <2>1, LenProperties DEF PlatformType
    <3>2. ASSUME NEW i \in 1 .. Len(journal) PROVE journal[i] \in Numbered
      <4>1. journal[i] \in Event /\ journal[i].seq \in 1 .. drawn
        BY <2>1, <3>1 DEF NumbersFit, Events
      <4> QED BY <4>1 DEF Event
    <3> HIDE DEF Numbered
    <3>3. journal \in [1 .. Len(journal) -> Numbered]
      BY <3>1, <3>2
    <3> QED BY <3>1, <3>3, SeqDef
  <2>3. holds \in [Orders -> {None} \cup [status : Status, seq : 1 .. drawn]]
    <3>1. ASSUME NEW o \in Orders, holds[o] # None
          PROVE  holds[o] \in [status : Status, seq : 1 .. drawn]
      <4>1. holds[o] \in [status : Status, seq : Nat] /\ holds[o].seq \in 1 .. drawn
        BY <2>1, <3>1 DEF PlatformType, NumbersFit
      <4> QED BY <4>1
    <3> QED BY <2>1, <3>1 DEF PlatformType
  <2> QED BY <2>1, <2>2, <2>3
          DEF PlatformType, NumbersFit, CatalogueType, SyncType, KitchenType, TypeOK
<1> QED BY <1>1, VenueInductive, PTL

\* The kitchen never shows a status that its order did not have on the
\* platform: operators write what the platform confirmed, the worker what the
\* journal reported, in whatever order calls, pages and restarts fall.
THEOREM KitchenIsTrue == Spec => []KitchenStatusIsReal
<1>1. VenueInv => KitchenStatusIsReal
  BY DEF VenueInv, KitchenInv
<1> QED BY <1>1, VenueInductive, PTL

\* No event is behind the cursor unless its order is in the kitchen and the
\* event is done, or it waits for a retry, or its number was passed before it
\* was committed, and then the venue had read a later number of another order.
THEOREM NothingIsForgotten == Spec => []CursorPassesNothing
<1>1. VenueInv => CursorPassesNothing
  <2> SUFFICES ASSUME VenueInv PROVE CursorPassesNothing
    OBVIOUS
  <2>1. NumbersFit /\ SyncType /\ WorkerFits /\ DoneIsThere
    BY DEF VenueInv, SyncInv
  <2>2. ASSUME NEW i \in Events \ Unread
        PROVE  i \in processed \cup pending \cup passed
    <3>1. /\ worker.next \in Nat /\ cursor \in Nat
          /\ worker.phase = "page" => cursor <= worker.next
          /\ journal[i].seq \in Nat
      BY <2>1 DEF NumbersFit, SyncType, WorkerFits
    <3>2. journal[i].seq <= cursor
      <4>1. i \in DOMAIN journal
        BY LenProperties DEF VenueInv, PlatformInv, PlatformType, Events
      <4> QED BY <3>1, <4>1 DEF Unread
    <3>3. i \in Behind(Reached)
      BY <3>1, <3>2 DEF Behind, Reached
    <3>4. i \in worker.todo => i \in pending
      BY <2>1 DEF SyncType, WorkerFits
    <3> QED BY <2>1, <3>3, <3>4 DEF WorkerFits, Handled
  <2> QED BY <2>1, <2>2 DEF CursorPassesNothing, WorkerFits, DoneIsThere
<1> QED BY <1>1, VenueInductive, PTL

\* When nothing is going on, the kitchen has every order of which an event was
\* not passed, whatever the clock did, and whether operators got their replies
\* or not.
THEOREM NoOrderIsMissing == Spec => []EveryOrderIsThere
<1>1. CursorPassesNothing => EveryOrderIsThere
  <2> SUFFICES ASSUME CursorPassesNothing, Quiet, NEW o \in Orders,
                      NEW i \in Readable(o)
               PROVE  local[o] # None
    BY DEF EveryOrderIsThere
  <2>1. i \in Events \ Unread /\ i \notin pending /\ i \notin passed
        /\ journal[i].order = o
    BY DEF Quiet, Readable
  <2> QED BY <2>1 DEF CursorPassesNothing
<1> QED BY <1>1, NothingIsForgotten, PTL

-----------------------------------------------------------------------------
(* Where the clock does not slip. *)

\* The facts about single events that the proofs below go back to.
LEMMA EventFacts ==
  ASSUME PlatformInv
  PROVE  /\ Len(journal) \in Nat
         /\ \A i \in Events : /\ i \in Nat /\ journal[i].order \in Orders
                              /\ journal[i].version \in Nat /\ journal[i].at \in Int
         /\ \A i \in Events : \A o \in Orders : journal[i].order = o =>
              journal[i].version \in 1 .. Len(history[o])
         /\ \A o \in Orders : /\ history[o] \in Seq(Status) /\ Len(history[o]) \in Nat
                              /\ (history[o] # <<>> => Len(history[o]) \in 1 .. Len(history[o]))
                              /\ Last(history[o]) = history[o][Len(history[o])]
<1>1. Len(journal) \in Nat
  BY LenProperties DEF PlatformInv, PlatformType
<1>2. ASSUME NEW i \in Events
      PROVE  /\ i \in Nat /\ journal[i].order \in Orders
             /\ journal[i].version \in Nat /\ journal[i].at \in Int
  <2>1. journal[i] \in Event
    BY ElementOfSeq DEF PlatformInv, PlatformType, Events
  <2> QED BY <2>1, <1>1 DEF Event, Events
<1>3. ASSUME NEW o \in Orders
      PROVE  /\ history[o] \in Seq(Status) /\ Len(history[o]) \in Nat
             /\ history[o] # <<>> => Len(history[o]) \in 1 .. Len(history[o])
             /\ Last(history[o]) = history[o][Len(history[o])]
  <2>1. history[o] \in Seq(Status)
    BY DEF PlatformInv, PlatformType
  <2>2. Len(history[o]) \in Nat /\ (history[o] # <<>> => Len(history[o]) # 0)
    BY <2>1, LenProperties, EmptySeq
  <2> QED BY <2>1, <2>2 DEF Last
<1>4. \A i \in Events : \A o \in Orders : journal[i].order = o =>
              journal[i].version \in 1 .. Len(history[o])
  BY DEF PlatformInv, JournalFits
<1> QED BY <1>1, <1>2, <1>3, <1>4

\* The newest time of an order is the number of its changes.
LEMMA LastAtIsLength ==
  ASSUME PlatformInv, TimesAreVersions, NEW o \in Orders
  PROVE  LastAt(o) = Len(history[o])
<1>1. CASE history[o] = <<>>
  BY <1>1, EmptySeq DEF LastAt
<1>2. CASE history[o] # <<>>
  BY <1>2, LastIsFound DEF TimesAreVersions
<1> QED BY <1>1, <1>2

LEMMA TimesStayVersions ==
  ASSUME MaxSlips = 0, PlatformInv, PlatformInv', PlatformLasts, Advance,
         TimesAreVersions
  PROVE  TimesAreVersions'
<1>1. CASE UNCHANGED <<history, answer, journal>>
  BY <1>1 DEF TimesAreVersions, Events
<1>2. ASSUME NEW o \in Orders, NEW status \in Status, NEW new \in Event,
             Moves(o, status, new)
      PROVE  TimesAreVersions'
  <2>1. LastAt(o) = Len(history[o])
    BY LastAtIsLength
  <2>2. new.at = new.version
    BY <1>2, <2>1 DEF Moves
  <2>3. /\ journal' = Append(journal, new) /\ journal \in Seq(Event)
        /\ Len(journal) \in Nat
    BY <1>2, LenProperties DEF Moves, PlatformInv, PlatformType
  <2>4. /\ Len(journal') = Len(journal) + 1
        /\ journal'[Len(journal) + 1] = new
    BY <2>3, AppendProperties
  <2>5. ASSUME NEW i \in Events' PROVE journal'[i].at = journal'[i].version
    <3>1. CASE i \in Events
      BY <3>1 DEF TimesAreVersions, PlatformLasts
    <3>2. CASE i = Len(journal) + 1
      BY <3>2, <2>2, <2>4
    <3> QED BY <2>3, <2>4, <3>1, <3>2 DEF Events
  <2> QED BY <2>5 DEF TimesAreVersions
<1> QED BY <1>1, <1>2 DEF Advance

LEMMA ReflectsLasts ==
  ASSUME SyncType, PlatformLasts, processed \subseteq processed',
         NEW o, NEW t, Reflects(o, t)
  PROVE  Reflects(o, t)'
<1>1. PICK i \in processed : journal[i].order = o /\ t <= journal[i].at
  BY DEF Reflects
<1>2. journal'[i] = journal[i] /\ i \in processed'
  BY <1>1 DEF SyncType, PlatformLasts
<1> QED BY <1>1, <1>2 DEF Reflects

\* What the kitchen or a request knows of an order is no newer than its
\* last change.
LEMMA ReflectedIsPast ==
  ASSUME PlatformInv, SyncType, TimesAreVersions,
         NEW o \in Orders, NEW t \in Int, Reflects(o, t)
  PROVE  t <= Len(history[o])
<1>1. PICK i \in processed : journal[i].order = o /\ t <= journal[i].at
  BY DEF Reflects
<1>2. i \in Events
  BY <1>1 DEF SyncType
<1>3. /\ journal[i].version \in 1 .. Len(history[o])
      /\ Len(history[o]) \in Nat
  BY <1>1, <1>2, EventFacts
<1>4. journal[i].at = journal[i].version
  BY <1>2 DEF TimesAreVersions
<1> QED BY <1>1, <1>3, <1>4

\* A history whose length a step leaves alone is the same afterwards, and so
\* is its last status.
LEMMA LastStatusLasts ==
  ASSUME PlatformInv, PlatformInv', PlatformLasts, NEW o \in Orders,
         Len(history'[o]) = Len(history[o])
  PROVE  Last(history'[o]) = Last(history[o])
<1>1. CASE history[o] # <<>>
  <2>1. /\ Len(history[o]) \in 1 .. Len(history[o])
        /\ Last(history[o]) = history[o][Len(history[o])]
    BY <1>1, EventFacts
  <2>2. Last(history'[o]) = history'[o][Len(history[o])]
    BY DEF Last
  <2> QED BY <2>1, <2>2 DEF PlatformLasts
<1>2. CASE history[o] = <<>>
  <2>1. Len(history'[o]) = 0 /\ history'[o] \in Seq(Status)
    BY <1>2, EmptySeq DEF PlatformInv, PlatformType
  <2> QED BY <1>2, <2>1, EmptySeq
<1> QED BY <1>1, <1>2

\* Only a restart forgets which events are done or passed.
LEMMA OnlyRestartForgets ==
  ASSUME [Next]_vars
  PROVE  Restart \/ (processed \subseteq processed' /\ passed \subseteq passed')
<1>1. ASSUME NEW o \in Orders, PlatformActs(o)
      PROVE  processed \subseteq processed' /\ passed \subseteq passed'
  BY <1>1, PlatformAlone DEF Commit
<1>2. ASSUME NEW o \in Orders, NEW status \in Status, LateCommand(o, status)
      PROVE  processed \subseteq processed' /\ passed \subseteq passed'
  BY <1>2, LateAlone
<1>3. ASSUME NEW p \in Operators, Requests(p)
      PROVE  processed \subseteq processed' /\ passed \subseteq passed'
  BY <1>3, RequestAlone
<1>4. CASE PushMenu \/ Pull \/ PullFails \/ SaveSnapshot \/ SaveCursor
           \/ (\E e \in Upcoming : ProcessEvent(e)) \/ UNCHANGED vars
  BY <1>4 DEF PushMenu, Pull, PullFails, SaveSnapshot, SaveCursor, ProcessEvent,
              Settle, Postpone, readModel, vars
<1> QED BY <1>1, <1>2, <1>3, <1>4 DEF Next, Sync, PlatformActs, Requests

\* What the venue knows is in the events it handled, also after the step.
LEMMA KitchenStaysBehind ==
  ASSUME VenueInv, PlatformLasts, KitchenIsBehind, [Next]_vars
  PROVE  KitchenIsBehind'
<1>1. /\ SyncInv /\ SyncType /\ WorkerFits /\ PlatformInv /\ KitchenInv
      /\ KitchenType /\ RequestsFit
  BY DEF VenueInv, SyncInv, KitchenInv
<1>2. CASE Restart
  <2>1. local' = Unseen /\ \A p \in Operators : op'[p] = NoCall
    BY <1>2 DEF Restart
  <2> QED BY <2>1 DEF KitchenIsBehind, Unseen, NoCall
<1>3. CASE ~Restart
  <2>1. processed \subseteq processed'
    BY <1>3, OnlyRestartForgets
  <2>2. ASSUME NEW o \in Orders, local'[o] = local[o], local'[o] # None
        PROVE  Reflects(o, local[o].at)'
    <3>1. PICK t : t = local[o].at
      OBVIOUS
    <3>2. Reflects(o, t)
      BY <2>2, <3>1 DEF KitchenIsBehind
    <3>3. Reflects(o, t)'
      BY <1>1, <2>1, <3>2, ReflectsLasts
    <3> QED BY <2>2, <3>1, <3>3 DEF Reflects
  <2>3. ASSUME NEW p \in Operators, op'[p].phase # "idle", op[p].phase # "idle",
               op'[p].order = op[p].order, op'[p].at = op[p].at
        PROVE  Reflects(op[p].order, op[p].at)'
    <3>1. PICK o, t : o = op[p].order /\ t = op[p].at
      OBVIOUS
    <3>2. Reflects(o, t)
      BY <2>3, <3>1 DEF KitchenIsBehind
    <3>3. Reflects(o, t)'
      BY <1>1, <2>1, <3>2, ReflectsLasts
    <3> QED BY <2>3, <3>1, <3>3 DEF Reflects
  <2>4. ASSUME local' = local, op' = op
        PROVE  KitchenIsBehind'
    BY <2>2, <2>3, <2>4 DEF KitchenIsBehind
  <2>5. ASSUME NEW o \in Orders, PlatformActs(o)
        PROVE  KitchenIsBehind'
    BY <2>4, <2>5, PlatformAlone
  <2>13. ASSUME NEW p \in Operators, Arrive(p)
        PROVE  KitchenIsBehind'
    BY <2>4, <2>13 DEF Arrive, readModel
  <2>6. ASSUME NEW o \in Orders, NEW status \in Status, LateCommand(o, status)
        PROVE  KitchenIsBehind'
    BY <2>4, <2>6 DEF LateCommand, readModel
  <2>7. CASE PushMenu \/ Pull \/ PullFails \/ SaveCursor
             \/ (\E e \in Upcoming : ProcessEvent(e)) \/ UNCHANGED vars
    BY <2>4, <2>7 DEF PushMenu, Pull, PullFails, SaveCursor, ProcessEvent,
                      vars, readModel
  <2>8. ASSUME NEW p \in Operators, NEW o \in Orders, NEW status \in Status,
               StartUpdate(p, o, status)
        PROVE  KitchenIsBehind'
    <3>1. PICK t : t = local[o].at
      OBVIOUS
    <3>2. /\ op'[p] = [phase |-> "call", order |-> o, status |-> status, at |-> t]
          /\ \A q \in Operators \ {p} : op'[q] = op[q]
          /\ local' = local /\ local[o] # None
      BY <1>1, <2>8, <3>1 DEF StartUpdate, readModel, KitchenType
    <3>3. Reflects(o, t)
      BY <3>1, <3>2 DEF KitchenIsBehind
    <3>4. Reflects(o, t)'
      BY <1>1, <2>1, <3>3, ReflectsLasts
    <3> QED BY <2>2, <2>3, <3>2, <3>4 DEF KitchenIsBehind, Reflects
  <2>9. ASSUME NEW p \in Operators, Confirmed(p)
        PROVE  KitchenIsBehind'
    <3>1. /\ op[p].phase = "call" /\ local' = local
          /\ op' = [op EXCEPT ![p] = [op[p] EXCEPT !.phase = "save"]]
      BY <2>9 DEF Confirmed, readModel
    <3>2. /\ op'[p].order = op[p].order /\ op'[p].at = op[p].at
          /\ \A q \in Operators \ {p} : op'[q] = op[q]
      BY <1>1, <3>1 DEF KitchenType
    <3> QED BY <2>2, <2>3, <3>1, <3>2 DEF KitchenIsBehind
  <2>10. ASSUME NEW p \in Operators, NotConfirmed(p)
         PROVE  KitchenIsBehind'
    <3>1. /\ local' = local /\ op'[p].phase = "idle"
          /\ \A q \in Operators \ {p} : op'[q] = op[q]
      BY <1>1, <2>10 DEF NotConfirmed, readModel, KitchenType, NoCall
    <3> QED BY <2>2, <2>3, <3>1 DEF KitchenIsBehind
  <2>11. ASSUME NEW p \in Operators, SaveConfirmed(p)
         PROVE  KitchenIsBehind'
    <3>1. PICK o, t : o = op[p].order /\ t = op[p].at
      OBVIOUS
    <3>2. /\ op'[p].phase = "idle" /\ op[p].phase # "idle"
          /\ \A q \in Operators \ {p} : op'[q] = op[q]
      BY <1>1, <2>11 DEF SaveConfirmed, KitchenType, NoCall
    <3>3. /\ o \in Orders /\ local'[o].at = t
          /\ \A o2 \in Orders \ {o} : local'[o2] = local[o2]
      BY <1>1, <2>11, <3>1, <3>2
         DEF SaveConfirmed, KitchenType, RequestsFit, RequestFits
    <3>4. Reflects(o, t)
      BY <3>1, <3>2 DEF KitchenIsBehind
    <3>5. Reflects(o, t)'
      BY <1>1, <2>1, <3>4, ReflectsLasts
    <3> QED BY <2>2, <2>3, <3>2, <3>3, <3>5 DEF KitchenIsBehind, Reflects
  <2>12. CASE SaveSnapshot
    <3>1. worker.saving \in Events /\ worker.saving \in processed'
      BY <1>1, <2>12 DEF SaveSnapshot, SyncType, Settle
    <3>2. PICK o, t : o = journal[worker.saving].order /\ t = journal[worker.saving].at
      OBVIOUS
    <3>3. /\ o \in Orders /\ local'[o].at = t /\ op' = op
          /\ \A o2 \in Orders \ {o} : local'[o2] = local[o2]
          /\ t \in Int
      BY <1>1, <2>12, <3>1, <3>2, EventFacts DEF SaveSnapshot, KitchenType, Snapshot
    <3>4. Reflects(o, t)'
      <4>1. journal'[worker.saving] = journal[worker.saving]
        BY <3>1 DEF PlatformLasts
      <4>2. PICK i \in processed' : journal'[i].order = o /\ t <= journal'[i].at
        BY <3>1, <3>2, <3>3, <4>1
      <4> QED BY <4>2 DEF Reflects
    <3> QED BY <2>2, <2>3, <3>3, <3>4 DEF KitchenIsBehind, Reflects
  <2> QED BY <1>3, <2>5, <2>6, <2>7, <2>8, <2>9, <2>10, <2>11, <2>12, <2>13
          DEF Next, Sync, PlatformActs
<1> QED BY <1>2, <1>3

\* A request that a step does not touch, though its order may move.
LEMMA OutdatedLasts ==
  ASSUME VenueInv, PlatformInv', PlatformLasts, KitchenIsBehind, TimesAreVersions,
         NEW p \in Operators, OutdatedOrOpen(p), op'[p] = op[p]
  PROVE  OutdatedOrOpen(p)'
<1> SUFFICES ASSUME op'[p].phase # "idle",
                    op'[p].at = Len(history'[op'[p].order])
             PROVE  /\ op'[p].phase = "call"
                    /\ CanChangeOrderStatus(Last(history'[op'[p].order]),
                                            op'[p].status)
  BY DEF OutdatedOrOpen
<1>1. /\ op[p].phase # "idle" /\ op[p].at = Len(history'[op[p].order])
      /\ PlatformInv /\ SyncType /\ KitchenType /\ RequestsFit
  BY DEF VenueInv, SyncInv, KitchenInv
<1>2. PICK o, t : o = op[p].order /\ t = op[p].at
  OBVIOUS
<1>3. o \in Orders /\ t \in Int /\ Reflects(o, t)
  BY <1>1, <1>2 DEF RequestsFit, RequestFits, KitchenType, KitchenIsBehind
<1>4. t <= Len(history[o])
  BY <1>1, <1>3, ReflectedIsPast
<1>5. Len(history'[o]) = Len(history[o])
  <2>1. Len(history[o]) \in Nat /\ Len(history'[o]) \in Nat
    BY <1>1, <1>3, EventFacts, LenProperties DEF PlatformInv, PlatformType
  <2> QED BY <1>1, <1>2, <1>3, <1>4, <2>1 DEF PlatformLasts
<1>6. Last(history'[o]) = Last(history[o])
  BY <1>1, <1>3, <1>5, LastStatusLasts
<1> QED BY <1>1, <1>2, <1>5, <1>6 DEF OutdatedOrOpen

\* The status that an operator may ask for has not been taken yet.
LEMMA NextStatusIsNew ==
  ASSUME PlatformInv, NEW o \in Orders, NEW s \in Status, history[o] # <<>>,
         CanChangeOrderStatus(Last(history[o]), s)
  PROVE  ~Took(o, s)
<1> SUFFICES ASSUME Took(o, s) PROVE FALSE
  OBVIOUS
<1> DEFINE k == Len(history[o])
<1>1. /\ history[o] \in Seq(Status) /\ k \in 1 .. k /\ k \in Nat
      /\ Last(history[o]) = history[o][k] /\ DOMAIN history[o] = 1 .. k
  BY EventFacts, LenProperties
<1>2. PICK n \in 1 .. k : history[o][n] = s
  BY <1>1 DEF Took
<1>3. history[o][k] \in Status
  BY <1>1, ElementOfSeq
<1>4. LegalMove(history[o][k], s)
  BY <1>1 DEF CanChangeOrderStatus, CanVenueAdvanceOrder, LegalMove
<1>5. Rank(history[o][k]) < Rank(s)
  BY <1>3, <1>4, LegalMovesAscend
<1>6. n = k \/ Rank(s) < Rank(history[o][k])
  BY <1>1, <1>2 DEF PlatformInv, HistoriesAscend
<1>7. Rank(history[o][k]) \in Int /\ Rank(s) \in Int
  BY DEF Rank
<1> QED BY <1>2, <1>5, <1>6, <1>7

LEMMA RequestsStayOutdated ==
  ASSUME VenueInv, PlatformInv', PlatformLasts, KitchenIsBehind, TimesAreVersions,
         NewestStampIsTrue, RequestsAreOutdated, [Next]_vars
  PROVE  RequestsAreOutdated'
<1>1. /\ PlatformInv /\ SyncType /\ KitchenInv /\ KitchenType /\ RequestsFit
  BY DEF VenueInv, SyncInv, KitchenInv
<1>2. ASSUME NEW p \in Operators, op'[p] = op[p] \/ op'[p] = NoCall
      PROVE  OutdatedOrOpen(p)'
  <2>1. OutdatedOrOpen(p)
    BY DEF RequestsAreOutdated, OutdatedOrOpen
  <2> QED BY <1>2, <2>1, OutdatedLasts DEF OutdatedOrOpen, NoCall
<1>3. ASSUME \A p \in Operators : op'[p] = op[p] \/ op'[p] = NoCall
      PROVE  RequestsAreOutdated'
  BY <1>2, <1>3 DEF RequestsAreOutdated, OutdatedOrOpen
<1>4. ASSUME NEW o \in Orders, PlatformActs(o)
      PROVE  RequestsAreOutdated'
  BY <1>3, <1>4, PlatformAlone
<1>11. ASSUME NEW p \in Operators, Arrive(p)
      PROVE  RequestsAreOutdated'
  BY <1>3, <1>11 DEF Arrive
<1>5. ASSUME NEW o \in Orders, NEW status \in Status, LateCommand(o, status)
      PROVE  RequestsAreOutdated'
  BY <1>3, <1>5 DEF LateCommand
<1>6. CASE PushMenu \/ Pull \/ PullFails \/ SaveSnapshot \/ SaveCursor
           \/ (\E e \in Upcoming : ProcessEvent(e)) \/ UNCHANGED vars
  BY <1>3, <1>6 DEF PushMenu, Pull, PullFails, SaveSnapshot, SaveCursor,
                    ProcessEvent, vars
<1>7. CASE Restart
  BY <1>3, <1>7 DEF Restart
<1>8. ASSUME NEW p \in Operators, NotConfirmed(p) \/ SaveConfirmed(p)
      PROVE  RequestsAreOutdated'
  <2>1. op' = [op EXCEPT ![p] = NoCall]
    BY <1>8 DEF NotConfirmed, SaveConfirmed
  <2> QED BY <1>1, <1>3, <2>1 DEF KitchenType
<1>9. ASSUME NEW p \in Operators, NEW o \in Orders, NEW status \in Status,
             StartUpdate(p, o, status)
      PROVE  RequestsAreOutdated'
  <2>1. /\ op'[p] = [phase |-> "call", order |-> o, status |-> status,
                     at |-> local[o].at]
        /\ \A q \in Operators \ {p} : op'[q] = op[q]
        /\ history' = history /\ local[o] # None
        /\ CanChangeOrderStatus(local[o].status, status)
    BY <1>1, <1>9 DEF StartUpdate, platform, KitchenType
  <2>2. LastAt(o) = Len(history[o])
    BY <1>1, LastAtIsLength
  <2>3. OutdatedOrOpen(p)'
    BY <2>1, <2>2 DEF OutdatedOrOpen, NewestStampIsTrue
  <2> QED BY <1>2, <2>1, <2>3 DEF RequestsAreOutdated, OutdatedOrOpen
<1>10. ASSUME NEW p \in Operators, Confirmed(p)
       PROVE  RequestsAreOutdated'
  <2>1. PICK o, s, t : o = op[p].order /\ s = op[p].status /\ t = op[p].at
    OBVIOUS
  <2>2. /\ op[p].phase = "call" /\ answer[<<o, s>>] # None /\ history' = history
        /\ op' = [op EXCEPT ![p] = [op[p] EXCEPT !.phase = "save"]]
    BY <1>10, <2>1 DEF Confirmed, platform
  <2>3. /\ op'[p].phase = "save" /\ op'[p].order = o /\ op'[p].at = t
        /\ \A q \in Operators \ {p} : op'[q] = op[q]
    BY <1>1, <2>1, <2>2 DEF KitchenType
  <2>4. o \in Orders /\ s \in Status /\ t \in Int /\ Reflects(o, t)
    BY <1>1, <2>1, <2>2 DEF RequestsFit, RequestFits, KitchenType, KitchenIsBehind
  <2>5. t <= Len(history[o]) /\ Len(history[o]) \in Nat /\ history[o] # <<>>
    <3>1. PICK i \in processed : journal[i].order = o
      BY <2>4 DEF Reflects
    <3>2. journal[i].version \in 1 .. Len(history[o])
      BY <1>1, <2>4, <3>1, EventFacts DEF SyncType
    <3> QED BY <1>1, <2>4, <3>2, ReflectedIsPast, EventFacts, EmptySeq
  <2>6. t # Len(history'[o])
    <3>1. Took(o, s)
      BY <1>1, <2>2, <2>4 DEF PlatformInv, AnswersAreTaken
    <3>2. ~CanChangeOrderStatus(Last(history[o]), s)
      BY <1>1, <2>4, <2>5, <3>1, NextStatusIsNew
    <3> QED BY <2>1, <2>2, <3>2 DEF RequestsAreOutdated, OutdatedOrOpen
  <2>7. OutdatedOrOpen(p)'
    BY <2>3, <2>6 DEF OutdatedOrOpen
  <2> QED BY <1>2, <2>3, <2>7 DEF RequestsAreOutdated, OutdatedOrOpen
<1> QED BY <1>4, <1>5, <1>6, <1>7, <1>8, <1>9, <1>10, <1>11
        DEF Next, Sync, PlatformActs

\* LastAtIsLength in the state after a step.
LEMMA LastAtIsLengthAfter ==
  PlatformInv' /\ TimesAreVersions' =>
    \A o \in Orders : LastAt(o)' = Len(history'[o])
<1>1. PlatformInv /\ TimesAreVersions =>
        \A o \in Orders : LastAt(o) = Len(history[o])
  BY LastAtIsLength
<1>2. (PlatformInv /\ TimesAreVersions =>
         \A o \in Orders : LastAt(o) = Len(history[o]))'
  BY <1>1, PTL
<1> QED BY <1>2

LEMMA NewestStampStays ==
  ASSUME VenueInv, PlatformInv', PlatformLasts, KitchenIsBehind, TimesAreVersions,
         TimesAreVersions', NewestStampIsTrue, RequestsAreOutdated, [Next]_vars
  PROVE  NewestStampIsTrue'
<1>1. /\ PlatformInv /\ SyncType /\ KitchenInv /\ KitchenType /\ RequestsFit
  BY DEF VenueInv, SyncInv, KitchenInv
<1>2. ASSUME NEW o \in Orders
      PROVE  /\ LastAt(o) = Len(history[o]) /\ LastAt(o)' = Len(history'[o])
             /\ Len(history[o]) \in Nat /\ Len(history'[o]) \in Nat
             /\ Len(history[o]) <= Len(history'[o])
  <2>1. LastAt(o) = Len(history[o])
    BY <1>1, LastAtIsLength
  <2>2. LastAt(o)' = Len(history'[o])
    BY <1>1, LastAtIsLengthAfter
  <2>3. history[o] \in Seq(Status) /\ history'[o] \in Seq(Status)
    BY <1>1 DEF PlatformInv, PlatformType
  <2> QED BY <2>1, <2>2, <2>3, LenProperties DEF PlatformLasts
<1> DEFINE True(o) == local'[o] # None /\ local'[o].at >= LastAt(o)'
                        => local'[o].status = Last(history'[o])
<1>3. ASSUME NEW o \in Orders, local'[o] = local[o]
      PROVE  True(o)
  <2> SUFFICES ASSUME local'[o] # None, local'[o].at >= Len(history'[o])
               PROVE  local'[o].status = Last(history'[o])
    BY <1>2
  <2>1. PICK t : t = local[o].at
    OBVIOUS
  <2>2. t \in Int /\ Reflects(o, t)
    BY <1>1, <1>3, <2>1 DEF KitchenType, KitchenIsBehind
  <2>3. t <= Len(history[o])
    BY <1>1, <2>2, ReflectedIsPast
  <2>4. Len(history'[o]) = Len(history[o])
    BY <1>2, <1>3, <2>1, <2>2, <2>3
  <2>5. Last(history'[o]) = Last(history[o])
    BY <1>1, <2>4, LastStatusLasts
  <2>6. local[o].status = Last(history[o])
    BY <1>2, <1>3, <2>4 DEF NewestStampIsTrue
  <2> QED BY <1>3, <2>5, <2>6
<1>4. ASSUME \A o \in Orders : True(o)
      PROVE  NewestStampIsTrue'
  BY <1>4 DEF NewestStampIsTrue
<1> HIDE DEF True
<1>5. ASSUME local' = local
      PROVE  NewestStampIsTrue'
  BY <1>3, <1>4, <1>5
<1>6. ASSUME NEW o \in Orders, PlatformActs(o)
      PROVE  NewestStampIsTrue'
  BY <1>5, <1>6, PlatformAlone
<1>7. ASSUME NEW o \in Orders, NEW status \in Status, LateCommand(o, status)
      PROVE  NewestStampIsTrue'
  BY <1>5, <1>7 DEF LateCommand, readModel
<1>8. CASE PushMenu \/ Pull \/ PullFails \/ SaveCursor
           \/ (\E e \in Upcoming : ProcessEvent(e)) \/ UNCHANGED vars
  BY <1>5, <1>8 DEF PushMenu, Pull, PullFails, SaveCursor, ProcessEvent,
                    vars, readModel
<1>9. ASSUME NEW p \in Operators,
             \/ Arrive(p) \/ Confirmed(p) \/ NotConfirmed(p)
             \/ \E o \in Orders, status \in Status : StartUpdate(p, o, status)
      PROVE  NewestStampIsTrue'
  BY <1>5, <1>9 DEF Arrive, Confirmed, NotConfirmed, StartUpdate, readModel
<1>10. ASSUME NEW p \in Operators, SaveConfirmed(p)
       PROVE  NewestStampIsTrue'
  <2>1. PICK o : o = op[p].order
    OBVIOUS
  <2>2. op[p].phase = "save" /\ o \in Orders
    BY <1>1, <1>10, <2>1 DEF SaveConfirmed, RequestsFit, RequestFits
  <2>3. /\ local'[o].at = op[p].at /\ history' = history
        /\ \A o2 \in Orders \ {o} : local'[o2] = local[o2]
    BY <1>1, <1>10, <2>1, <2>2 DEF SaveConfirmed, KitchenType, platform
  <2>4. op[p].at < Len(history[o])
    <3>1. op[p].at # Len(history[o])
      BY <2>1, <2>2 DEF RequestsAreOutdated, OutdatedOrOpen
    <3>2. PICK t \in Int : t = op[p].at
      BY <1>1 DEF KitchenType
    <3>3. t <= Len(history[o])
      BY <1>1, <2>1, <2>2, <3>2, ReflectedIsPast DEF KitchenIsBehind
    <3> QED BY <1>2, <2>2, <3>1, <3>2, <3>3
  <2>5. True(o)
    <3>1. op[p].at \in Int
      BY <1>1 DEF KitchenType
    <3> QED BY <1>2, <2>2, <2>3, <2>4, <3>1 DEF True
  <2> QED BY <1>3, <1>4, <2>3, <2>5
<1>11. CASE SaveSnapshot
  <2>1. worker.saving \in Events
    BY <1>1, <1>11 DEF SaveSnapshot, SyncType
  <2>2. PICK e, o : e = journal[worker.saving] /\ o = e.order
    OBVIOUS
  <2>3. o \in Orders /\ e.at = e.version
    BY <1>1, <2>1, <2>2, EventFacts DEF TimesAreVersions
  <2>4. /\ local'[o] = Snapshot(e) /\ history' = history
        /\ \A o2 \in Orders \ {o} : local'[o2] = local[o2]
    BY <1>1, <1>11, <2>2, <2>3 DEF SaveSnapshot, KitchenType, platform
  <2>5. Last(history[o]) = history[o][Len(history[o])]
    BY <1>1, <2>3, EventFacts
  <2>6. True(o)
    <3>1. /\ local'[o].at = e.at
          /\ local'[o].status = history[o][e.version]
      BY <2>2, <2>4 DEF Snapshot
    <3>2. e.version \in 1 .. Len(history[o])
      BY <1>1, <2>1, <2>2, <2>3, EventFacts
    <3>3. local'[o].at >= LastAt(o)' => e.version = Len(history[o])
      BY <1>2, <2>3, <2>4, <3>1, <3>2
    <3> QED BY <2>4, <2>5, <3>1, <3>3 DEF True
  <2> QED BY <1>3, <1>4, <2>4, <2>6
<1>12. CASE Restart
  <2>1. \A o \in Orders : True(o)
    BY <1>12 DEF Restart, Unseen, True
  <2> QED BY <1>4, <2>1
<1> QED BY <1>6, <1>7, <1>8, <1>9, <1>10, <1>11, <1>12 DEF Next, Sync, PlatformActs

\* Events that are done or passed before another one stay so.
LEMMA DoneBeforeLasts ==
  ASSUME PlatformInv, PlatformLasts, processed \subseteq processed', passed \subseteq passed',
         NEW e \in Events, DoneBefore(e)
  PROVE  DoneBefore(e)'
<1> SUFFICES ASSUME NEW j \in Events', journal'[j].order = journal'[e].order, j < e
             PROVE  j \in processed' \cup passed'
  BY DEF DoneBefore
<1>1. j \in Events
  <2>1. e \in 1 .. Len(journal) /\ Len(journal) \in Nat
    BY EventFacts DEF Events
  <2>2. j \in 1 .. Len(journal')
    BY DEF Events
  <2> QED BY <2>1, <2>2 DEF Events
<1>2. journal'[j] = journal[j] /\ journal'[e] = journal[e]
  BY <1>1 DEF PlatformLasts
<1> QED BY <1>1, <1>2 DEF DoneBefore

\* The products of an order that has an event are settled, and only a push of
\* the menu or a restart changes what the venue can translate.
LEMMA TranslationLasts ==
  ASSUME VenueInv, PlatformLasts, [Next]_vars, ~PushMenu, ~Restart,
         NEW i \in Events
  PROVE  Untranslated(i)' <=> Untranslated(i)
<1>1. /\ PlatformInv /\ KitchenType /\ RequestsFit /\ CatalogueType
  BY DEF VenueInv, KitchenInv
<1>2. journal'[i] = journal[i]
  BY DEF PlatformLasts
<1>3. ASSUME product' = product, mapped' = mapped
      PROVE  Untranslated(i)' <=> Untranslated(i)
  BY <1>2, <1>3 DEF Untranslated
<1>4. ASSUME NEW o \in Orders, PlatformActs(o)
      PROVE  Untranslated(i)' <=> Untranslated(i)
  <2>1. mapped' = mapped
    BY <1>4, PlatformAlone
  <2>2. CASE product' = product
    BY <1>3, <2>1, <2>2
  <2>3. CASE Commit(o) /\ history[o] = <<>>
    <3>1. product' = [product EXCEPT ![o] = menu]
      BY <2>3 DEF Commit
    <3>2. journal[i].order # o
      <4>1. Len(history[o]) = 0
        BY <2>3, EmptySeq
      <4> QED BY <1>1, <4>1, EventFacts
    <3>3. product'[journal[i].order] = product[journal[i].order]
      <4>1. journal[i].order \in Orders
        BY <1>1, EventFacts
      <4> QED BY <1>1, <3>1, <3>2, <4>1 DEF CatalogueType
    <3> QED BY <1>2, <2>1, <3>3 DEF Untranslated
  <2> QED BY <1>4, <2>2, <2>3, PlatformAlone DEF Commit
<1>6. ASSUME NEW o \in Orders, NEW status \in Status, LateCommand(o, status)
      PROVE  Untranslated(i)' <=> Untranslated(i)
  BY <1>3, <1>6, LateAlone
<1>7. ASSUME NEW p \in Operators, Requests(p)
      PROVE  Untranslated(i)' <=> Untranslated(i)
  BY <1>3, <1>7, RequestAlone
<1>8. CASE Pull \/ PullFails \/ SaveSnapshot \/ SaveCursor
           \/ (\E e \in Upcoming : ProcessEvent(e)) \/ UNCHANGED vars
  BY <1>3, <1>8 DEF Pull, PullFails, SaveSnapshot, SaveCursor, ProcessEvent,
                    readModel, platform, vars
<1> QED BY <1>4, <1>6, <1>7, <1>8 DEF Next, Sync, PlatformActs, Requests

\* What comes before the next event of the worker is done: it is not waiting,
\* as its order can be translated, and not on the list, which is in order.
LEMMA UpcomingIsNext ==
  ASSUME VenueInv, DoneInOrder, TimesAreVersions,
         NEW e \in Upcoming, ~Untranslated(e)
  PROVE  DoneBefore(e)
<1> SUFFICES ASSUME NEW j \in Events, journal[j].order = journal[e].order, j < e
             PROVE  j \in processed \cup passed
  BY DEF DoneBefore
<1>1. /\ PlatformInv /\ NumbersFit /\ SyncType /\ WorkerFits
  BY DEF VenueInv, SyncInv
<1>2. /\ e \in worker.todo /\ e \in Events
      /\ worker.phase = "page" => \A f \in worker.todo : journal[e].seq <= journal[f].seq
      /\ worker.phase # "page" =>
           \A f \in worker.todo : journal[e].at <= journal[f].at
  BY <1>1, UpcomingIsListed
<1>3. /\ journal[e].at \in Int /\ journal[j].at \in Int
      /\ journal[e].seq \in Nat /\ journal[j].seq \in Nat
      /\ journal[e].version \in Int /\ journal[j].version \in Int
  BY <1>1, <1>2, EventFacts DEF NumbersFit
<1>4. worker.phase # "idle" /\ e \in Behind(Reached)
  BY <1>1, <1>2 DEF WorkerFits, Handled
<1>5. journal[j].seq < journal[e].seq
  BY <1>1, <1>2 DEF NumbersFit
<1>6. j \in processed \cup pending \cup worker.todo \cup passed
  <2>1. Reached \in Nat
    BY <1>1 DEF Reached, SyncType, NumbersFit
  <2>2. j \in Behind(Reached)
    BY <1>3, <1>4, <1>5, <2>1 DEF Behind
  <2> QED BY <1>1, <2>2 DEF WorkerFits, Handled
<1>7. journal[j].at < journal[e].at
  <2>1. journal[j].version < journal[e].version
    BY <1>1, <1>2 DEF PlatformInv, JournalFits
  <2> QED BY <1>2, <2>1 DEF TimesAreVersions
<1>8. j \notin worker.todo
  BY <1>2, <1>3, <1>5, <1>7
<1>9. j \notin pending \ worker.todo
  BY <1>4 DEF DoneInOrder, Untranslated
<1> QED BY <1>6, <1>8, <1>9

LEMMA DoneStaysInOrder ==
  ASSUME VenueInv, PlatformLasts, DoneInOrder, TimesAreVersions, [Next]_vars
  PROVE  DoneInOrder'
<1>1. /\ PlatformInv /\ SyncInv /\ SyncType /\ WorkerFits
      /\ processed \subseteq Events /\ pending \subseteq Events
      /\ worker.todo \subseteq Events
  BY DEF VenueInv, SyncInv, SyncType
<1>2. /\ \A i \in processed : DoneBefore(i)
      /\ processed \cap pending = {} /\ processed \cap worker.todo = {}
      /\ worker.phase # "idle" => \A i \in pending \ worker.todo : Untranslated(i)
      /\ worker.saving # 0 => DoneBefore(worker.saving)
  BY DEF DoneInOrder
<1>3. ASSUME ~Restart, NEW i \in Events, DoneBefore(i)
      PROVE  DoneBefore(i)'
  BY <1>1, <1>3, OnlyRestartForgets, DoneBeforeLasts
<1>4. ASSUME ~PushMenu, ~Restart, NEW i \in Events, Untranslated(i)
      PROVE  Untranslated(i)'
  BY <1>4, TranslationLasts
<1>5. CASE Restart
  BY <1>5 DEF Restart, DoneInOrder, Asleep
<1>6. CASE PushMenu /\ ~Restart
  <2>1. /\ worker' = [worker EXCEPT !.phase = "retry", !.todo = pending]
        /\ processed' = processed /\ pending' = pending /\ worker.phase = "idle"
    BY <1>6 DEF PushMenu
  <2>2. worker'.todo = pending /\ worker'.saving = 0
    BY <1>1, <2>1 DEF SyncType, WorkerFits
  <2>3. \A i \in processed' : DoneBefore(i)'
    BY <1>1, <1>2, <1>3, <1>6, <2>1
  <2> QED BY <1>2, <2>1, <2>2, <2>3 DEF DoneInOrder
<1>7. ASSUME ~PushMenu, ~Restart, UNCHANGED <<worker, pending, processed>>
      PROVE  DoneInOrder'
  <2>1. \A i \in processed' : DoneBefore(i)'
    BY <1>1, <1>2, <1>3, <1>7
  <2>2. worker'.phase # "idle" =>
          \A i \in pending' \ worker'.todo : Untranslated(i)'
    BY <1>1, <1>2, <1>4, <1>7
  <2>3. worker'.saving # 0 => DoneBefore(worker.saving)'
    <3> SUFFICES ASSUME worker'.saving # 0 PROVE DoneBefore(worker.saving)'
      OBVIOUS
    <3>1. PICK e : e = worker.saving
      OBVIOUS
    <3>2. e \in Events /\ DoneBefore(e) /\ worker'.saving = e
      BY <1>1, <1>2, <1>7, <3>1 DEF SyncType
    <3>3. DoneBefore(e)'
      BY <1>3, <1>7, <3>2
    <3> QED BY <3>2, <3>3 DEF DoneBefore
  <2> QED BY <1>2, <1>7, <2>1, <2>2, <2>3 DEF DoneInOrder
<1>8. ASSUME NEW e \in worker.todo, ~PushMenu, ~Restart, DoneBefore(e), Settle(e)
      PROVE  DoneInOrder'
  <2>1. /\ processed' = processed \cup {e} /\ pending' = pending \ {e}
        /\ worker'.phase = worker.phase /\ worker'.todo = worker.todo \ {e}
        /\ worker'.saving = 0
    BY <1>1, <1>8 DEF Settle, Done, SyncType
  <2>2. \A i \in processed' : DoneBefore(i)'
    BY <1>1, <1>2, <1>3, <1>8, <2>1
  <2>3. worker'.phase # "idle" =>
          \A i \in pending' \ worker'.todo : Untranslated(i)'
    BY <1>1, <1>2, <1>4, <1>8, <2>1
  <2> QED BY <1>2, <2>1, <2>2, <2>3 DEF DoneInOrder
<1>9. ASSUME NEW o \in Orders, PlatformActs(o), ~PushMenu, ~Restart
      PROVE  DoneInOrder'
  BY <1>7, <1>9, PlatformAlone
<1>10. ASSUME NEW o \in Orders, NEW status \in Status, LateCommand(o, status),
              ~PushMenu, ~Restart
       PROVE  DoneInOrder'
  BY <1>7, <1>10, LateAlone
<1>11. ASSUME NEW p \in Operators, ~PushMenu, ~Restart, Requests(p)
       PROVE  DoneInOrder'
  BY <1>7, <1>11, RequestAlone
<1>12. CASE UNCHANGED vars /\ ~PushMenu /\ ~Restart
  BY <1>7, <1>12 DEF vars, readModel
<1>13. CASE Pull /\ ~PushMenu /\ ~Restart
  <2>1. /\ worker' = [worker EXCEPT !.phase = "page", !.todo = Page,
                                   !.next = LastOfPage]
        /\ pending' = pending /\ processed' = processed
        /\ worker.phase = "retry" /\ worker.todo = {}
    BY <1>13 DEF Pull, LastOfPage, readModel
  <2>2. worker.saving = 0
    BY <1>1, <2>1 DEF WorkerFits
  <2>3. worker'.todo = Page /\ worker'.saving = 0
    BY <1>1, <2>1, <2>2 DEF SyncType
  <2>4. processed \cap Page = {}
    <3>1. \A i \in processed : journal[i].seq <= cursor
      BY <1>1, <2>1 DEF WorkerFits, Handled, Behind, Reached
    <3>2. \A i \in Page : journal[i].seq > cursor
      BY DEF Page, Unread
    <3>3. \A i \in processed : journal[i].seq \in Nat /\ cursor \in Nat
      BY <1>1 DEF VenueInv, NumbersFit, SyncType
    <3> QED BY <3>1, <3>2, <3>3
  <2>5. processed' \cap worker'.todo = {}
    BY <2>1, <2>3, <2>4
  <2>6. \A i \in processed' : DoneBefore(i)'
    BY <1>1, <1>2, <1>3, <1>13, <2>1
  <2>7. \A i \in pending' \ worker'.todo : Untranslated(i)'
    BY <1>1, <1>2, <1>4, <1>13, <2>1
  <2> QED BY <1>2, <2>1, <2>3, <2>5, <2>6, <2>7 DEF DoneInOrder
<1>14. CASE (PullFails \/ SaveCursor) /\ ~PushMenu /\ ~Restart
  <2>1. worker' = Asleep /\ pending' = pending /\ processed' = processed
    BY <1>14 DEF PullFails, SaveCursor, readModel
  <2>2. \A i \in processed' : DoneBefore(i)'
    BY <1>1, <1>2, <1>3, <1>14, <2>1
  <2> QED BY <1>2, <2>1, <2>2 DEF DoneInOrder, Asleep
<1>15. CASE SaveSnapshot /\ ~PushMenu /\ ~Restart
  <2>1. worker.saving \in worker.todo /\ DoneBefore(worker.saving)
        /\ Settle(worker.saving)
    BY <1>1, <1>2, <1>15 DEF SaveSnapshot, WorkerFits
  <2> QED BY <1>8, <1>15, <2>1
<1>16. ASSUME NEW e \in Upcoming, ProcessEvent(e), ~PushMenu, ~Restart
       PROVE  DoneInOrder'
  <2>1. e \in worker.todo /\ e \in Events /\ e \notin processed
    BY <1>1, <1>2, UpcomingIsListed
  <2>2. CASE Untranslated(e) /\ Postpone(e)
    <3>1. /\ pending' = pending \cup {e} /\ processed' = processed
          /\ worker'.phase = worker.phase /\ worker'.todo = worker.todo \ {e}
          /\ worker'.saving = 0
      BY <1>1, <2>2 DEF Postpone, Done, SyncType
    <3>2. \A i \in processed' : DoneBefore(i)'
      BY <1>1, <1>2, <1>3, <1>16, <3>1
    <3>3. worker'.phase # "idle" =>
            \A i \in pending' \ worker'.todo : Untranslated(i)'
      BY <1>1, <1>2, <1>4, <1>16, <2>1, <2>2, <3>1
    <3> QED BY <1>2, <2>1, <3>1, <3>2, <3>3 DEF DoneInOrder
  <2>3. CASE ~Untranslated(e) /\ Settle(e)
    <3>1. DoneBefore(e)
      BY <2>3, UpcomingIsNext
    <3> QED BY <1>8, <1>16, <2>1, <2>3, <3>1
  <2>4. CASE /\ ~Untranslated(e) /\ worker' = [worker EXCEPT !.saving = e]
             /\ UNCHANGED <<pending, processed>>
    <3>1. DoneBefore(e)
      BY <2>4, UpcomingIsNext
    <3>2. /\ worker'.phase = worker.phase /\ worker'.todo = worker.todo
          /\ worker'.saving = e
      BY <1>1, <2>4 DEF SyncType
    <3>3. \A i \in processed' : DoneBefore(i)'
      BY <1>1, <1>2, <1>3, <1>16, <2>4
    <3>4. worker'.phase # "idle" =>
            \A i \in pending' \ worker'.todo : Untranslated(i)'
      BY <1>1, <1>2, <1>4, <1>16, <2>4, <3>2
    <3>5. DoneBefore(worker.saving)'
      <4>1. DoneBefore(e)'
        BY <1>3, <1>16, <2>1, <3>1
      <4> QED BY <3>2, <4>1 DEF DoneBefore
    <3> QED BY <1>2, <2>4, <3>2, <3>3, <3>4, <3>5 DEF DoneInOrder
  <2> QED BY <1>16, <2>1, <2>2, <2>3, <2>4 DEF ProcessEvent, Untranslated
<1> QED BY <1>5, <1>6, <1>9, <1>10, <1>11, <1>12, <1>13, <1>14, <1>15, <1>16
        DEF Next, Sync, PlatformActs, Requests

LEMMA SteadyStep ==
  ASSUME MaxSlips = 0, VenueInv, SteadyInv, [Next]_vars
  PROVE  SteadyInv'
<1>1. Advance /\ PlatformInv' /\ PlatformLasts
  BY Advances, AdvanceLasts DEF VenueInv
<1>2. PlatformInv
  BY DEF VenueInv
<1>3. TimesAreVersions'
  BY <1>1, <1>2, TimesStayVersions DEF SteadyInv
<1>4. KitchenIsBehind'
  BY <1>1, KitchenStaysBehind DEF SteadyInv
<1>5. RequestsAreOutdated'
  BY <1>1, RequestsStayOutdated DEF SteadyInv
<1>6. DoneInOrder'
  BY <1>1, DoneStaysInOrder DEF SteadyInv
<1>7. NewestStampIsTrue'
  BY <1>1, <1>3, NewestStampStays DEF SteadyInv
<1> QED BY <1>3, <1>4, <1>5, <1>6, <1>7 DEF SteadyInv

THEOREM SteadyInductive ==
  ASSUME MaxSlips = 0 PROVE Spec => []SteadyInv
<1>1. Init => SteadyInv
  <2> SUFFICES ASSUME Init PROVE SteadyInv
    OBVIOUS
  <2>1. /\ journal = <<>> /\ processed = {} /\ pending = {} /\ worker = Asleep
        /\ local = Unseen /\ op = [p \in Operators |-> NoCall] /\ Len(<<>>) = 0
    BY EmptySeq DEF Init
  <2>2. TimesAreVersions
    BY <2>1 DEF TimesAreVersions, Events
  <2>3. KitchenIsBehind /\ NewestStampIsTrue
    BY <2>1 DEF KitchenIsBehind, NewestStampIsTrue, Unseen, NoCall
  <2>4. RequestsAreOutdated
    BY <2>1 DEF RequestsAreOutdated, OutdatedOrOpen, NoCall
  <2>5. DoneInOrder
    BY <2>1 DEF DoneInOrder, Asleep
  <2> QED BY <2>2, <2>3, <2>4, <2>5 DEF SteadyInv
<1>2. VenueInv /\ SteadyInv /\ [Next]_vars => SteadyInv'
  BY SteadyStep
<1> QED BY <1>1, <1>2, VenueInductive, PTL DEF Spec

\* Where the clock advances from change to change, an order that carries the
\* platform's newest time shows the platform's status: an operator's own write
\* is always stamped as older than the change it made.
THEOREM NewestIsTrue ==
  ASSUME MaxSlips = 0 PROVE Spec => []NewestStampIsTrue
<1>1. SteadyInv => NewestStampIsTrue
  BY DEF SteadyInv
<1> QED BY <1>1, SteadyInductive, PTL

\* Where the clock advances, the worker takes up no event in vain: the mark of
\* done events and the comparison of times drop no change, although pages,
\* retries and operators' writes to the same order interleave at will.
THEOREM EventsAreNews ==
  ASSUME MaxSlips = 0 PROVE Spec => []EveryEventIsNews
<1>1. VenueInv /\ SteadyInv => EveryEventIsNews
  <2> SUFFICES ASSUME VenueInv, SteadyInv, worker.saving = 0, NEW e \in Upcoming
               PROVE  e \notin processed /\ Newer(journal[e])
    BY DEF EveryEventIsNews
  <2>1. /\ PlatformInv /\ SyncType /\ KitchenType /\ DoneInOrder
        /\ KitchenIsBehind /\ TimesAreVersions
    BY DEF VenueInv, SyncInv, KitchenInv, SteadyInv
  <2>2. e \in worker.todo /\ e \in Events
    BY <2>1, UpcomingIsListed
  <2>3. e \notin processed
    BY <2>1, <2>2 DEF DoneInOrder
  <2>4. PICK o : o = journal[e].order
    OBVIOUS
  <2>5. ASSUME local[o] # None PROVE local[o].at < journal[e].at
    <3>1. o \in Orders /\ local[o].at \in Int
      BY <2>1, <2>2, <2>4, <2>5, EventFacts DEF KitchenType
    <3>2. PICK i \in processed : /\ journal[i].order = o
                                 /\ local[o].at <= journal[i].at
      BY <2>1, <2>5, <3>1 DEF KitchenIsBehind, Reflects
    <3>3. i \in Events /\ i # e
      BY <2>1, <2>3 DEF SyncType
    <3>4. ~(e < i)
      <4>1. e \notin passed
        BY <2>2 DEF VenueInv, SyncInv, WorkerFits, Handled
      <4> QED BY <2>1, <2>2, <2>3, <2>4, <3>2, <3>3, <4>1 DEF DoneInOrder, DoneBefore
    <3>5. i < e
      BY <2>1, <2>2, <3>3, <3>4, EventFacts
    <3>6. journal[i].version < journal[e].version
      BY <2>1, <2>2, <2>4, <3>2, <3>3, <3>5 DEF PlatformInv, JournalFits
    <3>7. journal[i].at < journal[e].at
      BY <2>1, <2>2, <3>3, <3>6 DEF TimesAreVersions
    <3>8. journal[i].at \in Int /\ journal[e].at \in Int
      BY <2>1, <2>2, <3>3, EventFacts
    <3> QED BY <3>1, <3>2, <3>7, <3>8
  <2> QED BY <2>3, <2>4, <2>5 DEF Newer
<1> QED BY <1>1, VenueInductive, SteadyInductive, PTL

-----------------------------------------------------------------------------
(* Where no reply reaches an operator. *)

\* What an event shows of its order does not change.
LEMMA SnapshotLasts ==
  ASSUME PlatformInv, PlatformLasts, NEW i \in Events
  PROVE  journal'[i] = journal[i] /\ Snapshot(journal[i])' = Snapshot(journal[i])
<1>1. journal'[i] = journal[i]
  BY DEF PlatformLasts
<1>2. PICK o \in Orders : o = journal[i].order
  BY EventFacts
<1>3. journal[i].version \in 1 .. Len(history[o])
  BY <1>2, EventFacts
<1>4. history'[o][journal[i].version] = history[o][journal[i].version]
  BY <1>3 DEF PlatformLasts
<1> QED BY <1>1, <1>2, <1>4 DEF Snapshot

\* The kitchen keeps showing events when its orders stay as they are.
LEMMA KitchenShowsLasts ==
  ASSUME PlatformInv, PlatformLasts, SyncType, KitchenShowsEvents,
         processed \subseteq processed', local' = local,
         \A i \in processed' \ processed :
           /\ i \in Events /\ local[journal[i].order] # None
           /\ journal[i].at <= local[journal[i].order].at
  PROVE  KitchenShowsEvents'
<1>1. ASSUME NEW o \in Orders, local'[o] # None
      PROVE  \E i \in processed' : /\ journal'[i].order = o
                                   /\ local'[o] = Snapshot(journal[i])'
  <2>1. PICK i \in processed :
          journal[i].order = o /\ local[o] = Snapshot(journal[i])
    BY <1>1 DEF KitchenShowsEvents
  <2>2. journal'[i] = journal[i] /\ Snapshot(journal[i])' = Snapshot(journal[i])
    BY <2>1, SnapshotLasts DEF SyncType
  <2>3. i \in processed'
    OBVIOUS
  <2> QED BY <2>1, <2>2, <2>3
<1>2. ASSUME NEW i \in processed'
      PROVE  /\ local'[journal'[i].order] # None
             /\ journal'[i].at <= local'[journal'[i].order].at
  <2>1. i \in Events
    BY DEF SyncType
  <2>2. journal'[i] = journal[i]
    BY <2>1 DEF PlatformLasts
  <2> QED BY <2>2 DEF KitchenShowsEvents
<1> QED BY <1>1, <1>2 DEF KitchenShowsEvents

LEMMA UnsavedStep ==
  ASSUME RepliesArrive = FALSE, VenueInv, Unsaved, [Next]_vars
  PROVE  Unsaved' /\ (local' = local \/ SaveSnapshot \/ Restart)
<1>1. op \in [Operators ->
        [phase : {"idle", "call", "save"}, order : Orders \cup {None},
         at : Int, status : Status \cup {None}]]
  BY DEF VenueInv, KitchenInv, KitchenType
<1>2. ASSUME op' = op
      PROVE  Unsaved'
  BY <1>2 DEF Unsaved
<1>3. ASSUME NEW p \in Operators, NEW new, new.phase # "save",
             op' = [op EXCEPT ![p] = new]
      PROVE  Unsaved'
  BY <1>1, <1>3 DEF Unsaved
<1>4. ASSUME NEW o \in Orders, PlatformActs(o)
      PROVE  Unsaved' /\ local' = local
  BY <1>2, <1>4, PlatformAlone
<1>12. ASSUME NEW p \in Operators, Arrive(p)
      PROVE  Unsaved' /\ local' = local
  BY <1>2, <1>12 DEF Arrive, readModel
<1>5. ASSUME NEW o \in Orders, NEW status \in Status, LateCommand(o, status)
      PROVE  Unsaved' /\ local' = local
  BY <1>2, <1>5 DEF LateCommand, readModel
<1>6. CASE PushMenu \/ Pull \/ PullFails \/ SaveCursor
           \/ (\E e \in Upcoming : ProcessEvent(e)) \/ UNCHANGED vars
  BY <1>2, <1>6 DEF PushMenu, Pull, PullFails, SaveCursor, ProcessEvent,
                    readModel, vars
<1>7. ASSUME NEW p \in Operators, NEW o \in Orders, NEW status \in Status,
             StartUpdate(p, o, status)
      PROVE  Unsaved' /\ local' = local
  BY <1>3, <1>7 DEF StartUpdate, readModel
<1>8. ASSUME NEW p \in Operators, NotConfirmed(p)
      PROVE  Unsaved' /\ local' = local
  BY <1>3, <1>8 DEF NotConfirmed, readModel, NoCall
<1>9. ASSUME NEW p \in Operators PROVE ~Confirmed(p) /\ ~SaveConfirmed(p)
  BY DEF Confirmed, SaveConfirmed, Unsaved
<1>10. CASE SaveSnapshot
  BY <1>2, <1>10 DEF SaveSnapshot
<1>11. CASE Restart
  BY <1>11 DEF Restart, Unsaved, NoCall
<1> QED BY <1>4, <1>5, <1>6, <1>7, <1>8, <1>9, <1>10, <1>11, <1>12
        DEF Next, Sync, PlatformActs

LEMMA WorkerAloneStep ==
  ASSUME RepliesArrive = FALSE, VenueInv, WorkerAlone, [Next]_vars
  PROVE  WorkerAlone'
<1>1. /\ PlatformInv /\ SyncType /\ WorkerFits /\ KitchenType
      /\ Unsaved /\ KitchenShowsEvents /\ SavingIsNews
  BY DEF VenueInv, SyncInv, KitchenInv, WorkerAlone
<1>2. PlatformInv' /\ PlatformLasts
  BY Advances, AdvanceLasts DEF VenueInv
<1>3. Restart \/ processed \subseteq processed'
  BY OnlyRestartForgets
<1>4. Unsaved' /\ (local' = local \/ SaveSnapshot \/ Restart)
  BY <1>1, UnsavedStep
<1>5. CASE Restart
  <2>1. local' = Unseen /\ processed' = {} /\ worker' = Asleep
    BY <1>5 DEF Restart
  <2> QED BY <1>4, <2>1 DEF WorkerAlone, KitchenShowsEvents, SavingIsNews,
                            Unseen, Asleep
<1>6. CASE local' = local /\ ~SaveSnapshot /\ ~Restart
  <2>1. /\ \A i \in processed' \ processed :
             /\ i \in Events /\ local[journal[i].order] # None
             /\ ~(local[journal[i].order].at < journal[i].at)
        /\ worker'.saving \notin {0, worker.saving} =>
             worker'.saving \in Events /\ Newer(journal[worker'.saving])
    BY <1>6, OnlyTheWorkerHandles
  <2>2. ASSUME NEW i \in processed' \ processed
        PROVE  /\ i \in Events /\ local[journal[i].order] # None
               /\ journal[i].at <= local[journal[i].order].at
    <3>1. i \in Events /\ local[journal[i].order] # None
      BY <2>1
    <3>2. journal[i].order \in Orders /\ journal[i].at \in Int
      BY <1>1, <3>1, EventFacts
    <3>3. local[journal[i].order].at \in Int
      BY <1>1, <3>1, <3>2 DEF KitchenType
    <3> QED BY <2>1, <3>1, <3>2, <3>3
  <2>3. KitchenShowsEvents'
    BY <1>1, <1>2, <1>3, <1>6, <2>2, KitchenShowsLasts
  <2>4. SavingIsNews'
    <3> SUFFICES ASSUME worker'.saving # 0
                 PROVE  Newer(journal[worker.saving])'
      BY DEF SavingIsNews
    <3>1. PICK e : e = worker'.saving
      OBVIOUS
    <3>2. e \in Events /\ Newer(journal[e])
      BY <1>1, <2>1, <3>1 DEF SavingIsNews, SyncType
    <3>3. journal'[e] = journal[e]
      BY <1>2, <3>2 DEF PlatformLasts
    <3> QED BY <1>6, <3>1, <3>2, <3>3 DEF Newer
  <2> QED BY <1>4, <2>3, <2>4 DEF WorkerAlone
<1>7. CASE SaveSnapshot
  <2>1. PICK e : e = worker.saving
    OBVIOUS
  <2>2. /\ e \in Events /\ Newer(journal[e]) /\ e # 0
        /\ processed' = processed \cup {e} /\ worker'.saving = 0
        /\ UNCHANGED <<history, journal>>
    BY <1>1, <1>7, <2>1
       DEF SaveSnapshot, SyncType, SavingIsNews, Settle, Done, platform
  <2>3. PICK o \in Orders : o = journal[e].order
    BY <1>1, <2>2, EventFacts
  <2>4. /\ local'[o] = Snapshot(journal[e])
        /\ \A q \in Orders \ {o} : local'[q] = local[q]
    BY <1>1, <1>7, <2>1, <2>3 DEF SaveSnapshot, KitchenType
  <2>5. /\ Snapshot(journal[e]) # None
        /\ Snapshot(journal[e]).at = journal[e].at
    BY <1>1, <2>2, SnapshotIsReal, NoneIsNoOrder DEF Snapshot
  <2>6. Events' = Events /\ \A i : Snapshot(journal[i])' = Snapshot(journal[i])
    BY <2>2 DEF Events, Snapshot
  <2>7. ASSUME NEW q \in Orders, local'[q] # None
        PROVE  \E i \in processed' : /\ journal'[i].order = q
                                     /\ local'[q] = Snapshot(journal[i])'
    <3>1. CASE q = o
      BY <2>2, <2>3, <2>4, <2>6, <3>1
    <3>2. CASE q # o
      <4>1. local'[q] = local[q]
        BY <2>4, <3>2
      <4>2. PICK i \in processed :
              journal[i].order = q /\ local[q] = Snapshot(journal[i])
        BY <1>1, <2>7, <4>1 DEF KitchenShowsEvents
      <4> QED BY <2>2, <2>6, <4>1, <4>2
    <3> QED BY <3>1, <3>2
  <2>8. ASSUME NEW i \in processed'
        PROVE  /\ local'[journal'[i].order] # None
               /\ journal'[i].at <= local'[journal'[i].order].at
    <3>1. /\ i \in Events /\ journal'[i] = journal[i]
      BY <1>1, <2>2 DEF SyncType
    <3>2. journal[i].order \in Orders /\ journal[i].at \in Int /\ journal[e].at \in Int
      BY <1>1, <2>2, <3>1, EventFacts
    <3>3. CASE i = e
      BY <2>3, <2>4, <2>5, <3>1, <3>2, <3>3
    <3>4. CASE i # e /\ journal[i].order # o
      BY <1>1, <2>2, <2>4, <3>1, <3>2, <3>4 DEF KitchenShowsEvents
    <3>5. CASE i # e /\ journal[i].order = o
      <4>1. local[o] # None /\ journal[i].at <= local[o].at
        BY <1>1, <2>2, <3>5 DEF KitchenShowsEvents
      <4>2. local[o].at < journal[e].at /\ local[o].at \in Int
        BY <1>1, <2>2, <2>3, <4>1 DEF Newer, KitchenType
      <4>3. journal[i].at <= journal[e].at
        BY <3>2, <4>1, <4>2
      <4> QED BY <2>4, <2>5, <3>1, <3>5, <4>3
    <3> QED BY <3>3, <3>4, <3>5
  <2>9. KitchenShowsEvents'
    BY <2>7, <2>8 DEF KitchenShowsEvents
  <2> QED BY <1>4, <2>2, <2>9 DEF WorkerAlone, SavingIsNews
<1> QED BY <1>4, <1>5, <1>6, <1>7

THEOREM WorkerAloneInductive ==
  ASSUME RepliesArrive = FALSE PROVE Spec => []WorkerAlone
<1>1. Init => WorkerAlone
  BY DEF Init, WorkerAlone, Unsaved, KitchenShowsEvents, SavingIsNews, Unseen,
         Asleep, NoCall
<1>2. VenueInv /\ WorkerAlone /\ [Next]_vars => WorkerAlone'
  BY WorkerAloneStep
<1> QED BY <1>1, <1>2, VenueInductive, PTL DEF Spec

\* Where no reply reaches an operator, the worker alone brings the kitchen up
\* to date: once nothing is unread and nothing waits, the kitchen has every
\* order of which an event was not passed, at the newest time of those events,
\* however often the worker started again, failed, postponed events or lost
\* everything in a restart.
THEOREM QuietMeansConverged ==
  ASSUME RepliesArrive = FALSE PROVE Spec => []ConvergedWhenQuiet
<1>1. VenueInv /\ WorkerAlone /\ CursorPassesNothing => ConvergedWhenQuiet
  <2> SUFFICES ASSUME VenueInv, WorkerAlone, CursorPassesNothing, Quiet,
                      NEW o \in Orders, Readable(o) # {}
               PROVE  \E i \in Readable(o) : /\ IsNewest(i)
                                             /\ local[o] = Snapshot(journal[i])
    BY DEF ConvergedWhenQuiet
  <2>1. /\ PlatformInv /\ SyncType /\ WorkerFits /\ KitchenShowsEvents
    BY DEF VenueInv, SyncInv, WorkerAlone
  <2>2. Readable(o) \subseteq processed
    BY DEF Quiet, CursorPassesNothing, Readable
  <2>3. local[o] # None
    BY <2>1, <2>2 DEF KitchenShowsEvents, Readable
  <2>4. PICK i \in processed :
          journal[i].order = o /\ local[o] = Snapshot(journal[i])
    BY <2>1, <2>3 DEF KitchenShowsEvents
  <2>5. i \in Events /\ i \in Readable(o)
    BY <2>1, <2>4 DEF SyncType, WorkerFits, Handled, Readable
  <2>6. local[o].at = journal[i].at
    BY <2>4 DEF Snapshot
  <2>7. ASSUME NEW j \in Readable(o) PROVE journal[j].at <= journal[i].at
    BY <2>1, <2>2, <2>6, <2>7 DEF KitchenShowsEvents, Readable
  <2>8. IsNewest(i)
    BY <2>4, <2>7 DEF IsNewest
  <2> QED BY <2>4, <2>5, <2>8
<1> QED BY <1>1, VenueInductive, WorkerAloneInductive, NothingIsForgotten, PTL
=============================================================================
