------------------------ MODULE PlatformServerProofs ------------------------
(***************************************************************************)
(* Whoever acts for a venue had a key of that venue while the request was   *)
(* under way, and the status of a reply says the truth about the order book, *)
(* for any number of processes, requests and configurations.                *)
(*                                                                          *)
(* The argument for the first: the table always is what was configured      *)
(* last, and until a request is authenticated every venue that its key      *)
(* opens is noted down.  For the second: every answer in the book tells of   *)
(* an order of the one who gave the command and of a status it went through; *)
(* orders keep their owners and pasts, and commands their answers.           *)
(***************************************************************************)
EXTENDS PlatformServer, SequenceTheorems, TLAPS

Waiting == {"receive", "authenticate"}

\* The table holds the issued keys and the bootstrap row that was written last.
TableAsConfigured ==
  /\ keys = Issued \cup latest
  /\ \A row \in latest : row.id = "bootstrap" /\ row.venue \in Venues

\* What the key of a waiting request opens is known.
OpeningsAreKnown ==
  \A r \in Requests : req[r].phase \in Waiting =>
    OpenedBy(req[r].call, keys) \subseteq req[r].known

KInv ==
  /\ req \in [Requests -> RequestType]
  /\ TableAsConfigured
  /\ OpeningsAreKnown
  /\ CallersAreKnown

-----------------------------------------------------------------------------
\* Most steps leave the table alone, and end requests or move them on.
Harmless ==
  /\ UNCHANGED <<keys, latest>>
  /\ req' \in [Requests -> RequestType]
  /\ \A q \in Requests :
       \/ req'[q] = NoRequest
       \/ /\ req'[q].known = req[q].known
          /\ req'[q].call = req[q].call
          /\ req'[q].venue = req[q].venue
          /\ req'[q].phase \in Waiting => req[q].phase \in Waiting

LEMMA HarmlessKeeps == KInv /\ Harmless => KInv'
<1> SUFFICES ASSUME KInv, Harmless PROVE KInv'
  OBVIOUS
<1>1. TableAsConfigured'
  BY DEF KInv, Harmless, TableAsConfigured
<1>2. ASSUME NEW q \in Requests, req'[q].phase \in Waiting
      PROVE OpenedBy(req'[q].call, keys') \subseteq req'[q].known
  <2>1. req'[q] # NoRequest
    BY <1>2 DEF NoRequest, Waiting
  <2>2. req'[q].known = req[q].known /\ req'[q].call = req[q].call
          /\ req[q].phase \in Waiting
    BY <1>2, <2>1 DEF Harmless
  <2> QED
    BY <2>2 DEF KInv, Harmless, OpeningsAreKnown, OpenedBy
<1>3. ASSUME NEW q \in Requests, req'[q].venue # None
      PROVE req'[q].venue \in req'[q].known
  <2>1. req'[q] # NoRequest
    BY <1>3 DEF NoRequest
  <2> QED
    BY <1>3, <2>1 DEF KInv, Harmless, CallersAreKnown
<1> QED
  BY <1>1, <1>2, <1>3 DEF KInv, Harmless, OpeningsAreKnown, CallersAreKnown

LEMMA NoRequestType == NoRequest \in RequestType
  BY DEF NoRequest, RequestType

LEMMA StatusForType == \A code : StatusFor(code) \in HTTPStatus
  BY DEF StatusFor, HTTPStatus

LEMMA SuccessStatusType == \A c : SuccessStatus(c) \in HTTPStatus
  BY DEF SuccessStatus, HTTPStatus

\* An answer is harmless, whatever its status.
LEMMA AnswerIsHarmless ==
  ASSUME KInv, UNCHANGED <<keys, latest>>, NEW r \in Requests,
         NEW status \in HTTPStatus, Answer(r, status)
  PROVE  Harmless
<1>1. req' \in [Requests -> RequestType]
  <2> DEFINE new == [req[r] EXCEPT !.phase = "reply", !.reply = status]
  <2>1. req[r] \in RequestType
    BY DEF KInv
  <2>2. new \in RequestType
    BY <2>1 DEF RequestType
  <2>3. req' = [req EXCEPT ![r] = new]
    BY DEF KInv, Answer
  <2> HIDE DEF new
  <2> QED
    BY <2>2, <2>3 DEF KInv
<1>2. \A q \in Requests : /\ req'[q].known = req[q].known
                          /\ req'[q].call = req[q].call
                          /\ req'[q].venue = req[q].venue
                          /\ req'[q].phase \in Waiting => req[q].phase \in Waiting
  BY DEF KInv, Answer, RequestType, Waiting
<1> QED
  BY <1>1, <1>2 DEF Harmless

\* So is a process that ends.
LEMMA DieIsHarmless ==
  ASSUME KInv, UNCHANGED <<keys, latest>>, NEW i \in Instances, Die(i)
  PROVE  Harmless
<1>1. req' \in [Requests -> RequestType]
  BY NoRequestType DEF KInv, Die
<1>2. \A q \in Requests : req'[q] = NoRequest \/ req'[q] = req[q]
  BY DEF Die
<1> QED
  BY <1>1, <1>2 DEF Harmless

LEMMA StayIsHarmless ==
  KInv /\ UNCHANGED <<keys, latest, req>> => Harmless
  BY DEF KInv, Harmless

-----------------------------------------------------------------------------
(* The steps that are not harmless. *)

LEMMA ConfigureKeeps ==
  ASSUME KInv, NEW i \in Instances, ConfigureVenueAPIKey(i)
  PROVE  KInv'
<1> DEFINE c == proc[i].config
           row == BootstrapRow(c)
<1>1. /\ latest' = {row} /\ keys' = Issued \cup latest'
      /\ row.id = "bootstrap" /\ row.venue \in Venues
  <2>1. Others = Issued
    BY IssuedType DEF KInv, TableAsConfigured, Others
  <2> QED
    BY <2>1 DEF ConfigureVenueAPIKey, Configured, Accepts, BootstrapRow
<1>2. TableAsConfigured'
  BY <1>1 DEF TableAsConfigured
<1>3. \A call : OpenedBy(call, keys') \subseteq Venues
  BY <1>1, IssuedType DEF OpenedBy
<1>4. ASSUME NEW q \in Requests
      PROVE /\ req'[q] \in RequestType
            /\ req'[q].venue = req[q].venue
            /\ req[q].known \subseteq req'[q].known
            /\ req'[q].phase \in Waiting =>
                 OpenedBy(req'[q].call, keys') \subseteq req'[q].known
  <2>1. CASE req[q].phase \in Waiting
    <3>1. req'[q] = [req[q] EXCEPT !.known = @ \cup OpenedBy(req[q].call, keys')]
      BY <1>1, <2>1 DEF ConfigureVenueAPIKey, Configured, Waiting
    <3>2. req[q] \in RequestType
      BY DEF KInv
    <3> QED
      BY <1>3, <3>1, <3>2 DEF RequestType
  <2>2. CASE req[q].phase \notin Waiting
    <3>1. req'[q] = req[q]
      BY <2>2 DEF ConfigureVenueAPIKey, Configured, Waiting
    <3> QED
      BY <2>2, <3>1 DEF KInv
  <2> QED
    BY <2>1, <2>2
<1>5. req' \in [Requests -> RequestType]
  <2>1. req' = [q \in Requests |-> req'[q]]
    BY DEF ConfigureVenueAPIKey, Configured
  <2> QED
    BY <1>4, <2>1
<1>6. OpeningsAreKnown' /\ CallersAreKnown'
  BY <1>4 DEF KInv, OpeningsAreKnown, CallersAreKnown
<1> QED
  BY <1>2, <1>5, <1>6 DEF KInv

LEMMA ArriveKeeps ==
  ASSUME KInv, NEW r \in Requests, NEW i \in Instances, NEW c \in Calls,
         Arrive(r, i, c)
  PROVE  KInv'
<1> DEFINE new == [NoRequest EXCEPT !.phase = "receive", !.at = i, !.call = c,
                                    !.known = OpenedBy(c, Issued \cup latest)]
<1>1. /\ req' = [req EXCEPT ![r] = new]
      /\ keys' = keys /\ latest' = latest
  BY DEF Arrive
<1>2. new \in RequestType /\ new.venue = None
        /\ OpenedBy(new.call, keys) \subseteq new.known
  BY IssuedType DEF KInv, TableAsConfigured, OpenedBy, NoRequest, RequestType
<1>3. req' \in [Requests -> RequestType]
  BY <1>1, <1>2 DEF KInv
<1>4. \A q \in Requests : req'[q] = IF q = r THEN new ELSE req[q]
  BY <1>1 DEF KInv
<1> HIDE DEF new
<1>5. TableAsConfigured'
  BY <1>1 DEF KInv, TableAsConfigured
<1>6. OpeningsAreKnown' /\ CallersAreKnown'
  BY <1>1, <1>2, <1>4 DEF KInv, OpeningsAreKnown, CallersAreKnown, OpenedBy
<1> QED
  BY <1>3, <1>5, <1>6 DEF KInv

LEMMA AuthenticateKeeps ==
  ASSUME KInv, NEW r \in Requests, Authenticate(r)
  PROVE  KInv'
<1> DEFINE opened == OpenedBy(req[r].call, keys)
<1>1. UNCHANGED <<keys, latest>> /\ req[r].phase \in Waiting
  BY DEF Authenticate, Waiting
<1>2. CASE opened = {}
  BY <1>1, <1>2, StatusForType, AnswerIsHarmless, HarmlessKeeps
     DEF Authenticate, Problem
<1>3. CASE opened # {}
  <2>1. PICK v \in opened :
          req' = [req EXCEPT ![r].phase = "serve", ![r].venue = v]
    BY <1>3 DEF Authenticate
  <2>2. v \in req[r].known
    BY <1>1, <2>1 DEF KInv, OpeningsAreKnown
  <2>3. req[r] \in RequestType /\ v \in Venues
    BY <2>2 DEF KInv, RequestType
  <2> HIDE DEF opened
  <2>4. req' \in [Requests -> RequestType]
    BY <2>1, <2>3 DEF KInv, RequestType
  <2>5. \A q \in Requests : q # r => req'[q] = req[q]
    BY <2>1 DEF KInv
  <2>6. req'[r].phase = "serve" /\ req'[r].venue = v
          /\ req'[r].known = req[r].known
    BY <2>1, <2>3 DEF KInv, RequestType
  <2>7. OpeningsAreKnown'
    BY <1>1, <2>5, <2>6 DEF KInv, OpeningsAreKnown, Waiting, OpenedBy
  <2>8. CallersAreKnown'
    BY <2>2, <2>5, <2>6 DEF KInv, CallersAreKnown
  <2>9. TableAsConfigured'
    BY <1>1 DEF KInv, TableAsConfigured
  <2> QED
    BY <2>4, <2>7, <2>8, <2>9 DEF KInv
<1> QED
  BY <1>2, <1>3

-----------------------------------------------------------------------------
(* The other steps of processes and requests. *)

LEMMA ProcessKeeps ==
  ASSUME KInv, NEW i \in Instances, Process(i)
  PROVE  KInv'
<1>1. CASE ConfigureVenueAPIKey(i)
  BY <1>1, ConfigureKeeps
<1>2. CASE Exit(i) \/ Crash(i)
  BY <1>2, DieIsHarmless, HarmlessKeeps DEF Exit, Crash
<1>3. CASE UNCHANGED <<keys, latest, req>>
  BY <1>3, StayIsHarmless, HarmlessKeeps
<1> QED
  BY <1>1, <1>2, <1>3
     DEF Process, Start, Listen, StartFails, ServeFails, Stop, ShutdownReturns

LEMMA ReceiveKeeps ==
  ASSUME KInv, NEW r \in Requests, Receive(r)
  PROVE  KInv'
<1> DEFINE c == req[r].call
<1>1. UNCHANGED <<keys, latest>> /\ req[r].phase \in Waiting
  BY DEF Receive, Waiting
<1>2. CASE Invalid(c) # 0
  <2>1. Answer(r, Invalid(c))
    BY <1>2 DEF Receive
  <2>2. Invalid(c) \in HTTPStatus
    BY <1>2 DEF Invalid, HTTPStatus
  <2> QED
    BY <1>1, <2>1, <2>2, AnswerIsHarmless, HarmlessKeeps
<1>3. CASE Invalid(c) = 0 /\ Unbound(c)
  BY <1>1, <1>3, StatusForType, AnswerIsHarmless, HarmlessKeeps
     DEF Receive, Problem
<1>4. CASE Invalid(c) = 0 /\ ~Unbound(c)
  <2>1. PICK phase \in {"authenticate", "serve"} :
          req' = [req EXCEPT ![r].phase = phase]
    BY <1>4 DEF Receive
  <2>2. req' \in [Requests -> RequestType]
    BY <2>1 DEF KInv, RequestType
  <2>3. \A q \in Requests :
          /\ req'[q].known = req[q].known /\ req'[q].call = req[q].call
          /\ req'[q].venue = req[q].venue
          /\ req'[q].phase \in Waiting => req[q].phase \in Waiting
    BY <1>1, <2>1 DEF KInv, RequestType
  <2> QED
    BY <1>1, <2>2, <2>3, HarmlessKeeps DEF Harmless
<1> QED
  BY <1>2, <1>3, <1>4

LEMMA HandleKeeps ==
  ASSUME KInv, NEW r \in Requests, Handle(r)
  PROVE  KInv'
<1>1. CASE Authenticate(r)
  BY <1>1, AuthenticateKeeps
<1>2. CASE DecodeFails(r) \/ Fails(r)
  BY <1>2, StatusForType, AnswerIsHarmless, HarmlessKeeps
     DEF DecodeFails, Fails, Problem
<1>3. CASE Refuse(r)
  <2>1. \E code : Problem(r, code)
    BY <1>3 DEF Refuse
  <2>2. UNCHANGED <<keys, latest>>
    BY <1>3 DEF Refuse
  <2> QED
    BY <2>1, <2>2, StatusForType, AnswerIsHarmless, HarmlessKeeps DEF Problem
<1>4. CASE ServeRead(r) \/ Replay(r) \/ AcceptAgain(r)
  BY <1>4, SuccessStatusType, AnswerIsHarmless, HarmlessKeeps
     DEF ServeRead, Replay, AcceptAgain, Success
<1>5. CASE Begin(r)
  <2>1. UNCHANGED <<keys, latest>>
          /\ req' = [req EXCEPT ![r].phase = "transaction"]
    BY <1>5 DEF Begin
  <2> QED
    BY <2>1, HarmlessKeeps DEF Harmless, KInv, RequestType, Waiting
<1>6. CASE Commit(r)
  <2>1. PICK status \in HTTPStatus : Answer(r, status)
    BY <1>6, StatusForType, SuccessStatusType DEF Commit
  <2>2. UNCHANGED <<keys, latest>>
    BY <1>6 DEF Commit
  <2> QED
    BY <2>1, <2>2, AnswerIsHarmless, HarmlessKeeps
<1>7. CASE Deliver(r)
  <2>1. UNCHANGED <<keys, latest>> /\ req' = [req EXCEPT ![r] = NoRequest]
    BY <1>7 DEF Deliver
  <2> QED
    BY <2>1, NoRequestType, HarmlessKeeps DEF Harmless, KInv
<1> QED
  BY <1>1, <1>2, <1>3, <1>4, <1>5, <1>6, <1>7 DEF Handle

-----------------------------------------------------------------------------
LEMMA KInvInit == Init => KInv
<1> SUFFICES ASSUME Init PROVE KInv
  OBVIOUS
<1>1. req \in [Requests -> RequestType] /\ \A r \in Requests : req[r] = NoRequest
  BY NoRequestType DEF Init
<1> QED
  BY <1>1 DEF Init, KInv, TableAsConfigured, OpeningsAreKnown, CallersAreKnown,
              NoRequest, Waiting

LEMMA KInvStep == KInv /\ [Next]_vars => KInv'
<1> SUFFICES ASSUME KInv, [Next]_vars PROVE KInv'
  OBVIOUS
<1>1. ASSUME NEW i \in Instances, Process(i) PROVE KInv'
  BY <1>1, ProcessKeeps
<1>2. ASSUME NEW r \in Requests, Receive(r) \/ Handle(r) PROVE KInv'
  BY <1>2, ReceiveKeeps, HandleKeeps
<1>3. ASSUME NEW r \in Requests, NEW i \in Instances, NEW c \in Calls,
             Arrive(r, i, c)
      PROVE KInv'
  BY <1>3, ArriveKeeps
<1>4. CASE UNCHANGED vars
  BY <1>4, StayIsHarmless, HarmlessKeeps DEF vars
<1> QED
  BY <1>1, <1>2, <1>3, <1>4 DEF Next

\* A request acts for a venue only with a key that was the venue's own at some
\* time since the request arrived, however processes replace each other's keys.
THEOREM OnlyKnownCallers == Spec => []CallersAreKnown
<1>1. KInv => CallersAreKnown
  BY DEF KInv
<1> QED
  BY <1>1, KInvInit, KInvStep, PTL DEF Spec

-----------------------------------------------------------------------------
(* Replies and the order book. *)

BookType ==
  /\ history \in [Orders -> Seq(Status)]
  /\ DOMAIN answer = CommandIds
  /\ owner \in [Orders -> {None} \cup [customer : Users, venue : Venues]]

ProcType ==
  /\ proc \in [Instances ->
       [phase : {"down", "configure", "listen", "serving", "stopping",
                 "closing"},
        config : Configurations \cup {None}]]
  /\ starts \in 0 .. MaxStarts /\ calls \in 0 .. MaxCalls

\* What is about to be configured was loaded, so its key is long enough.
KeysAreLong ==
  /\ \A row \in latest : row.key \notin ShortKeys
  /\ \A i \in Instances : proc[i].phase = "configure" =>
       proc[i].config \in Configurations /\ Loads(proc[i].config)

\* The answer of a command tells of an order of the command's subject, the one
\* that the command names, and of a status that this order went through.
Owns(id, o) == IF id[2] \in PartnerOperations THEN owner[o].venue = id[1]
                                              ELSE owner[o].customer = id[1]
WentThrough(o, status) == \E n \in DOMAIN history[o] : history[o][n] = status
AnswerFits(id, done) ==
  /\ done[1] \in Orders /\ owner[done[1]] # None
  /\ Owns(id, done[1])
  /\ id[3] # None => done[1] = id[3]
  /\ WentThrough(done[1], Last(done[2]))
AnswersFit ==
  \A id \in CommandIds : answer[id] # None => AnswerFits(id, answer[id])

\* A request that is not answered yet has promised nothing, and one that is in
\* its transaction sees the order it names.
Honest(r) ==
  req[r].reply \in {200, 201} /\ req[r].call.operation \in OrderCommandNames
    => \E o \in Orders : Fulfilled(r, o)
RequestFits(r) ==
  /\ req[r].phase # "none" => req[r].call \in Calls
  /\ req[r].phase # "reply" => req[r].reply = 0
  /\ req[r].phase = "transaction" =>
       req[r].call.operation \in Writes /\ ~Missing(r)
  /\ Honest(r)
RequestsFit == \A r \in Requests : RequestFits(r)

SInv == /\ KInv /\ BookType /\ ProcType /\ KeysAreLong
        /\ AnswersFit /\ RequestsFit

\* Orders keep their owners and their pasts.
BookLasts ==
  \A o \in Orders :
    /\ owner[o] # None => owner'[o] = owner[o]
    /\ \A status : WentThrough(o, status) => WentThrough(o, status)'

\* Every order command has a place in the book, by whomever it is sent.
LEMMA IdIsKnown ==
  ASSUME KInv, NEW r \in Requests, req[r].call \in Calls,
         req[r].call.operation \in OrderCommandNames
  PROVE  Id(r) \in CommandIds
<1>1. req[r].venue \in Venues \cup {None}
  BY DEF KInv, RequestType
<1> QED BY <1>1 DEF Id, CommandIds

\* The parts of the identity of a command.
LEMMA IdParts ==
  ASSUME NEW r \in Requests
  PROVE  /\ Id(r)[1] = Caller(r) /\ Id(r)[2] = req[r].call.operation
         /\ Id(r)[3] = req[r].call.order
BY DEF Id, CommandId, Caller

\* The order that a call names.
LEMMA NamedOrder ==
  ASSUME NEW c \in Calls
  PROVE  /\ NamesOrder(c) => c.order \in Orders
         /\ c.operation \in OrderCommandNames =>
              (NamesOrder(c) <=> c.operation # "CreateOrder")
BY CallsType, NoneIsAbsent DEF NamesOrder

\* A command that is recorded with the same body was fulfilled.
LEMMA RecordedIsFulfilled ==
  ASSUME KInv, AnswersFit, NEW r \in Requests, req[r].call \in Calls,
         Recorded(r), SameRequest(r)
  PROVE  \E o \in Orders : Fulfilled(r, o)
<1> DEFINE c == req[r].call
<1>1. PICK id \in CommandIds : id = Id(r)
  BY IdIsKnown DEF Recorded
<1>2. PICK done : done = answer[id]
  OBVIOUS
<1>3. AnswerFits(id, done)
  BY <1>1, <1>2 DEF AnswersFit, Recorded
<1>4. PICK o \in Orders : o = done[1]
  BY <1>3 DEF AnswerFits
<1>5. Visible(r, o)
  BY <1>1, <1>3, <1>4, IdParts DEF AnswerFits, Owns, Visible
<1>6. IF NamesOrder(c) THEN o = c.order ELSE owner[o].venue = c.venue
  BY <1>1, <1>2, <1>3, <1>4, IdParts DEF AnswerFits, SameRequest, NamesOrder
<1>7. WentThrough(o, Target(c))
  BY <1>1, <1>2, <1>3, <1>4 DEF AnswerFits, SameRequest
<1> QED BY <1>5, <1>6, <1>7 DEF Fulfilled, WentThrough

\* What a step leaves of a request.
Same(q) ==
  /\ req'[q].phase = req[q].phase /\ req'[q].call = req[q].call
  /\ req'[q].venue = req[q].venue /\ req'[q].reply = req[q].reply

\* A request that sees an order goes on seeing it.
LEMMA StillVisible ==
  ASSUME BookLasts, NEW q \in Requests, req[q].call \in Calls, ~Missing(q),
         req'[q].call = req[q].call, req'[q].venue = req[q].venue
  PROVE  ~Missing(q)'
<1> SUFFICES ASSUME NamesOrder(req[q].call) PROVE Visible(q, req[q].call.order)'
  BY DEF Missing
<1>1. PICK o \in Orders : o = req[q].call.order
  BY NamedOrder
<1>2. Visible(q, o)
  BY <1>1 DEF Missing
<1>3. owner'[o] = owner[o] /\ owner[o] # None
  BY <1>1, <1>2 DEF Visible, BookLasts
<1> QED BY <1>1, <1>2, <1>3 DEF Visible, Caller

\* What was fulfilled stays so.
LEMMA StillFulfilled ==
  ASSUME BookLasts, NEW q \in Requests, NEW o \in Orders, Fulfilled(q, o),
         req'[q].call = req[q].call, req'[q].venue = req[q].venue
  PROVE  Fulfilled(q, o)'
<1>1. owner'[o] = owner[o] /\ Visible(q, o)'
  BY DEF Fulfilled, Visible, Caller, BookLasts
<1>2. PICK status : status = Target(req[q].call)
  OBVIOUS
<1>3. WentThrough(o, status)'
  BY <1>2 DEF Fulfilled, WentThrough, BookLasts
<1>4. status = Target(req'[q].call)
  BY <1>2
<1> QED BY <1>1, <1>3, <1>4 DEF Fulfilled, WentThrough

LEMMA SameFits ==
  ASSUME SInv, BookLasts, NEW q \in Requests, Same(q)
  PROVE  RequestFits(q)'
<1>1. RequestFits(q)
  BY DEF SInv, RequestsFit
<1>2. req'[q].phase = "transaction" => ~Missing(q)'
  BY <1>1, StillVisible DEF RequestFits, Same
<1>3. Honest(q)'
  <2> SUFFICES ASSUME req'[q].reply \in {200, 201},
                      req'[q].call.operation \in OrderCommandNames
               PROVE  \E o \in Orders : Fulfilled(q, o)'
    BY DEF Honest
  <2>1. PICK o \in Orders : Fulfilled(q, o)
    BY <1>1 DEF RequestFits, Honest, Same
  <2> QED BY <2>1, StillFulfilled DEF Same
<1> QED BY <1>1, <1>2, <1>3 DEF RequestFits, Same

LEMMA FreeFits ==
  ASSUME NEW q \in Requests, req'[q] = NoRequest
  PROVE  RequestFits(q)'
<1>1. req'[q].phase = "none" /\ req'[q].reply = 0
  BY DEF NoRequest
<1> QED BY <1>1 DEF RequestFits, Honest

\* Steps that leave the book alone.
LEMMA BookKept ==
  ASSUME SInv, UNCHANGED book
  PROVE  BookType' /\ AnswersFit' /\ BookLasts
BY DEF SInv, BookType, book, AnswersFit, AnswerFits, Owns, WentThrough, BookLasts

\* The other requests do not notice what happens to one.
LEMMA OneFits ==
  ASSUME SInv, BookLasts, NEW r \in Requests,
         \A q \in Requests \ {r} : req'[q] = req[q],
         RequestFits(r)'
  PROVE  RequestsFit'
<1>1. ASSUME NEW q \in Requests \ {r} PROVE RequestFits(q)'
  BY SameFits DEF Same
<1> QED BY <1>1 DEF RequestsFit

\* A request that is answered and leaves the book alone.
LEMMA AnsweredFits ==
  ASSUME SInv, UNCHANGED book, NEW r \in Requests,
         NEW status \in HTTPStatus, Answer(r, status),
         req[r].phase \notin {"none", "reply"},
         status \in {200, 201} /\ req[r].call.operation \in OrderCommandNames
           => \E o \in Orders : Fulfilled(r, o)
  PROVE  RequestsFit'
<1>1. /\ req'[r].phase = "reply" /\ req'[r].reply = status
      /\ req'[r].call = req[r].call /\ req'[r].venue = req[r].venue
      /\ \A q \in Requests \ {r} : req'[q] = req[q]
  BY DEF SInv, KInv, RequestType, Answer
<1>2. RequestFits(r) /\ BookLasts
  BY BookKept DEF SInv, RequestsFit
<1>3. ASSUME NEW o \in Orders, Fulfilled(r, o) PROVE Fulfilled(r, o)'
  BY <1>1, <1>2, <1>3, StillFulfilled
<1>4. Honest(r)'
  BY <1>1, <1>3 DEF Honest
<1>5. RequestFits(r)'
  BY <1>1, <1>2, <1>4 DEF RequestFits
<1> QED BY <1>1, <1>2, <1>5, OneFits

LEMMA RefusedFits ==
  ASSUME SInv, UNCHANGED book, NEW r \in Requests, NEW code,
         Problem(r, code), req[r].phase \notin {"none", "reply"}
  PROVE  RequestsFit'
<1>1. StatusFor(code) \in HTTPStatus /\ StatusFor(code) \notin {200, 201}
  BY DEF StatusFor, HTTPStatus
<1> QED BY <1>1, AnsweredFits DEF Problem

\* A request that moves on towards its transaction.
LEMMA MovedFits ==
  ASSUME SInv, UNCHANGED book, NEW r \in Requests,
         req[r].phase \notin {"none", "reply"},
         req'[r].phase \notin {"reply", "transaction"},
         req'[r].call = req[r].call, req'[r].reply = req[r].reply,
         \A q \in Requests \ {r} : req'[q] = req[q]
  PROVE  RequestsFit'
<1>1. RequestFits(r)
  BY DEF SInv, RequestsFit
<1>2. RequestFits(r)'
  BY <1>1 DEF RequestFits, Honest
<1> QED BY <1>2, BookKept, OneFits

-----------------------------------------------------------------------------
(* The commit. *)

LEMMA TargetIsStatus ==
  ASSUME NEW c \in Calls, c.operation \in OrderCommandNames
  PROVE  Target(c) \in Status
BY CallsType DEF Target, Status, OrderCommandNames, CustomerCommands, PartnerCommands

\* One order command is executed: on an order of its subject, the one it names,
\* or a new one at the venue it names.
LEMMA CommitActs ==
  ASSUME SInv, NEW r \in Requests, req[r].phase = "transaction", Act(r),
         req[r].call.operation # "SyncPartnerMenu",
         req'[r].call = req[r].call, req'[r].venue = req[r].venue
  PROVE  /\ BookType' /\ AnswersFit' /\ BookLasts
         /\ req[r].call.operation \in OrderCommandNames
         /\ \E o \in Orders :
              /\ history' = [history EXCEPT ![o] = Append(@, Target(req[r].call))]
              /\ Fulfilled(r, o)'
<1> DEFINE c == req[r].call
<1>1. /\ c \in Calls /\ c.operation \in Writes /\ ~Missing(r)
      /\ KInv /\ BookType /\ AnswersFit
  BY DEF SInv, RequestsFit, RequestFits
<1>2. c.operation \in OrderCommandNames
  BY <1>1 DEF Writes
<1>3. PICK id \in CommandIds : id = Id(r)
  BY <1>1, <1>2, IdIsKnown
<1>4. PICK o \in IF NamesOrder(c) THEN {c.order}
                 ELSE {new \in Orders : owner[new] = None} :
        /\ Book!Execute(id, o, Target(c))
        /\ owner' = IF NamesOrder(c) THEN owner
                    ELSE [owner EXCEPT ![o] =
                            [customer |-> c.user, venue |-> c.venue]]
  BY <1>3 DEF Act
<1>5. o \in Orders /\ (~NamesOrder(c) => owner[o] = None)
  BY <1>1, <1>4, NamedOrder
<1>6. PICK status \in Status : status = Target(c)
  BY <1>1, <1>2, TargetIsStatus
<1>7. PICK past \in Seq(Status) : past = history[o]
  BY <1>1, <1>5 DEF BookType
<1>8. /\ history' = [history EXCEPT ![o] = Append(past, status)]
      /\ answer' = [answer EXCEPT ![id] = <<o, Append(past, status)>>]
  BY <1>4, <1>6, <1>7 DEF Book!Execute
<1>9. PICK h \in Seq(Status) : h = Append(past, status)
  BY AppendProperties
<1>10. /\ Len(h) = Len(past) + 1 /\ Len(past) \in Nat
       /\ DOMAIN h = 1 .. Len(h) /\ DOMAIN past = 1 .. Len(past)
       /\ h[Len(h)] = status /\ Last(h) = status
       /\ \A n \in 1 .. Len(past) : h[n] = past[n]
  BY <1>9, AppendProperties DEF Last
<1>11. /\ history'[o] = h /\ answer'[id] = <<o, h>>
       /\ \A o2 \in Orders \ {o} : history'[o2] = history[o2]
       /\ \A other \in CommandIds \ {id} : answer'[other] = answer[other]
       /\ DOMAIN answer' = CommandIds
  BY <1>1, <1>3, <1>5, <1>8, <1>9 DEF BookType
<1>12. ~NamesOrder(c) =>
         [customer |-> c.user, venue |-> c.venue] \in [customer : Users, venue : Venues]
  BY <1>1, <1>2, NamedOrder, CallsType DEF CustomerCommands
<1>13. BookType'
  BY <1>1, <1>4, <1>5, <1>8, <1>9, <1>11, <1>12 DEF BookType
<1>14. \A o2 \in Orders : owner[o2] # None => owner'[o2] = owner[o2]
  BY <1>1, <1>4, <1>5 DEF BookType
<1>15. WentThrough(o, status)'
  BY <1>10, <1>11 DEF WentThrough
<1>16. ASSUME NEW o2 \in Orders, NEW s, WentThrough(o2, s)
       PROVE  WentThrough(o2, s)'
  <2>1. CASE o2 = o
    <3>1. PICK n \in 1 .. Len(past) : past[n] = s
      BY <1>7, <1>10, <1>16, <2>1 DEF WentThrough
    <3>2. n \in DOMAIN h /\ h[n] = s
      BY <1>10, <3>1
    <3> QED BY <1>11, <2>1, <3>2 DEF WentThrough
  <2>2. CASE o2 # o
    BY <1>11, <1>16, <2>2 DEF WentThrough
  <2> QED BY <2>1, <2>2
<1>17. BookLasts
  BY <1>14, <1>16 DEF BookLasts
<1>18. /\ owner'[o] # None /\ Owns(id, o)'
       /\ ~NamesOrder(c) => owner'[o].venue = c.venue
  <2>1. CASE NamesOrder(c)
    <3>1. Visible(r, o)
      BY <1>1, <1>4, <2>1 DEF Missing
    <3>2. owner' = owner
      BY <1>4, <2>1
    <3> QED BY <1>3, <2>1, <3>1, <3>2, IdParts DEF Visible, Owns
  <2>2. CASE ~NamesOrder(c)
    <3>1. owner'[o] = [customer |-> c.user, venue |-> c.venue]
      BY <1>1, <1>4, <1>5, <2>2 DEF BookType
    <3>2. c.operation = "CreateOrder" /\ "CreateOrder" \notin PartnerOperations
      BY <1>1, <1>2, <2>2, NamedOrder
         DEF PartnerOperations, PartnerReads, PartnerCommands
    <3>3. id[1] = c.user /\ id[2] = "CreateOrder"
      BY <1>3, <3>2, IdParts DEF Caller, Subject
    <3> QED BY <1>12, <2>2, <3>1, <3>2, <3>3, NoneIsAbsent DEF Owns
  <2> QED BY <2>1, <2>2
<1>19. AnswersFit'
  <2> SUFFICES ASSUME NEW k \in CommandIds, answer'[k] # None
               PROVE  AnswerFits(k, answer[k])'
    BY DEF AnswersFit
  <2>1. CASE k = id
    <3>1. id[3] # None => o = id[3]
      BY <1>3, <1>4, IdParts DEF NamesOrder
    <3>2. WentThrough(o, Last(h))'
      BY <1>10, <1>15
    <3> QED BY <1>5, <1>11, <1>18, <2>1, <3>1, <3>2 DEF AnswerFits, Owns, WentThrough
  <2>2. CASE k # id
    <3>1. PICK done : done = answer[k] /\ done = answer'[k] /\ AnswerFits(k, done)
      BY <1>1, <1>11, <2>2 DEF AnswersFit
    <3>2. PICK o2 \in Orders : o2 = done[1] /\ owner[o2] # None
      BY <3>1 DEF AnswerFits
    <3>3. owner'[o2] = owner[o2]
      BY <1>14, <3>2
    <3>4. WentThrough(o2, Last(done[2]))'
      BY <1>16, <3>1, <3>2 DEF AnswerFits
    <3> QED BY <3>1, <3>2, <3>3, <3>4 DEF AnswerFits, Owns, WentThrough
  <2> QED BY <2>1, <2>2
<1>20. Fulfilled(r, o)'
  <2>1. Visible(r, o)'
    BY <1>3, <1>18, IdParts DEF Visible, Owns, Caller
  <2>2. NamesOrder(c) => o = c.order
    BY <1>4
  <2> QED BY <1>6, <1>15, <1>18, <2>1, <2>2 DEF Fulfilled, WentThrough
<1> QED BY <1>2, <1>5, <1>6, <1>7, <1>8, <1>13, <1>17, <1>19, <1>20

LEMMA CommitFits ==
  ASSUME SInv, NEW r \in Requests, Commit(r)
  PROVE  BookType' /\ AnswersFit' /\ RequestsFit'
<1>1. /\ req[r].phase = "transaction" /\ Act(r) /\ KInv /\ RequestFits(r)
  BY DEF Commit, SInv, RequestsFit
<1>2. PICK status \in HTTPStatus : Answer(r, status)
  BY StatusForType, SuccessStatusType DEF Commit
<1>3. /\ req'[r].phase = "reply" /\ req'[r].reply = status
      /\ req'[r].call = req[r].call /\ req'[r].venue = req[r].venue
      /\ \A q \in Requests \ {r} : req'[q] = req[q]
  BY <1>1, <1>2 DEF Answer, KInv, RequestType
<1>4. CASE req[r].call.operation = "SyncPartnerMenu"
  <2>1. UNCHANGED book
    BY <1>1, <1>4 DEF Act
  <2>2. "SyncPartnerMenu" \notin OrderCommandNames
    BY DEF OrderCommandNames, CustomerCommands, PartnerCommands
  <2> QED BY <1>1, <1>2, <1>4, <2>1, <2>2, BookKept, AnsweredFits
<1>5. CASE req[r].call.operation # "SyncPartnerMenu"
  <2>1. /\ BookType' /\ AnswersFit' /\ BookLasts
        /\ \E o \in Orders : Fulfilled(r, o)'
    BY <1>1, <1>3, <1>5, CommitActs
  <2>2. RequestFits(r)'
    BY <1>1, <1>3, <2>1 DEF RequestFits, Honest
  <2> QED BY <1>3, <2>1, <2>2, OneFits
<1> QED BY <1>4, <1>5

-----------------------------------------------------------------------------
(* The other steps. *)

LEMMA LeftFits ==
  ASSUME SInv, KInv', UNCHANGED book,
         \A q \in Requests : Same(q) \/ req'[q] = NoRequest
  PROVE  BookType' /\ AnswersFit' /\ RequestsFit'
<1>1. BookType' /\ AnswersFit' /\ BookLasts
  BY BookKept
<1>2. \A q \in Requests : RequestFits(q)'
  BY <1>1, SameFits, FreeFits
<1> QED BY <1>1, <1>2 DEF RequestsFit

LEMMA ProcessFits ==
  ASSUME SInv, KInv', NEW i \in Instances, Process(i)
  PROVE  BookType' /\ AnswersFit' /\ RequestsFit'
<1>1. UNCHANGED book
  BY DEF Process, Start, ConfigureVenueAPIKey, Listen, StartFails, ServeFails,
         Stop, ShutdownReturns, Exit, Crash
<1>2. CASE ConfigureVenueAPIKey(i)
  <2>1. ASSUME NEW q \in Requests PROVE Same(q)
    <3>1. req[q] \in RequestType
      BY DEF SInv, KInv
    <3>2. PICK new : /\ req'[q] = [req[q] EXCEPT !.known = new] \/ req'[q] = req[q]
      BY <1>2 DEF ConfigureVenueAPIKey, Configured
    <3> QED BY <3>1, <3>2 DEF Same, RequestType
  <2> QED BY <1>1, <2>1, LeftFits
<1>3. CASE Exit(i) \/ Crash(i)
  <2>1. ASSUME NEW q \in Requests PROVE Same(q) \/ req'[q] = NoRequest
    BY <1>3 DEF Exit, Crash, Die, Same
  <2> QED BY <1>1, <2>1, LeftFits
<1>4. CASE req' = req
  BY <1>1, <1>4, LeftFits DEF Same
<1> QED BY <1>2, <1>3, <1>4
        DEF Process, Start, Listen, StartFails, ServeFails, Stop, ShutdownReturns

LEMMA ProcessLoads ==
  ASSUME SInv, NEW i \in Instances, Process(i)
  PROVE  ProcType' /\ KeysAreLong'
<1>1. ProcType /\ KeysAreLong
  BY DEF SInv
<1>2. Stopped.phase = "down" /\ Stopped.config = None
  BY DEF Stopped
<1>3. ASSUME NEW new, proc' = [proc EXCEPT ![i] = new],
             new.phase = "configure" => new.config \in Configurations /\ Loads(new.config)
      PROVE  \A j \in Instances : proc'[j].phase = "configure" =>
               proc'[j].config \in Configurations /\ Loads(proc'[j].config)
  BY <1>1, <1>3 DEF ProcType, KeysAreLong
<1>4. ASSUME NEW new, proc' = [proc EXCEPT ![i] = new],
             new \in [phase : {"down", "configure", "listen", "serving", "stopping",
                              "closing"},
                     config : Configurations \cup {None}],
             starts' \in 0 .. MaxStarts, calls' = calls
      PROVE  ProcType'
  BY <1>1, <1>4 DEF ProcType
<1>5. CASE \E c \in Configurations : Start(i, c)
  <2>1. PICK c \in Configurations : Start(i, c)
    BY <1>5
  <2> DEFINE new == [phase |-> "configure", config |-> c]
  <2>2. /\ proc' = [proc EXCEPT ![i] = new] /\ Loads(c)
        /\ starts' \in 0 .. MaxStarts /\ calls' = calls /\ latest' = latest
    BY <1>1, <2>1, BoundsType DEF Start, ProcType
  <2>3. /\ new.phase = "configure" /\ new.config = c
        /\ new \in [phase : {"down", "configure", "listen", "serving", "stopping",
                            "closing"},
                   config : Configurations \cup {None}]
    OBVIOUS
  <2> HIDE DEF new
  <2>4. ProcType'
    BY <1>4, <2>2, <2>3
  <2> QED BY <1>1, <1>3, <2>2, <2>3, <2>4 DEF KeysAreLong
<1>6. ASSUME NEW phase \in {"listen", "stopping", "closing"}, Enter(i, phase),
             UNCHANGED <<starts, calls>>
      PROVE  /\ ProcType'
             /\ \A j \in Instances : proc'[j].phase = "configure" =>
                  proc'[j].config \in Configurations /\ Loads(proc'[j].config)
  <2> DEFINE new == [proc[i] EXCEPT !.phase = phase]
  <2>1. proc' = [proc EXCEPT ![i] = new] /\ starts' \in 0 .. MaxStarts
    BY <1>1, <1>6 DEF Enter, ProcType
  <2>2. /\ new.phase = phase
        /\ new \in [phase : {"down", "configure", "listen", "serving", "stopping",
                            "closing"},
                   config : Configurations \cup {None}]
    BY <1>1 DEF ProcType
  <2> HIDE DEF new
  <2> QED BY <1>3, <1>4, <1>6, <2>1, <2>2
<1>7. ASSUME proc' = [proc EXCEPT ![i] = Stopped], UNCHANGED <<starts, calls>>
      PROVE  /\ ProcType'
             /\ \A j \in Instances : proc'[j].phase = "configure" =>
                  proc'[j].config \in Configurations /\ Loads(proc'[j].config)
  <2>1. Stopped \in [phase : {"down", "configure", "listen", "serving", "stopping",
                             "closing"},
                    config : Configurations \cup {None}]
    BY DEF Stopped
  <2> QED BY <1>1, <1>2, <1>3, <1>4, <1>7, <2>1 DEF ProcType
<1>8. CASE ConfigureVenueAPIKey(i)
  <2>1. \A row \in latest' : row.key \notin ShortKeys
    BY <1>1, <1>8
       DEF ConfigureVenueAPIKey, Configured, BootstrapRow, KeysAreLong, Loads
  <2>2. UNCHANGED <<starts, calls>>
        /\ (Enter(i, "listen") \/ proc' = [proc EXCEPT ![i] = Stopped])
    BY <1>8 DEF ConfigureVenueAPIKey
  <2> QED BY <1>6, <1>7, <2>1, <2>2 DEF KeysAreLong
<1>9. CASE Listen(i)
  <2> DEFINE new == [phase |-> "serving", config |-> None]
  <2>1. /\ proc' = [proc EXCEPT ![i] = new] /\ latest' = latest
        /\ starts' \in 0 .. MaxStarts /\ calls' = calls
    BY <1>1, <1>9 DEF Listen, ProcType
  <2>2. /\ new.phase = "serving"
        /\ new \in [phase : {"down", "configure", "listen", "serving", "stopping",
                            "closing"},
                   config : Configurations \cup {None}]
    OBVIOUS
  <2> HIDE DEF new
  <2> QED BY <1>1, <1>3, <1>4, <2>1, <2>2 DEF KeysAreLong
<1>10. CASE StartFails(i) \/ Exit(i) \/ Crash(i)
  BY <1>1, <1>7, <1>10 DEF StartFails, Exit, Crash, Die, KeysAreLong
<1>11. CASE ServeFails(i) \/ Stop(i) \/ ShutdownReturns(i)
  BY <1>1, <1>6, <1>11 DEF ServeFails, Stop, ShutdownReturns, KeysAreLong
<1> QED BY <1>5, <1>8, <1>9, <1>10, <1>11 DEF Process

LEMMA ArriveFits ==
  ASSUME SInv, KInv', NEW r \in Requests, NEW i \in Instances, NEW c \in Calls,
         Arrive(r, i, c)
  PROVE  SInv'
<1> DEFINE new == [NoRequest EXCEPT !.phase = "receive", !.at = i, !.call = c,
                                    !.known = OpenedBy(c, Issued \cup latest)]
<1>1. /\ req' = [req EXCEPT ![r] = new] /\ UNCHANGED <<latest, book, proc, starts>>
      /\ calls' = calls + 1 /\ calls < MaxCalls
  BY DEF Arrive
<1>2. /\ new.phase = "receive" /\ new.call = c /\ new.reply = 0
  BY DEF NoRequest
<1> HIDE DEF new
<1>3. req'[r] = new /\ \A q \in Requests \ {r} : req'[q] = req[q]
  BY <1>1 DEF SInv, KInv
<1>4. RequestFits(r)'
  BY <1>2, <1>3 DEF RequestFits, Honest
<1>5. BookType' /\ AnswersFit' /\ BookLasts
  BY <1>1, BookKept
<1>6. RequestsFit'
  BY <1>3, <1>4, <1>5, OneFits
<1>7. ProcType' /\ KeysAreLong'
  BY <1>1, BoundsType DEF SInv, ProcType, KeysAreLong
<1> QED BY <1>5, <1>6, <1>7 DEF SInv

LEMMA ReceiveFits ==
  ASSUME SInv, KInv', NEW r \in Requests, Receive(r)
  PROVE  RequestsFit' /\ UNCHANGED book
<1> DEFINE c == req[r].call
<1>1. UNCHANGED book /\ req[r].phase = "receive"
  BY DEF Receive
<1>2. CASE Invalid(c) # 0
  <2>1. Invalid(c) \in HTTPStatus /\ Invalid(c) \notin {200, 201} /\ Answer(r, Invalid(c))
    BY <1>2 DEF Invalid, HTTPStatus, Receive
  <2> QED BY <1>1, <2>1, AnsweredFits
<1>3. CASE Invalid(c) = 0 /\ Unbound(c)
  BY <1>1, <1>3, RefusedFits DEF Receive
<1>4. CASE Invalid(c) = 0 /\ ~Unbound(c)
  <2>1. PICK phase \in {"authenticate", "serve"} :
          req' = [req EXCEPT ![r].phase = phase]
    BY <1>4 DEF Receive
  <2>2. /\ req'[r].phase = phase /\ req'[r].call = req[r].call
        /\ req'[r].reply = req[r].reply
        /\ \A q \in Requests \ {r} : req'[q] = req[q]
    BY <2>1 DEF SInv, KInv, RequestType
  <2> QED BY <1>1, <2>2, MovedFits
<1> QED BY <1>1, <1>2, <1>3, <1>4

LEMMA HandleFits ==
  ASSUME SInv, KInv', NEW r \in Requests, Handle(r)
  PROVE  BookType' /\ AnswersFit' /\ RequestsFit'
<1>1. req \in [Requests -> RequestType] /\ RequestFits(r)
  BY DEF SInv, KInv, RequestsFit
<1>2. ASSUME UNCHANGED book, RequestsFit'
      PROVE  BookType' /\ AnswersFit' /\ RequestsFit'
  BY <1>2, BookKept
<1>3. CASE Authenticate(r)
  <2>1. UNCHANGED book /\ req[r].phase = "authenticate"
    BY <1>3 DEF Authenticate
  <2>2. CASE \E code : Problem(r, code)
    BY <1>2, <2>1, <2>2, RefusedFits
  <2>3. CASE \E v : req' = [req EXCEPT ![r].phase = "serve", ![r].venue = v]
    <3>1. /\ req'[r].phase = "serve" /\ req'[r].call = req[r].call
          /\ req'[r].reply = req[r].reply
          /\ \A q \in Requests \ {r} : req'[q] = req[q]
      BY <1>1, <2>3 DEF RequestType
    <3> QED BY <1>2, <2>1, <3>1, MovedFits
  <2> QED BY <1>3, <2>2, <2>3 DEF Authenticate
<1>4. CASE DecodeFails(r) \/ Fails(r)
  <2>1. UNCHANGED book /\ req[r].phase \in {"serve", "authenticate", "transaction"}
        /\ \E code : Problem(r, code)
    BY <1>4 DEF DecodeFails, Fails, Serving
  <2> QED BY <1>2, <2>1, RefusedFits
<1>5. CASE Refuse(r)
  <2>1. UNCHANGED book /\ req[r].phase \in {"serve", "transaction"}
        /\ \E code : Problem(r, code)
    BY <1>5 DEF Refuse, Serving
  <2> QED BY <1>2, <2>1, RefusedFits
<1>6. CASE ServeRead(r)
  <2>1. /\ UNCHANGED book /\ req[r].phase = "serve"
        /\ Answer(r, SuccessStatus(req[r].call))
        /\ req[r].call.operation \notin OrderCommandNames
    BY <1>6 DEF ServeRead, Serving, Success, Writes
  <2> QED BY <1>2, <2>1, SuccessStatusType, AnsweredFits
<1>7. CASE Replay(r)
  <2>1. /\ UNCHANGED book /\ req[r].phase \in {"serve", "transaction"}
        /\ Answer(r, SuccessStatus(req[r].call)) /\ Recorded(r)
    BY <1>7 DEF Replay, Serving, Success
  <2>2. \E o \in Orders : Fulfilled(r, o)
    BY <1>1, <1>7, <2>1, RecordedIsFulfilled DEF SInv, RequestFits, Replay
  <2> QED BY <1>2, <2>1, <2>2, SuccessStatusType, AnsweredFits
<1>8. CASE Begin(r)
  <2>1. /\ UNCHANGED book /\ req[r].phase = "serve"
        /\ req[r].call.operation \in Writes /\ ~Missing(r)
        /\ req' = [req EXCEPT ![r].phase = "transaction"]
    BY <1>8 DEF Begin, Serving
  <2>2. /\ req'[r].phase = "transaction" /\ req'[r].call = req[r].call
        /\ req'[r].venue = req[r].venue
        /\ req'[r].reply = req[r].reply
        /\ \A q \in Requests \ {r} : req'[q] = req[q]
    BY <1>1, <2>1 DEF RequestType
  <2>3. BookType' /\ AnswersFit' /\ BookLasts
    BY <2>1, BookKept
  <2>4. ~Missing(r)'
    BY <1>1, <2>1, <2>2, <2>3, StillVisible DEF RequestFits
  <2>5. RequestFits(r)'
    BY <1>1, <2>1, <2>2, <2>4 DEF RequestFits, Honest
  <2> QED BY <2>2, <2>3, <2>5, OneFits
<1>9. CASE Commit(r)
  BY <1>9, CommitFits
<1>10. CASE Deliver(r)
  <2>1. UNCHANGED book /\ req' = [req EXCEPT ![r] = NoRequest]
    BY <1>10 DEF Deliver
  <2>2. \A q \in Requests : Same(q) \/ req'[q] = NoRequest
    BY <1>1, <2>1 DEF Same
  <2> QED BY <2>1, <2>2, LeftFits
<1>11. CASE AcceptAgain(r)
  <2> DEFINE c == req[r].call
  <2>1. /\ UNCHANGED book /\ req[r].phase = "serve"
        /\ Answer(r, SuccessStatus(c)) /\ ~Missing(r) /\ AlreadyAccepted(c)
        /\ c \in Calls /\ c.operation = "AcceptPartnerOrder"
    BY <1>1, <1>11 DEF AcceptAgain, Serving, Success, AlreadyAccepted, RequestFits
  <2>2. c.operation \in OrderCommandNames /\ c.operation # "CreateOrder"
    BY <2>1 DEF OrderCommandNames, PartnerCommands
  <2>3. PICK o \in Orders : o = c.order /\ Visible(r, o)
    BY <2>1, <2>2, NamedOrder DEF Missing
  <2>4. history[o] \in Seq(Status) /\ history[o] # <<>> /\ Last(history[o]) = "accepted"
    BY <2>1, <2>3 DEF SInv, BookType, AlreadyAccepted
  <2>5. Len(history[o]) \in DOMAIN history[o]
    BY <2>4, LenProperties, EmptySeq
  <2>6. Target(c) = "accepted"
    BY <2>1 DEF Target
  <2>7. Fulfilled(r, o)
    BY <2>1, <2>2, <2>3, <2>4, <2>5, <2>6, NamedOrder DEF Fulfilled, Last
  <2> QED BY <1>2, <2>1, <2>7, SuccessStatusType, AnsweredFits
<1> QED BY <1>3, <1>4, <1>5, <1>6, <1>7, <1>8, <1>9, <1>10, <1>11 DEF Handle

LEMMA SInvInit == Init => SInv
<1> SUFFICES ASSUME Init PROVE SInv
  OBVIOUS
<1>1. KInv
  BY KInvInit
<1>2. BookType /\ AnswersFit
  <2>1. <<>> \in Seq(Status)
    BY EmptySeq
  <2> QED BY <2>1 DEF Init, Book!Init, BookType, AnswersFit
<1>3. ProcType /\ KeysAreLong
  BY BoundsType DEF Init, ProcType, KeysAreLong, Stopped
<1>4. RequestsFit
  BY DEF Init, RequestsFit, RequestFits, Honest, NoRequest
<1> QED BY <1>1, <1>2, <1>3, <1>4 DEF SInv

LEMMA SInvStep == SInv /\ [Next]_vars => SInv'
<1> SUFFICES ASSUME SInv, [Next]_vars PROVE SInv'
  OBVIOUS
<1>1. KInv'
  BY KInvStep DEF SInv
<1>2. ASSUME NEW i \in Instances, Process(i) PROVE SInv'
  BY <1>1, <1>2, ProcessFits, ProcessLoads DEF SInv
<1>3. ASSUME UNCHANGED <<latest, proc, starts, calls>>
      PROVE  ProcType' /\ KeysAreLong'
  BY <1>3 DEF SInv, ProcType, KeysAreLong
<1>4. ASSUME NEW r \in Requests, Receive(r) PROVE SInv'
  <2>1. UNCHANGED <<latest, proc, starts, calls>>
    BY <1>4 DEF Receive
  <2> QED BY <1>1, <1>3, <1>4, <2>1, ReceiveFits, BookKept DEF SInv
<1>5. ASSUME NEW r \in Requests, Handle(r) PROVE SInv'
  <2>1. UNCHANGED <<latest, proc, starts, calls>>
    BY <1>5 DEF Handle, Authenticate, DecodeFails, Refuse, ServeRead, Replay,
                AcceptAgain, Begin, Commit, Fails, Deliver
  <2> QED BY <1>1, <1>3, <1>5, <2>1, HandleFits DEF SInv
<1>6. ASSUME NEW r \in Requests, NEW i \in Instances, NEW c \in Calls,
             Arrive(r, i, c)
      PROVE  SInv'
  BY <1>1, <1>6, ArriveFits
<1>7. CASE UNCHANGED vars
  <2>1. UNCHANGED book /\ UNCHANGED <<latest, proc, starts, calls>> /\ req' = req
    BY <1>7 DEF vars
  <2> QED BY <1>1, <1>3, <2>1, LeftFits DEF SInv, Same
<1> QED BY <1>2, <1>4, <1>5, <1>6, <1>7 DEF Next

\* Whatever is answered, recorded or under way, the book bears it out: a
\* recorded answer tells of an order of the command's own subject and of a status
\* it went through, and so does every success that a caller may see.
THEOREM ServerInductive == Spec => []SInv
BY SInvInit, SInvStep, PTL DEF Spec

\* Every variable of the server keeps its type, and no key that is too short
\* gets into the table by way of a configuration.
THEOREM ServerTypeCorrect == Spec => []TypeOK
<1>1. SInv => TypeOK
  <2> SUFFICES ASSUME SInv PROVE TypeOK
    OBVIOUS
  <2>1. latest \subseteq keys
        /\ \A row \in keys : /\ row.venue \in Venues
                             /\ row.id = "bootstrap" => row.key \notin ShortKeys
    BY IssuedType DEF SInv, KInv, TableAsConfigured, KeysAreLong
  <2> QED BY <2>1 DEF SInv, KInv, BookType, ProcType, TypeOK
<1> QED BY <1>1, ServerInductive, PTL

\* A success is true, be it of a commit, of a recorded command with the same
\* body or of an order that was accepted before: an order that the caller sees,
\* the one named or one at the venue named, went through the status asked for.
THEOREM RepliesAreHonest == Spec => []AnswersAreHonest
<1>1. SInv => AnswersAreHonest
  BY DEF SInv, RequestsFit, RequestFits, Honest, AnswersAreHonest
<1> QED BY <1>1, ServerInductive, PTL

-----------------------------------------------------------------------------
(* The order book behind the server. *)

\* Only a transaction that commits writes the book.
LEMMA OnlyCommitsWrite ==
  ASSUME [Next]_vars
  PROVE  UNCHANGED book \/ \E r \in Requests : Commit(r)
<1>1. ASSUME NEW i \in Instances, Process(i) PROVE UNCHANGED book
  BY <1>1 DEF Process, Start, ConfigureVenueAPIKey, Listen, StartFails,
              ServeFails, Stop, ShutdownReturns, Exit, Crash
<1>2. ASSUME NEW r \in Requests, Receive(r) PROVE UNCHANGED book
  BY <1>2 DEF Receive
<1>3. ASSUME NEW r \in Requests, Handle(r), ~Commit(r) PROVE UNCHANGED book
  BY <1>3 DEF Handle, Authenticate, DecodeFails, Refuse, ServeRead, Replay,
              AcceptAgain, Begin, Fails, Deliver
<1>4. ASSUME NEW r \in Requests, NEW i \in Instances, NEW c \in Calls,
             Arrive(r, i, c)
      PROVE  UNCHANGED book
  BY <1>4 DEF Arrive
<1> QED BY <1>1, <1>2, <1>3, <1>4 DEF Next, vars

\* An order changes by its own people only: the customer who placed it, or a
\* request whose key opened the order's venue while it was under way, whatever
\* keys are replaced, processes killed and requests repeated meanwhile.
THEOREM OnlyOwnersChangeOrders == Spec => OrdersChangeByTheirOwn
<1>1. ASSUME SInv, SInv', [Next]_vars, NEW o \in Orders,
             history'[o] # history[o]
      PROVE  \E r \in Requests :
               /\ req[r].phase = "transaction"
               /\ req[r].call.operation \in OrderCommandNames
               /\ Visible(r, o)'
               /\ req[r].call.operation \in PartnerCommands =>
                    owner'[o].venue \in req[r].known
  <2>1. PICK r \in Requests : Commit(r)
    BY <1>1, OnlyCommitsWrite DEF book
  <2>2. /\ req[r].phase = "transaction" /\ Act(r)
        /\ req'[r].call = req[r].call /\ req'[r].venue = req[r].venue
    BY <1>1, <2>1 DEF Commit, Answer, SInv, KInv, RequestType
  <2>3. req[r].call.operation # "SyncPartnerMenu"
    BY <1>1, <2>2 DEF Act, book
  <2>4. /\ req[r].call.operation \in OrderCommandNames
        /\ Visible(r, o)'
    <3>1. PICK o2 \in Orders :
            /\ req[r].call.operation \in OrderCommandNames
            /\ history' = [history EXCEPT ![o2] = Append(@, Target(req[r].call))]
            /\ Fulfilled(r, o2)'
      BY <1>1, <2>2, <2>3, CommitActs
    <3>2. o2 = o
      BY <1>1, <3>1 DEF SInv, BookType
    <3> QED BY <3>1, <3>2 DEF Fulfilled
  <2>5. ASSUME req[r].call.operation \in PartnerCommands
        PROVE  owner'[o].venue \in req[r].known
    <3>1. req[r].call.operation \in PartnerOperations
      BY <2>5 DEF PartnerOperations
    <3>2. owner'[o] # None /\ owner'[o].venue = req[r].venue
      BY <2>2, <2>4, <3>1 DEF Visible, Caller, Subject
    <3>3. owner'[o].venue \in Venues
      BY <1>1, <3>2 DEF SInv, BookType
    <3>4. req[r].venue # None
      BY <3>2, <3>3, NoneIsAbsent
    <3> QED BY <1>1, <3>2, <3>4 DEF SInv, KInv, CallersAreKnown
  <2> QED BY <2>2, <2>4, <2>5
<1>2. SInv /\ SInv' /\ [Next]_vars =>
        [\A o \in Orders : history'[o] # history[o] =>
           \E r \in Requests :
             /\ req[r].phase = "transaction"
             /\ req[r].call.operation \in OrderCommandNames
             /\ Visible(r, o)'
             /\ req[r].call.operation \in PartnerCommands =>
                  owner'[o].venue \in req[r].known]_vars
  BY <1>1
<1> QED BY <1>2, ServerInductive, PTL DEF Spec, OrdersChangeByTheirOwn
=============================================================================
