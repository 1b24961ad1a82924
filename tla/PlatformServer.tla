--------------------------- MODULE PlatformServer ---------------------------
(***************************************************************************)
(* The platform's processes and the way of a request through one of them:   *)
(* a process starts, configures the API key of its venue in the database,   *)
(* serves until it is told to stop or dies; a request is received, checked, *)
(* bound to parameters, authenticated, decoded, served and answered.        *)
(* Several processes may share the database, as they do while one replaces  *)
(* another.                                                                 *)
(*                                                                          *)
(* Behind the handlers is the abstract OrderBook that OrderCommands         *)
(* implements: a command takes effect in one step, the commit of its        *)
(* transaction.  Retries, keys used twice and lost acknowledgements of a    *)
(* commit are those of OrderCommands.                                       *)
(***************************************************************************)
EXTENDS OrderLifecycle, FiniteSets, TLC

CONSTANTS
  Instances,       \* processes that can exist at the same time
  Requests,        \* requests that can be under way at the same time
  Configurations,  \* what the environment of a process may say
  Calls,           \* the requests that clients may send
  Issued,          \* keys that were put into the table by hand
  Venues, Users,   \* the venues in the database, and customers
  Orders,          \* order identifiers
  ShortKeys,       \* keys of fewer than 16 bytes
  None,            \* the absent value
  MaxStarts,       \* bound: how often processes start
  MaxCalls         \* bound: how many requests are received

VARIABLES
  keys,            \* table venue_api_keys: its active rows
  latest,          \* history variable: the bootstrap row configured last
  history,         \* the order book: statuses of each order
  answer,          \* the order book: recorded answers of the commands
  owner,           \* table orders: customer and venue of each order
  proc,            \* the processes
  req,             \* the requests
  starts, calls    \* starts and requests so far

book == <<history, answer, owner>>
vars == <<keys, latest, book, proc, req, starts, calls>>

-----------------------------------------------------------------------------
(* The operations of the API. *)

CustomerReads == {"ListCustomerOrders", "GetCustomerOrder"}
CustomerCommands == {"CreateOrder", "CancelCustomerOrder"}
PublicReads == {"ListVenues", "GetVenue", "GetVenueMenu", "GetPlatformHealth"}
PartnerReads == {"ListPartnerOrders", "ListPartnerOrderEvents"}
PartnerCommands == {"AcceptPartnerOrder", "RejectPartnerOrder",
                    "UpdatePartnerOrderStatus"}
PartnerOperations ==
  PartnerReads \cup PartnerCommands \cup {"SyncPartnerMenu"}
OrderCommandNames == CustomerCommands \cup PartnerCommands
Writes == OrderCommandNames \cup {"SyncPartnerMenu"}
Operations ==
  CustomerReads \cup PublicReads \cup PartnerReads \cup Writes

\* Operations that decode a body.
WithBody == Writes

\* What the generated wrappers bind to parameters: query filters, the order or
\* venue of the path, the X-User-Id and Idempotency-Key headers.
OrdersParts == [ListCustomerOrders |-> {"filter", "user"},
                CreateOrder |-> {"user", "key"}]
OrderParts == [GetCustomerOrder |-> {"id", "user"},
               CancelCustomerOrder |-> {"id", "user", "key"}]
PublicParts == [ListVenues |-> {"filter"}, GetVenue |-> {"id"},
                GetVenueMenu |-> {"id"}, GetPlatformHealth |-> {}]
PartnerParts == [SyncPartnerMenu |-> {}, ListPartnerOrderEvents |-> {"filter"},
                 ListPartnerOrders |-> {"filter"}]
DecisionParts == [AcceptPartnerOrder |-> {"id", "key"},
                  RejectPartnerOrder |-> {"id", "key"},
                  UpdatePartnerOrderStatus |-> {"id", "key"}]
Parts == OrdersParts @@ OrderParts @@ PublicParts @@ PartnerParts
           @@ DecisionParts

\* What can be wrong with a request: no such route or method, outside the
\* OpenAPI document, a parameter that the document admits and its wrapper does
\* not (a header given twice, an identifier that is no UUID), or a body that
\* the document admits and the decoder does not.
Flaws == {"route", "method", "schema", "filter", "id", "user", "key", "body"}

ASSUME CallsType ==
  \A c \in Calls :
    /\ c.operation \in Operations
    /\ c.flaw \in Flaws \cup {None}
    /\ c.operation \in CustomerReads \cup CustomerCommands => c.user \in Users
    /\ c.operation \in {"CreateOrder"} => c.venue \in Venues
    /\ IF c.operation \in OrderCommandNames \ {"CreateOrder"}
       THEN c.order \in Orders ELSE c.order = None
    /\ c.operation = "UpdatePartnerOrderStatus" => c.status \in Status
ASSUME IssuedType ==
  \A row \in Issued : row.id # "bootstrap" /\ row.venue \in Venues
ASSUME NoneIsAbsent ==
  None \notin Orders \cup Venues \cup [customer : Users, venue : Venues]
            \cup (Orders \X Seq(Status))
ASSUME BoundsType == MaxStarts \in Nat /\ MaxCalls \in Nat

\* A command is known by its subject, operation and Idempotency-Key; the
\* subject of a venue's command is the venue, whichever key opened it (None
\* until a key is checked).
Subject(c, venue) == IF c.operation \in PartnerOperations THEN venue ELSE c.user
CommandId(c, venue) == <<Subject(c, venue), c.operation, c.order, c.key>>
CommandIds ==
  {CommandId(c, v) : c \in {d \in Calls : d.operation \in OrderCommandNames},
                     v \in Venues \cup {None}}

Book == INSTANCE OrderBook WITH Unanswered <- None

-----------------------------------------------------------------------------
(* Processes and requests. *)

Stopped == [phase |-> "down", config |-> None]
NoRequest == [phase |-> "none", at |-> None, call |-> None, known |-> {},
              venue |-> None, reply |-> 0]

Init ==
  /\ keys = Issued /\ latest = {}
  /\ Book!Init
  /\ owner = [o \in Orders |-> None]
  /\ proc = [i \in Instances |-> Stopped]
  /\ req = [r \in Requests |-> NoRequest]
  /\ starts = 0 /\ calls = 0

Enter(i, phase) == proc' = [proc EXCEPT ![i].phase = phase]
On(r, i) == req[r].phase # "none" /\ req[r].at = i

\* FindVenueIDByAPIKey: the venues that the key of a call opens, given the
\* active rows.  A fingerprint is unique, so there is at most one.
OpenedBy(c, rows) == {row.venue : row \in {k \in rows : k.key = c.apiKey}}

\* The process is gone, and with it the requests it was working on.
Die(i) ==
  /\ proc' = [proc EXCEPT ![i] = Stopped]
  /\ req' = [r \in Requests |-> IF On(r, i) THEN NoRequest ELSE req[r]]

\* A request sees the connections of its process until the pool is closed.
PoolOpen(r) == proc[req[r].at].phase \in {"serving", "stopping"}

Answer(r, status) == req' = [req EXCEPT ![r].phase = "reply",
                                        ![r].reply = status]

\* statusFor: the status of a domain error.
StatusFor(code) ==
  CASE code = "invalid_request" -> 400
    [] code = "invalid_venue_api_key" -> 401
    [] code \in {"venue_not_found", "order_not_found"} -> 404
    [] code \in {"venue_closed", "item_not_found", "item_unavailable"} -> 422
    [] code = "internal_error" -> 500
    [] OTHER -> 409
Problem(r, code) == Answer(r, StatusFor(code))

SuccessStatus(c) == IF c.operation = "CreateOrder" THEN 201 ELSE 200
Success(r) == Answer(r, SuccessStatus(req[r].call))

-----------------------------------------------------------------------------
(* The life of a process. *)

\* Variant: a key of any length will do.
Loads_AnyKey(c) == c.complete

\* config.Load: what is required is there and the key is long enough.
Loads(c) == c.complete /\ c.key \notin ShortKeys

\* A process loads its configuration and reaches the database.
Start(i, c) ==
  /\ proc[i].phase = "down" /\ starts < MaxStarts
  /\ Loads(c)
  /\ proc' = [proc EXCEPT ![i] = [phase |-> "configure", config |-> c]]
  /\ starts' = starts + 1
  /\ UNCHANGED <<keys, latest, book, req, calls>>

\* The bootstrap key has one row, whose venue has to exist and whose
\* fingerprint has to differ from every other row's.
BootstrapRow(c) == [id |-> "bootstrap", venue |-> c.venue, key |-> c.key]
Others == {row \in keys : row.id # "bootstrap"}
Accepts(c) == c.venue \in Venues /\ \A row \in Others : row.key # c.key

\* What the table is meant to say from now on.  Requests that are not
\* authenticated yet may meet the new row.
Configured(c) ==
  /\ latest' = {BootstrapRow(c)}
  /\ req' = [r \in Requests |->
              IF req[r].phase \in {"receive", "authenticate"}
              THEN [req[r] EXCEPT !.known = @ \cup
                      OpenedBy(req[r].call, Issued \cup latest')]
              ELSE req[r]]

\* Variant: every key that is configured gets a row of its own.
ConfigureVenueAPIKey_NewRow(i) ==
  /\ proc[i].phase = "configure"
  /\ Accepts(proc[i].config)
  /\ keys' = keys \cup {BootstrapRow(proc[i].config)}
  /\ Configured(proc[i].config)
  /\ Enter(i, "listen")
  /\ UNCHANGED <<book, starts, calls>>

\* ConfigureVenueAPIKey replaces the row.  Whatever goes wrong afterwards, the
\* acknowledgement included, the key that was there before is gone.
ConfigureVenueAPIKey(i) ==
  /\ proc[i].phase = "configure"
  /\ Accepts(proc[i].config)
  /\ keys' = Others \cup {BootstrapRow(proc[i].config)}
  /\ Configured(proc[i].config)
  /\ Enter(i, "listen") \/ proc' = [proc EXCEPT ![i] = Stopped]
  /\ UNCHANGED <<book, starts, calls>>

Listen(i) ==
  /\ proc[i].phase = "listen"
  /\ proc[i].config.cache # "unusable"
  /\ proc' = [proc EXCEPT ![i] = [phase |-> "serving", config |-> None]]
  /\ UNCHANGED <<keys, latest, book, req, starts, calls>>

\* The key is refused, the cache's URL is unusable, or the address is taken.
StartFails(i) ==
  /\ proc[i].phase \in {"configure", "listen"}
  /\ proc' = [proc EXCEPT ![i] = Stopped]
  /\ UNCHANGED <<keys, latest, book, req, starts, calls>>

\* The listener breaks: the process ends without Shutdown.
ServeFails(i) ==
  /\ proc[i].phase = "serving"
  /\ Enter(i, "closing")
  /\ UNCHANGED <<keys, latest, book, req, starts, calls>>

\* SIGTERM: no new requests.
Stop(i) ==
  /\ proc[i].phase = "serving"
  /\ Enter(i, "stopping")
  /\ UNCHANGED <<keys, latest, book, req, starts, calls>>

\* Variant: the context given to Shutdown has no deadline.
ShutdownReturns_WhenIdle(i) ==
  /\ proc[i].phase = "stopping"
  /\ \A r \in Requests : ~On(r, i)
  /\ Enter(i, "closing")
  /\ UNCHANGED <<keys, latest, book, req, starts, calls>>

\* Shutdown returns when the requests have ended, or at its deadline.
ShutdownReturns(i) ==
  /\ proc[i].phase = "stopping"
  /\ Enter(i, "closing")
  /\ UNCHANGED <<keys, latest, book, req, starts, calls>>

\* store.Close waits for the connections in use, and the process ends.
Exit(i) ==
  /\ proc[i].phase = "closing"
  /\ \A r \in Requests : On(r, i) => req[r].phase # "transaction"
  /\ Die(i)
  /\ UNCHANGED <<keys, latest, book, starts, calls>>

Crash(i) ==
  /\ proc[i].phase # "down"
  /\ Die(i)
  /\ UNCHANGED <<keys, latest, book, starts, calls>>

-----------------------------------------------------------------------------
(* The way of a request. *)

Arrive(r, i, c) ==
  /\ req[r].phase = "none" /\ calls < MaxCalls
  /\ proc[i].phase = "serving"
  /\ calls' = calls + 1
  /\ req' = [req EXCEPT ![r] =
               [NoRequest EXCEPT !.phase = "receive", !.at = i, !.call = c,
                                 !.known = OpenedBy(c, Issued \cup latest)]]
  /\ UNCHANGED <<keys, latest, book, proc, starts>>

\* validationProblem: what the OpenAPI validator answers.
Invalid(c) ==
  CASE c.flaw = "route" -> 404
    [] c.flaw = "method" -> 405
    [] c.flaw = "schema" -> 400
    [] OTHER -> 0

\* The wrapper of the operation cannot bind a parameter.
Unbound(c) == c.flaw \in Parts[c.operation]

\* The validator reads the whole body, however slowly it comes, before the
\* wrapper binds the parameters and the handler is called.
Receive(r) ==
  /\ req[r].phase = "receive"
  /\ LET c == req[r].call
     IN IF Invalid(c) # 0 THEN Answer(r, Invalid(c))
        ELSE IF Unbound(c) THEN Problem(r, "invalid_request")
        ELSE req' = [req EXCEPT ![r].phase =
               IF c.operation \in PartnerOperations THEN "authenticate"
               ELSE "serve"]
  /\ UNCHANGED <<keys, latest, book, proc, starts, calls>>

\* authenticatedVenue: the venue of the key, or 401, before the body is decoded.
\* The document does not demand the key; a request without one is refused
\* without a look at the table.
Authenticate(r) ==
  /\ req[r].phase = "authenticate"
  /\ PoolOpen(r) \/ req[r].call.apiKey = None
  /\ LET venues == OpenedBy(req[r].call, keys)
     IN IF venues = {} THEN Problem(r, "invalid_venue_api_key")
        ELSE \E v \in venues :
               req' = [req EXCEPT ![r].phase = "serve", ![r].venue = v]
  /\ UNCHANGED <<keys, latest, book, proc, starts, calls>>

DecodeFails(r) ==
  /\ req[r].phase = "serve"
  /\ req[r].call.flaw = "body" /\ req[r].call.operation \in WithBody
  /\ Problem(r, "invalid_request")
  /\ UNCHANGED <<keys, latest, book, proc, starts, calls>>

-----------------------------------------------------------------------------
(* Serving a request. *)

Undecodable(c) == c.flaw = "body" /\ c.operation \in WithBody
Serving(r) == req[r].phase = "serve" /\ ~Undecodable(req[r].call)

\* Nothing but the health check works without the database.
Health(r) == req[r].call.operation = "GetPlatformHealth"
Reachable(r) == PoolOpen(r) \/ Health(r)

\* The subject of a request, and the orders it can see.
Caller(r) == Subject(req[r].call, req[r].venue)
Id(r) == CommandId(req[r].call, req[r].venue)
Visible(r, o) ==
  /\ owner[o] # None
  /\ IF req[r].call.operation \in PartnerOperations
     THEN owner[o].venue = Caller(r) ELSE owner[o].customer = Caller(r)

NamesOrder(c) == c.order # None
Missing(r) == NamesOrder(req[r].call) /\ ~Visible(r, req[r].call.order)

\* The codes that a service may refuse an operation with; when it does is the
\* matter of OrderCommands, OrderPricing and MenuPublication.
RefusalCodes(operation) ==
  {"invalid_request"} \cup
  CASE operation \in {"GetVenue", "GetVenueMenu", "SyncPartnerMenu"} ->
         {"venue_not_found"}
    [] operation = "CreateOrder" ->
         {"venue_not_found", "venue_closed", "menu_version_mismatch",
          "item_not_found", "item_unavailable", "idempotency_key_reused"}
    [] operation \in OrderCommandNames \ {"CreateOrder"} ->
         {"invalid_order_transition", "idempotency_key_reused"}
    [] OTHER -> {}

Refuse(r) ==
  /\ Serving(r) \/ req[r].phase = "transaction"
  /\ Reachable(r) /\ ~Health(r)
  /\ IF Missing(r) THEN Problem(r, "order_not_found")
     ELSE \E code \in RefusalCodes(req[r].call.operation) : Problem(r, code)
  /\ UNCHANGED <<keys, latest, book, proc, starts, calls>>

\* A read, or a menu that is not newer than the published one.
ServeRead(r) ==
  /\ Serving(r) /\ Reachable(r)
  /\ req[r].call.operation \notin OrderCommandNames
  /\ ~Missing(r)
  /\ Success(r)
  /\ UNCHANGED <<keys, latest, book, proc, starts, calls>>

\* The status that a command gives its order.
Target(c) ==
  CASE c.operation = "CreateOrder" -> "pending_confirmation"
    [] c.operation = "CancelCustomerOrder" -> "cancelled"
    [] c.operation = "AcceptPartnerOrder" -> "accepted"
    [] c.operation = "RejectPartnerOrder" -> "rejected"
    [] c.operation = "UpdatePartnerOrderStatus" -> c.status

Recorded(r) ==
  req[r].call.operation \in OrderCommandNames /\ answer[Id(r)] # None

\* The hash of the body that came with the key: calls differ in the status they
\* ask for and in the venue of a new order.
SameRequest(r) ==
  LET c == req[r].call
      done == answer[Id(r)]
  IN /\ Last(done[2]) = Target(c)
     /\ ~NamesOrder(c) => owner[done[1]].venue = c.venue

\* A command that is recorded is answered with its stored response, before a
\* transaction or in it; with another body it is refused.
Replay(r) ==
  /\ Serving(r) \/ req[r].phase = "transaction"
  /\ PoolOpen(r) /\ Recorded(r) /\ SameRequest(r)
  /\ Success(r)
  /\ UNCHANGED <<keys, latest, book, proc, starts, calls>>

\* Variant: only the identifiers of the venue are compared, not the status.
AlreadyAccepted_AnyStatus(c) ==
  c.operation = "AcceptPartnerOrder" /\ history[c.order] # <<>>

AlreadyAccepted(c) ==
  /\ c.operation = "AcceptPartnerOrder"
  /\ history[c.order] # <<>> /\ Last(history[c.order]) = "accepted"

\* An accept of an order that is accepted succeeds if it names the identifier
\* the venue gave the order, and nothing is recorded for its key.  Its handler
\* may have looked for a record before one was committed.
AcceptAgain(r) ==
  /\ Serving(r) /\ PoolOpen(r)
  /\ ~Missing(r) /\ AlreadyAccepted(req[r].call)
  /\ Success(r)
  /\ UNCHANGED <<keys, latest, book, proc, starts, calls>>

\* The request takes a connection for its transaction and keeps it.
Begin(r) ==
  /\ Serving(r) /\ PoolOpen(r)
  /\ req[r].call.operation \in Writes
  /\ ~Missing(r) /\ ~Recorded(r)
  /\ req' = [req EXCEPT ![r].phase = "transaction"]
  /\ UNCHANGED <<keys, latest, book, proc, starts, calls>>

\* What the transaction does: an order command acts on the book, and a menu is
\* none of its business.
Act(r) ==
  LET c == req[r].call
  IN IF c.operation = "SyncPartnerMenu" THEN UNCHANGED book
     ELSE \E o \in IF NamesOrder(c) THEN {c.order}
                   ELSE {new \in Orders : owner[new] = None} :
            /\ Book!Execute(Id(r), o, Target(c))
            /\ owner' = IF NamesOrder(c) THEN owner
                        ELSE [owner EXCEPT ![o] =
                                [customer |-> c.user, venue |-> c.venue]]

\* The commit takes effect; its acknowledgement may not arrive.
Commit(r) ==
  /\ req[r].phase = "transaction"
  /\ Act(r)
  /\ \E code \in {None, "internal_error"} :
       Answer(r, IF code # None THEN StatusFor(code)
                 ELSE SuccessStatus(req[r].call))
  /\ UNCHANGED <<keys, latest, proc, starts, calls>>

\* Any statement may fail, and all do when the pool is closed; a transaction
\* that has begun rolls back.
Fails(r) ==
  /\ \/ req[r].phase = "authenticate" /\ req[r].call.apiKey # None
     \/ req[r].phase = "transaction"
     \/ Serving(r) /\ ~Health(r)
  /\ Problem(r, "internal_error")
  /\ UNCHANGED <<keys, latest, book, proc, starts, calls>>

\* The reply is written, or lost with the connection, or comes after the write
\* deadline.
Deliver(r) ==
  /\ req[r].phase = "reply"
  /\ req' = [req EXCEPT ![r] = NoRequest]
  /\ UNCHANGED <<keys, latest, book, proc, starts, calls>>

-----------------------------------------------------------------------------
Process(i) ==
  \/ \E c \in Configurations : Start(i, c)
  \/ ConfigureVenueAPIKey(i) \/ Listen(i) \/ StartFails(i) \/ ServeFails(i)
  \/ Stop(i) \/ ShutdownReturns(i) \/ Exit(i) \/ Crash(i)

\* What a handler does of its own accord once the request is there.
Handle(r) ==
  \/ Authenticate(r) \/ DecodeFails(r) \/ Refuse(r) \/ ServeRead(r)
  \/ Replay(r) \/ AcceptAgain(r) \/ Begin(r) \/ Commit(r) \/ Fails(r) \/ Deliver(r)

Next ==
  \/ \E i \in Instances : Process(i)
  \/ \E r \in Requests : \/ Receive(r) \/ Handle(r)
                         \/ \E i \in Instances, c \in Calls : Arrive(r, i, c)

Spec == Init /\ [][Next]_vars

\* Handlers run and calls of the database end.  Nothing makes a client send
\* the rest of its body: the server has a deadline for headers only.
Fairness ==
  /\ \A i \in Instances : WF_vars(ShutdownReturns(i)) /\ WF_vars(Exit(i))
  /\ \A r \in Requests : WF_vars(Handle(r))
FairSpec == Spec /\ Fairness

-----------------------------------------------------------------------------
(* Properties. *)

\* The type of every variable; a configured key that is too short gets nowhere.
HTTPStatus == {200, 201, 400, 401, 404, 405, 409, 422, 500}
RequestType ==
  [phase : {"none", "receive", "authenticate", "serve", "transaction", "reply"},
   at : Instances \cup {None}, call : Calls \cup {None},
   known : SUBSET Venues, venue : Venues \cup {None},
   reply : {0} \cup HTTPStatus]
TypeOK ==
  /\ \A row \in keys : /\ row.venue \in Venues
                       /\ row.id = "bootstrap" => row.key \notin ShortKeys
  /\ latest \subseteq keys
  /\ history \in [Orders -> Seq(Status)]
  /\ DOMAIN answer = CommandIds
  /\ owner \in [Orders -> {None} \cup [customer : Users, venue : Venues]]
  /\ proc \in [Instances ->
       [phase : {"down", "configure", "listen", "serving", "stopping",
                 "closing"},
        config : Configurations \cup {None}]]
  /\ req \in [Requests -> RequestType]
  /\ starts \in 0 .. MaxStarts /\ calls \in 0 .. MaxCalls

\* A request acts for a venue only if its key belonged to the venue at some
\* time between its arrival and its authentication, whichever processes were
\* started, with whichever keys, and died while it was under way.
CallersAreKnown ==
  \A r \in Requests : req[r].venue # None => req[r].venue \in req[r].known

\* An order that the caller sees, the one that the request names or one of the
\* venue that it names, went through the status that the request asked for.
Fulfilled(r, o) ==
  /\ Visible(r, o)
  /\ IF NamesOrder(req[r].call) THEN o = req[r].call.order
                                ELSE owner[o].venue = req[r].call.venue
  /\ \E n \in DOMAIN history[o] : history[o][n] = Target(req[r].call)

\* A success means that what was asked for happened to the caller's own order,
\* whichever way it came about: by the request's own commit, by an earlier one
\* under its key, with the same body, or by an accept under another key; and
\* whatever became of processes, keys and the other requests meanwhile.
AnswersAreHonest ==
  \A r \in Requests :
    /\ req[r].reply \in {200, 201}
    /\ req[r].call.operation \in OrderCommandNames
    => \E o \in Orders : Fulfilled(r, o)

\* An order changes by its own people only: the request that changes it is the
\* customer's who placed it, or came with a key of its venue that was valid at
\* some time while the request was under way.
OrdersChangeByTheirOwn ==
  [][\A o \in Orders : history'[o] # history[o] =>
       \E r \in Requests :
         /\ req[r].phase = "transaction"
         /\ req[r].call.operation \in OrderCommandNames
         /\ Visible(r, o)'
         /\ req[r].call.operation \in PartnerCommands =>
              owner'[o].venue \in req[r].known]_vars

\* A process that was told to stop is gone in the end, even if a client never
\* sends the rest of its request.
StopEnds ==
  \A i \in Instances : proc[i].phase = "stopping" ~> proc[i].phase = "down"
=============================================================================
