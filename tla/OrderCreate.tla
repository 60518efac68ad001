---------------------------- MODULE OrderCreate ----------------------------
(***************************************************************************)
(* POST portInOrders of portin-requests, from the decoded body to the      *)
(* answer: conversion, validation, the look for the document on the SFTP   *)
(* server, the look for open orders, the insert, the created event.        *)
(* Handlers of different requests run next to each other.  The body has    *)
(* passed the OpenAPI schema.  Also what GET answers of an order.          *)
(***************************************************************************)
EXTENDS PortInStore, Startup

CONSTANTS
  Requests,
  BodiesOf,      \* request -> the bodies it may have
  CreationDates  \* what now() may be when an order is inserted

CustomerTypes == {"person", "company", "government", "individual"}

\* telco and temp are telcoAccount.id and .msisdn; docs and ref say whether the
\* customer comes with idDocuments and with a customer reference.
IsBody(b) ==
  /\ \A i \in DOMAIN b.numbers :
       /\ DOMAIN b.numbers[i] = {"msisdn", "telco", "temp", "status"}
       /\ b.numbers[i].msisdn \in Msisdns
       /\ b.numbers[i].status \in NumberStatuses \cup {Null}
  /\ b.due \in Int
  /\ b.customers \subseteq CustomerTypes
  /\ b.docs \in BOOLEAN /\ b.ref \in BOOLEAN
  /\ "person" \in b.customers \/ "individual" \in b.customers => b.docs

\* The answers; a missing document and a forbidden one have the same code.

OK == [status |-> 200, code |-> ""]
ErrMandatoryParameterMissing == [status |-> 400, code |-> "MNP-4004"]
ErrInvalidParameterValue     == [status |-> 400, code |-> "MNP-4005"]
ErrPortationRequestExists    == [status |-> 409, code |-> "MNP-4007"]
ErrDocNotAllowed             == [status |-> 400, code |-> "MNP-4012"]
InternalError                == [status |-> 500, code |-> "MNP-5001"]
Recovered                    == [status |-> 500, code |-> "panic"]
NoAnswer                     == [status |-> 0,   code |-> ""]

Answers ==
  {OK, ErrMandatoryParameterMissing, ErrInvalidParameterValue,
   ErrPortationRequestExists, ErrDocNotAllowed, InternalError, Recovered, NoAnswer}

ASSUME CreateAssumption ==
  /\ CreationDates \subseteq Dates
  /\ Null \notin Answers
  /\ \A r \in Requests : \A b \in BodiesOf[r] : IsBody(b)

VARIABLES
  at,      \* request -> how far its handler is
  body,    \* request -> its body
  answer,  \* request -> the answer, if any
  mine,    \* request -> the id of the order it inserted
  seen     \* history: request -> orders that were there when it looked

createVars == <<at, body, answer, mine, seen>>

CreateInit ==
  /\ at = [r \in Requests |-> "new"]
  /\ body \in {f \in [Requests -> UNION {BodiesOf[r] : r \in Requests}] :
                 \A r \in Requests : f[r] \in BodiesOf[r]}
  /\ answer = [r \in Requests |-> Null]
  /\ mine = [r \in Requests |-> Null]
  /\ seen = [r \in Requests |-> {}]

-----------------------------------------------------------------------------
GetMSISDNs(b) == {b.numbers[i].msisdn : i \in DOMAIN b.numbers}

\* ToModel dereferences the idDocuments of a company and of a government.
ToModelPanics(b) == ~b.docs /\ b.customers \cap {"company", "government"} # {}

AccountMissing(b) ==
  \E i \in DOMAIN b.numbers : b.numbers[i].telco = Null /\ b.numbers[i].temp = Null

\* CreatePortInOrderValidator.Validate; its checks in their order.
Validate(b) ==
  CASE AccountMissing(b) -> ErrMandatoryParameterMissing
    [] ~AccountMissing(b) /\ b.url = "" -> ErrMandatoryParameterMissing
    [] OTHER ->
         IF /\ b.process \in {Null, "ShortTimePort", "LongTimePort", "GOS"}
            /\ Cardinality(b.customers) = 1
           THEN OK ELSE ErrInvalidParameterValue

ValidFileExtension(b) == b.url \in {".pdf", ".doc", ".docx", ".jpg", ".jpeg", ".png"}

\* ToEntity finds a customer.
GetCustomerID(b) == b.ref

\* ToEntity, with the date that orders_bri gives the row.
ToEntity(b, now) ==
  [state |-> StatusNameToCode["created"], created |-> now, changed |-> Null,
   due |-> b.due, cdb |-> Null, by |-> Null,
   data |-> [n \in GetMSISDNs(b) |->
               b.numbers[CHOOSE i \in DOMAIN b.numbers :
                           b.numbers[i].msisdn = n].status]]

Temps(b) == [i \in DOMAIN b.numbers |-> b.numbers[i].temp]

Msisdn(b) == [i \in DOMAIN b.numbers |-> b.numbers[i].msisdn]

CreatedEvent(o) ==
  [kind |-> "created", order |-> o, date |-> Null,
   state |-> StatusNameToCode["created"]]

-----------------------------------------------------------------------------
\* The steps of a handler.

Proceed(r, to) == at' = [at EXCEPT ![r] = to]

Answer(r, a) ==
  /\ Proceed(r, "done")
  /\ answer' = [answer EXCEPT ![r] = a]

Disturbed == failures < MaxFailures /\ failures' = failures + 1

\* The middleware of the HTTP server recovers from the panic.
PanicInToModel(r) ==
  /\ at[r] = "new" /\ ToModelPanics(body[r])
  /\ Answer(r, Recovered)
  /\ UNCHANGED <<storeVars, body, mine, seen>>

\* ValidateAndPrepareCreatePortInOrder without the server.
Invalid(r) ==
  /\ at[r] = "new" /\ ~ToModelPanics(body[r])
  /\ \/ /\ Validate(body[r]) # OK
        /\ Answer(r, Validate(body[r]))
     \/ /\ Validate(body[r]) = OK /\ ~ValidFileExtension(body[r])
        /\ Answer(r, ErrInvalidParameterValue)
  /\ UNCHANGED <<storeVars, body, mine, seen>>

\* CheckDocumentAccess asks the server.  Any error, of the connection too, is
\* answered like a missing document.
CheckDocumentAccess(r) ==
  /\ at[r] = "new" /\ ~ToModelPanics(body[r])
  /\ Validate(body[r]) = OK /\ ValidFileExtension(body[r])
  /\ \/ Proceed(r, "check") /\ UNCHANGED answer
     \/ Answer(r, ErrDocNotAllowed)
  /\ UNCHANGED <<storeVars, body, mine, seen>>

\* checkExistingOrders, a query of its own.
CheckExistingOrders(r) ==
  /\ at[r] = "check"
  /\ \/ cfg.disable /\ Proceed(r, "insert") /\ UNCHANGED answer
     \/ /\ ~cfg.disable
        /\ FindOpenOrdersByMSISDN(GetMSISDNs(body[r]), cfg.allowed) = {}
        /\ Proceed(r, "insert") /\ UNCHANGED answer
     \/ /\ ~cfg.disable
        /\ FindOpenOrdersByMSISDN(GetMSISDNs(body[r]), cfg.allowed) # {}
        /\ Answer(r, ErrPortationRequestExists)
  /\ seen' = [seen EXCEPT ![r] = Present]
  /\ UNCHANGED <<storeVars, body, mine>>

\* createOrderInDB with a customer and rows that can be inserted.
CreateOrderInDB(r) ==
  /\ at[r] = "insert" /\ GetCustomerID(body[r])
  /\ CanInsert(Temps(body[r]), Msisdn(body[r]))
  /\ \E now \in CreationDates : Create(ToEntity(body[r], now), Msisdn(body[r]))
  /\ mine' = [mine EXCEPT ![r] = nextId]
  /\ Proceed(r, "publish")
  /\ UNCHANGED <<lock, events, failures, body, answer, seen>>

\* createOrderInDB without a customer sends nothing.
CustomerMissing(r) ==
  /\ at[r] = "insert" /\ ~GetCustomerID(body[r])
  /\ Answer(r, InternalError)
  /\ UNCHANGED <<storeVars, body, mine, seen>>

\* Mutant: the order is not inserted in the transaction of its numbers.
InsertRefusedHalfway(r) ==
  /\ at[r] = "insert" /\ GetCustomerID(body[r])
  /\ nextId \in Partitioned /\ ~CanInsert(Temps(body[r]), Msisdn(body[r]))
  /\ \E now \in CreationDates : Create(ToEntity(body[r], now), <<>>)
  /\ Answer(r, InternalError)
  /\ UNCHANGED <<lock, events, failures, body, mine, seen>>

\* A constraint refuses the order or its numbers.
InsertRefused(r) ==
  /\ at[r] = "insert" /\ GetCustomerID(body[r])
  /\ ~CanInsert(Temps(body[r]), Msisdn(body[r]))
  /\ CreateFails
  /\ Answer(r, InternalError)
  /\ UNCHANGED <<lock, events, failures, body, mine, seen>>

\* A transaction that was begun may have taken an id of the sequence.
RolledBack(r) ==
  UNCHANGED tableVars \/ (at[r] = "insert" /\ GetCustomerID(body[r]) /\ CreateFails)

\* A statement fails.
QueryFails(r) ==
  /\ \/ at[r] = "check" /\ ~cfg.disable
     \/ at[r] = "insert" /\ GetCustomerID(body[r])
  /\ Disturbed /\ RolledBack(r)
  /\ Answer(r, InternalError)
  /\ UNCHANGED <<lock, events, body, mine, seen>>

\* COMMIT takes effect but its answer is lost with the connection.
CreateUnanswered(r) ==
  /\ at[r] = "insert" /\ GetCustomerID(body[r]) /\ Disturbed
  /\ CanInsert(Temps(body[r]), Msisdn(body[r]))
  /\ \E now \in CreationDates : Create(ToEntity(body[r], now), Msisdn(body[r]))
  /\ mine' = [mine EXCEPT ![r] = nextId]
  /\ Answer(r, InternalError)
  /\ UNCHANGED <<lock, events, body, seen>>

\* PublishCreatedEvent, and 200 with the id.
PublishCreated(r) ==
  /\ at[r] = "publish"
  /\ events' = events \cup {CreatedEvent(mine[r])}
  /\ Answer(r, OK)
  /\ UNCHANGED <<tableVars, lock, failures, body, mine, seen>>

\* Mutant: the error of the producer is only logged.
PublishCreatedFailsUnseen(r) ==
  /\ at[r] = "publish" /\ Disturbed
  /\ Answer(r, OK)
  /\ UNCHANGED <<tableVars, lock, events, body, mine, seen>>

\* The order stays; the caller gets an error.
PublishCreatedFails(r) ==
  /\ at[r] = "publish" /\ Disturbed
  /\ Answer(r, InternalError)
  /\ UNCHANGED <<tableVars, lock, events, body, mine, seen>>

\* The process dies under the request: no answer.
Die(r) ==
  /\ at[r] \in {"check", "insert", "publish"} /\ Disturbed
  /\ RolledBack(r)
  /\ Answer(r, NoAnswer)
  /\ UNCHANGED <<lock, events, body, mine, seen>>

CreateNext ==
  \E r \in Requests :
    \/ PanicInToModel(r) \/ Invalid(r) \/ CheckDocumentAccess(r)
    \/ CheckExistingOrders(r) \/ CreateOrderInDB(r) \/ CustomerMissing(r)
    \/ InsertRefused(r) \/ PublishCreated(r)
    \/ QueryFails(r) \/ CreateUnanswered(r) \/ PublishCreatedFails(r) \/ Die(r)

-----------------------------------------------------------------------------
\* GET of an order and the search.

\* PortInEntityToModel and mapOrderToOpenAPI.
Response(o, row) ==
  [id |-> o, cdbProcessId |-> row.cdb, dueDate |-> row.due,
   state |-> StatusCodeToName[row.state], portationNumbers |-> row.data]

GetPortInOrder(id) == {Response(o, orders[o]) : o \in GetByID(id)}

GetPortInOrders(n, cdb) == {Response(f.id, f.row) : f \in Search(n, cdb)}

-----------------------------------------------------------------------------

CreateTypeOK ==
  /\ at \in [Requests -> {"new", "check", "insert", "publish", "done"}]
  /\ \A r \in Requests : body[r] \in BodiesOf[r]
  /\ answer \in [Requests -> Answers \cup {Null}]
  /\ \A r \in Requests : at[r] = "done" <=> answer[r] # Null
  /\ mine \in [Requests -> Partitioned \cup {Null}]
  /\ seen \in [Requests -> SUBSET Orders]

\* An order is stored with all of its numbers or not at all: the rows of
\* portation_numbers and the numbers in order_data, written by different
\* statements, agree, so the order is found by each of its numbers, and by its
\* process id once it has one; what is found equals what GET answers except for
\* the process id, which a search never shows (portin_order_repository.go:75-107,
\* 357-362).
OrdersAreWhole ==
  \A o \in Present :
    /\ DOMAIN orders[o].data = {n \in Msisdns : <<o, n>> \in numbers}
    /\ \A resp \in GetPortInOrder(o) :
         /\ \A n \in DOMAIN resp.portationNumbers :
              [resp EXCEPT !.cdbProcessId = Null] \in GetPortInOrders(n, Null)
         /\ resp.cdbProcessId # Null =>
              [resp EXCEPT !.cdbProcessId = Null]
                \in GetPortInOrders(Null, resp.cdbProcessId)

\* A caller that got 200 has an order of its own that was announced, and an
\* order nobody announced belongs to a request still on its way, or to one that
\* was answered with an error or not at all (portin_create_order.go:34-49).
ConfirmedIsAnnounced ==
  /\ \A r \in Requests :
       answer[r] = OK => mine[r] \in Present /\ CreatedEvent(mine[r]) \in events
  /\ \A o \in Present :
       CreatedEvent(o) \notin events =>
         \E r \in Requests :
           mine[r] = o /\ (at[r] = "publish" \/ answer[r] \in {InternalError, NoAnswer})
  /\ \A r, s \in Requests : r # s /\ mine[r] # Null => mine[r] # mine[s]

IsOpen(o) == o \in Present /\ orders[o].state \notin cfg.allowed

\* o is or was in a state that lets a new order in.
WasClosed(o) ==
  \E l \in log : l.order = o /\ l.state \in cfg.allowed

\* Two open orders have a number in common only when the second was looked for
\* before the first was inserted, or the first has been closed and opened again:
\* the look and the insert are separate (portin_create_order.go:29-34).
DuplicatesAreRaces ==
  \A r \in Requests : \A o \in Present :
    /\ ~cfg.disable
    /\ mine[r] # Null /\ o # mine[r] /\ IsOpen(o)
    /\ \E n \in GetMSISDNs(body[r]) : <<o, n>> \in numbers
    => o \notin seen[r] \/ WasClosed(o)
=============================================================================
