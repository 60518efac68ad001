---------------------------- MODULE PortInStore ----------------------------
(***************************************************************************)
(* What portin-requests keeps outside its memory: the tables orders,       *)
(* orders_log and portation_numbers with the statements of                 *)
(* internal/dal/repository/portin_order_repository.go, and the topic of    *)
(* mnp events it publishes to.  Statements outside a transaction, and the  *)
(* reads of other transactions, see what is committed; SELECT FOR UPDATE   *)
(* waits for the lock of the row.                                          *)
(*                                                                         *)
(* order_data is abstracted to the status of each number of the order.     *)
(***************************************************************************)
EXTENDS StatusCodes, FiniteSets, Sequences

CONSTANTS
  Orders,      \* the ids orders_order_id_seq may give in this instance
  Partitioned, \* those that fall in a partition of the table orders
  FirstIds,    \* where the sequence may stand at the beginning
  Msisdns,     \* phone numbers
  NumberStatuses, \* names of a number's status: any strings, nothing checks them
  Patches,     \* messages of the topic portin-patch
  MaxDate,     \* bound: no event is dated later than this
  MaxFailures, \* bound on crashes, failing statements and failing publishes
  Null         \* SQL NULL, a nil pointer, no row

Dates == 1..MaxDate

\* order_data: the numbers of the order with the name of their status.
NumberStates == UNION {[S -> NumberStatuses \cup {Null}] : S \in SUBSET Msisdns}

\* A row of the table orders; by names the patch that made this version.
OrderRow ==
  [state: StateCodes, created: Dates, changed: Dates \cup {Null},
   due: Int \cup {Null}, cdb: Int \cup {Null}, by: Patches \cup {Null},
   data: NumberStates]

ASSUME StoreAssumption ==
  /\ Orders \subseteq Nat /\ Partitioned \subseteq Orders
  /\ FirstIds \subseteq Orders /\ FirstIds # {}
  /\ MaxDate \in Nat \ {0} /\ MaxFailures \in Nat
  /\ Null \notin Int \cup OrderRow \cup Patches

VARIABLES
  orders,    \* orders: id -> committed row
  log,       \* orders_log: the replaced versions
  numbers,   \* portation_numbers: rows (order, msisdn)
  nextId,    \* the next value of the sequence of order_id
  lock,      \* order -> the consumer whose transaction holds its row
  events,    \* messages published to mnp-event-portin
  failures   \* faults so far

tableVars == <<orders, log, numbers, nextId>>
storeVars == <<tableVars, lock, events, failures>>

StoreInit ==
  /\ orders = [o \in Orders |-> Null]
  /\ log = {} /\ numbers = {}
  /\ nextId \in FirstIds
  /\ lock = [o \in Orders |-> Null]
  /\ events = {}
  /\ failures = 0

-----------------------------------------------------------------------------

Present == {o \in Orders : orders[o] # Null}

\* COALESCE(changing_date, creation_date)
Since(row) == IF row.changed = Null THEN row.created ELSE row.changed

\* Mutant: open orders are those whose state allows a new one.
OrdersInAllowedState(msisdns, allowed) ==
  {o \in Present : /\ \E n \in msisdns : <<o, n>> \in numbers
                   /\ orders[o].state \in allowed}

\* FindOpenOrdersByMSISDN: without a list of states every order counts.
FindOpenOrdersByMSISDN(msisdns, allowed) ==
  {o \in Present : /\ \E n \in msisdns : <<o, n>> \in numbers
                   /\ allowed = {} \/ orders[o].state \notin allowed}

\* GetByID and GetByCDBProcessID; the latter takes any one of these rows.
GetByID(id) == Present \cap {id}

GetByCDBProcessID(cdb) == {o \in Present : orders[o].cdb = cdb}

\* Search by phone number and by process id, each of them optional.  Its column
\* list leaves out cdb_process_id.
Search(n, cdb) ==
  {[id |-> o, row |-> [orders[o] EXCEPT !.cdb = Null]] :
     o \in {p \in Present : /\ n # Null => <<p, n>> \in numbers
                           /\ cdb # Null => orders[p].cdb = cdb}}

\* Create: BEGIN, the order, its numbers, COMMIT; orders_bri dates the order.
\* The numbers come with their temp_msisdn, which is NOT NULL, and are unique
\* within the order; an id outside every partition cannot be inserted.
CanInsert(temp, nums) ==
  /\ nextId \in Partitioned
  /\ \A i \in DOMAIN nums : temp[i] # Null
  /\ \A i, j \in DOMAIN nums : nums[i] = nums[j] => i = j

Create(row, nums) ==
  /\ orders' = [orders EXCEPT ![nextId] = row]
  /\ numbers' = numbers \cup ({nextId} \X {nums[i] : i \in DOMAIN nums})
  /\ nextId' = nextId + 1
  /\ UNCHANGED log

\* The insert fails: everything is rolled back but the sequence.
CreateFails ==
  /\ nextId' = nextId + 1
  /\ UNCHANGED <<orders, log, numbers>>

\* UpdateOrderPatch; the trigger orders_bru copies the replaced row.
UpdateOrderPatch(o, row) ==
  /\ log' = log \cup {[order |-> o, version |-> Since(orders[o]),
                       state |-> orders[o].state, due |-> orders[o].due,
                       data |-> orders[o].data, by |-> orders[o].by]}
  /\ orders' = [orders EXCEPT ![o] = row]
  /\ UNCHANGED <<numbers, nextId>>

-----------------------------------------------------------------------------

\* Every version of the order o, current and replaced.
VersionsOf(o) ==
  {[from |-> l.version, state |-> l.state, due |-> l.due, data |-> l.data,
    by |-> l.by] : l \in {k \in log : k.order = o}}
    \cup (IF o \in Present
            THEN {[from |-> Since(orders[o]), state |-> orders[o].state,
                   due |-> orders[o].due, data |-> orders[o].data,
                   by |-> orders[o].by]}
            ELSE {})

\* v is the version of o that w replaced.
Replaces(o, w, v) ==
  /\ v.from < w.from
  /\ \A u \in VersionsOf(o) : u.from =< v.from \/ u.from >= w.from

\* The dates in the tables, and the newest of some dates, 0 if there is none.
Recorded == {Since(orders[o]) : o \in Present} \cup {l.version : l \in log}

NewestOf(dates) == CHOOSE d \in dates \cup {0} : \A e \in dates : e =< d

\* orders_log as the migration creates it; its name for LogRow's order is order_id.
MigratedLogColumns ==
  {"order_id", "version_date", "changed_by_user", "state", "order_data_log"}

\* The store as the datamart sees it.
Source == INSTANCE OrdersDB WITH
  States <- StateCodes, Cancellable <- {}, MaxLate <- MaxDate,
  NoDate <- Null, NoRow <- Null, Schemas <- {MigratedLogColumns},
  orders <- [o \in Orders |->
               IF orders[o] = Null THEN Null
               ELSE [state |-> orders[o].state, created |-> orders[o].created,
                     changed |-> orders[o].changed]],
  log <- {[order |-> l.order, state |-> l.state, version |-> l.version] :
            l \in log},
  logColumns <- MigratedLogColumns,
  cancelled <- [o \in Orders |-> Null],
  newest <- NewestOf(Recorded)

ASSUME SourceAssumption == Null \notin Source!OrderRow

\* Whatever portin-requests does is what the datamart's model of the source
\* allows: an order appears in state 0 without a changing date, and each change
\* carries a later date than the last one and logs exactly the version it
\* replaced (portin_order_repository.go:477, the trigger orders_bru).  Of the
\* columns the datamart's history query names, orders_log has only some.
ImplementsOrdersDB ==
  Source!SrcInit /\ [][UNCHANGED <<orders, log>> \/ Source!SrcNext]_(Source!srcVars)
=============================================================================
