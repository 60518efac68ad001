------------------------------ MODULE OrdersDB ------------------------------
(***************************************************************************)
(* The databases the datamart reads: the orders of the portin-requests     *)
(* service with their history (tables orders and orders_log) and the       *)
(* cancellations kept by another service.                                  *)
(*                                                                         *)
(* An order is inserted with a creation date and no changing date.  A      *)
(* patch takes effect only when its own date is later than the last change *)
(* of the order, and becomes the order's changing_date; the trigger        *)
(* orders_bru copies the replaced version to orders_log, dated by the      *)
(* moment THAT version started.  Dates are the dates of the events, not    *)
(* the moments of the commits: an event may be up to MaxLate older than    *)
(* the newest date already recorded.                                       *)
(*                                                                         *)
(* Which columns orders_log has is settled when the database is set up; the *)
(* datamart is deployed against it and never asks.                         *)
(*                                                                         *)
(* One tick of time is the second that processOrderHistory subtracts.      *)
(***************************************************************************)
EXTENDS Integers, FiniteSets

CONSTANTS
  Orders,    \* order ids (orders.order_id)
  States,    \* order states the patches use (orders.state)
  Cancellable, \* the orders the cancel service may cancel
  MaxDate,   \* bound: no event is dated later than this
  Schemas,   \* the sets of columns that orders_log may have
  MaxLate,   \* bound: how far behind the newest recorded date an event may be
  NoDate,    \* SQL NULL in a date column
  NoRow      \* no row for this key

Dates == 1..MaxDate

OrderRow == [state: States, created: Dates, changed: Dates \cup {NoDate}]

ASSUME OrdersAssumption ==
  /\ IsFiniteSet(Orders) /\ Orders \subseteq Int
  /\ 0 \in States /\ States \subseteq Int
  /\ Cancellable \subseteq Orders
  /\ MaxDate \in Nat /\ MaxLate \in Nat
  /\ NoDate \notin Int
  /\ Schemas # {}
  /\ NoRow \notin OrderRow

VARIABLES
  orders,     \* orders: order id -> current version of the order
  log,        \* orders_log: the replaced versions
  logColumns, \* the columns of orders_log
  cancelled,  \* cancel table: changing_date of the status-50 row of an order
  newest      \* the newest date recorded anywhere

srcVars == <<orders, log, logColumns, cancelled, newest>>

LogRow == [order: Orders, state: States, version: Dates]

SrcTypeOK ==
  /\ orders \in [Orders -> OrderRow \cup {NoRow}]
  /\ log \subseteq LogRow
  /\ logColumns \in Schemas
  /\ cancelled \in [Orders -> Dates \cup {NoDate}]
  /\ newest \in 0..MaxDate

SrcInit ==
  /\ orders = [o \in Orders |-> NoRow]
  /\ log = {}
  /\ logColumns \in Schemas
  /\ cancelled = [o \in Orders |-> NoDate]
  /\ newest = 0

-----------------------------------------------------------------------------

\* The rows of the table that exist.
Present == {o \in Orders : orders[o] # NoRow}

\* COALESCE(changing_date, creation_date): when the current version started.
Since(row) == IF row.changed = NoDate THEN row.created ELSE row.changed

\* A date that an event recorded now may carry.
EventDate(d) == d >= newest - MaxLate

Record(d) == newest' = IF d > newest THEN d ELSE newest

\* Repository Create: creation_date is filled by the trigger orders_bri,
\* changing_date stays NULL.
CreateOrder(o, d) ==
  /\ orders[o] = NoRow
  /\ EventDate(d)
  /\ orders' = [orders EXCEPT ![o] =
                  [state |-> 0, created |-> d, changed |-> NoDate]]
  /\ Record(d)
  /\ UNCHANGED <<log, logColumns, cancelled>>

\* A patch that passed ValidatePortInPatchDate: UpdateOrderPatch and the
\* trigger orders_bru run in the transaction that holds the row FOR UPDATE.
PatchOrder(o, d, s) ==
  /\ o \in Present
  /\ d > Since(orders[o])
  /\ EventDate(d)
  /\ log' = log \cup {[order |-> o, state |-> orders[o].state,
                       version |-> Since(orders[o])]}
  /\ orders' = [orders EXCEPT ![o].state = s, ![o].changed = d]
  /\ Record(d)
  /\ UNCHANGED <<logColumns, cancelled>>

\* The cancel service records status 50 for the order.
CancelOrder(o, d) ==
  /\ cancelled[o] = NoDate
  /\ o \in Cancellable \cap Present
  /\ EventDate(d)
  /\ cancelled' = [cancelled EXCEPT ![o] = d]
  /\ Record(d)
  /\ UNCHANGED <<orders, log, logColumns>>

SrcNext ==
  \E o \in Orders, d \in Dates :
    \/ CreateOrder(o, d)
    \/ \E s \in States : PatchOrder(o, d, s)
    \/ CancelOrder(o, d)

-----------------------------------------------------------------------------

\* Every version the order o has had: when it started and its state.
Versions(o) ==
  {[from |-> l.version, state |-> l.state] : l \in {k \in log : k.order = o}}
    \cup (IF o \in Present
            THEN {[from |-> Since(orders[o]), state |-> orders[o].state]}
            ELSE {})
=============================================================================
