----------------------------- MODULE PortInJob -----------------------------
(***************************************************************************)
(* The portin-dag job: Run of internal/jobs/portin/job.go with the store    *)
(* operations it calls, moving orders and their history from OrdersDB to   *)
(* the mart tables mnp_request, mnp_request_h and req_number.              *)
(*                                                                         *)
(* A run takes its depth from the mart (the newest from_date minus the     *)
(* lookback), reads the cancellations, opens a transaction, reads one      *)
(* batch of orders and upserts them row by row, reads one batch of history *)
(* and upserts it row by row, and commits.  Each query sees the source at  *)
(* the moment it is made, and the source changes between the queries.      *)
(* Any error, timeout or crash discards the transaction.  The query of the *)
(* history names columns of orders_log; without them it is an error too.   *)
(*                                                                         *)
(* Overlap says whether the job lock lets two runs in at once; SessionLock *)
(* shows when it does.                                                     *)
(***************************************************************************)
EXTENDS OrdersDB

CONSTANTS
  Kind,         \* order id -> what ParseOrderPayload and the filters make of it
  Numbers,      \* order id -> the msisdns of its portationNumbers
  Lookback,     \* LOOKBACK_DURATION
  BatchSize,    \* BATCH_SIZE
  Runs,         \* the runs that may be in progress: ticker, HTTP handlers
  Tickers,      \* those of them that a ticker starts (runTicker)
  Overlap,      \* TRUE when the lock does not keep runs apart
  MaxFailures   \* bound on timeouts, lost connections and crashes

Kinds == {"person", "filtered", "broken"}

MartRow == [status: Int, from: Dates]

ASSUME JobAssumption ==
  /\ Kind \in [Orders -> Kinds]
  /\ DOMAIN Numbers = Orders
  /\ Lookback \in Nat \ {0} /\ BatchSize \in Nat \ {0}
  /\ NoRow \notin MartRow
  /\ Tickers \subseteq Runs
  /\ Overlap \in BOOLEAN /\ MaxFailures \in Nat

VARIABLES
  mart,       \* mnp_request: order id -> committed row
  hist,       \* mnp_request_h: committed rows, unique on (order, from)
  nums,       \* req_number: committed rows (order, msisdn)
  pc,         \* run -> the step of Run it is at
  depth,      \* run -> lower bound of the dates it selects
  cancelMap,  \* run -> orders with a cancellation
  rows,       \* run -> result rows of processOrders still to be processed
  pending,    \* run -> numbers of its last request still to be written
  logRows,    \* run -> result rows of processOrderHistory still to be processed
  staged,     \* run -> its uncommitted mnp_request rows
  stagedHist, \* run -> its uncommitted mnp_request_h rows
  stagedNums, \* run -> its uncommitted req_number rows
  failures    \* how many runs were broken off from outside

martVars == <<mart, hist, nums>>
txVars == <<staged, stagedHist, stagedNums>>
runVars == <<pc, depth, cancelMap, rows, pending, logRows>>
vars == <<srcVars, martVars, txVars, runVars, failures>>

-----------------------------------------------------------------------------

\* mapStatus: the mart's status for a state of the order, 11 when cancelled.
StatusTable ==
  [v \in {-4, -3, -2, -1, 0, 1, 2, 3, 4, 5, 6, 7, 8, 9, 20, 21, 22} |->
     CASE v = 0 -> 1 [] v = 1 -> 2 [] v \in {-1, -3} -> 3
       [] v \in {2, 3, 4} -> 4 [] v = -4 -> 5 [] v \in {5, 6} -> 6
       [] v \in {7, 8, 9} -> 7 [] v \in {20, 21} -> 8 [] v = 22 -> 9
       [] v = -2 -> 12]

MapStatus(v) == IF v \in DOMAIN StatusTable THEN StatusTable[v] ELSE v

CancelledStatus == 11

\* Mutant: the cancellations are not looked up by the order.
StatusIfAnyCancelled(o, state, cancels) ==
  IF cancels # {} THEN CancelledStatus ELSE MapStatus(state)

StatusOf(o, state, cancels) ==
  IF o \in cancels THEN CancelledStatus ELSE MapStatus(state)

\* WHERE ($1 is null or date > $1): a NULL date passes only a null depth.
After(date, d) == d = NoDate \/ (date # NoDate /\ date > d)

\* Mutant: ORDER BY without the date.
PrecedesById(x, y) ==
  x.order < y.order \/ (x.order = y.order /\ x.date < y.date)

\* ORDER BY date, order_id (NULL dates last), over rows with these fields.
Precedes(x, y) ==
  IF x.date = NoDate \/ y.date = NoDate
    THEN \/ x.date # NoDate
         \/ y.date = NoDate /\ x.order < y.order
    ELSE \/ x.date < y.date
         \/ x.date = y.date /\ x.order < y.order

\* LIMIT $2: the first BatchSize rows of a set in that order.
Batch(S) ==
  {x \in S : Cardinality({y \in S : y # x /\ Precedes(y, x)}) < BatchSize}

IsFirst(x, S) == x \in S /\ \A y \in S \ {x} : Precedes(x, y)

\* processOrders' query, as the source is now.
OrdersResult(d) ==
  Batch({[order |-> o, date |-> orders[o].changed, state |-> orders[o].state] :
           o \in {p \in Present : After(orders[p].changed, d)}})

\* When the version l was replaced: the start of the next version in
\* orders_log or, when there is none, of the current one.
LaterVersions(l) ==
  {k.version : k \in {m \in log : m.order = l.order /\ m.version > l.version}}

\* Mutant: COALESCE without the subquery, every version ends with the current one.
ReplacedByCurrent(l, date) == date = orders[l.order].changed

Replaced(l, date) ==
  IF LaterVersions(l) = {}
    THEN date = orders[l.order].changed
    ELSE date \in LaterVersions(l) /\ \A v \in LaterVersions(l) : date =< v

\* Mutant: to_date without the subtracted second.
HistoryWithoutGap(d) ==
  Batch({[order |-> p[1].order, date |-> p[1].version, state |-> p[1].state,
          to |-> p[2]] :
           p \in {q \in log \X Dates :
                    After(q[1].version, d) /\ Replaced(q[1], q[2])}})

\* The columns of orders_log that processOrderHistory's query names.
HistoryColumns ==
  {"order_id", "state", "creation_date", "due_date", "version_date",
   "cdb_process_id", "order_type", "order_data_log"}

\* Its result, where orders_log has them.
HistoryResult(d) ==
  Batch({[order |-> p[1].order, date |-> p[1].version, state |-> p[1].state,
          to |-> p[2] - 1] :
           p \in {q \in log \X Dates :
                    After(q[1].version, d) /\ Replaced(q[1], q[2])}})

-----------------------------------------------------------------------------

NothingStaged == [o \in Orders |-> NoRow]

Init ==
  /\ SrcInit
  /\ mart = NothingStaged /\ hist = {} /\ nums = {}
  /\ pc = [r \in Runs |-> "idle"]
  /\ depth = [r \in Runs |-> NoDate]
  /\ cancelMap = [r \in Runs |-> {}]
  /\ rows = [r \in Runs |-> {}]
  /\ pending = [r \in Runs |-> {}]
  /\ logRows = [r \in Runs |-> {}]
  /\ staged = [r \in Runs |-> NothingStaged]
  /\ stagedHist = [r \in Runs |-> {}]
  /\ stagedNums = [r \in Runs |-> {}]
  /\ failures = 0

\* Mutant: the lookback is not subtracted.
DepthAt(from) == from

\* depth.Add(-Lookback)
DepthBelow(from) == from - Lookback

\* MaxFromDate minus the lookback; NULL while mnp_request is empty.
IsDepth(d) ==
  \/ /\ \A o \in Orders : mart[o] = NoRow
     /\ d = NoDate
  \/ \E o \in Orders :
       /\ mart[o] # NoRow
       /\ \A p \in Orders : mart[p] # NoRow => mart[p].from =< mart[o].from
       /\ d = DepthBelow(mart[o].from)

\* Mutant: the lock is not taken.
StartUnlocked(r) ==
  /\ pc[r] = "idle"
  /\ \E d \in {NoDate} \cup (1 - Lookback)..MaxDate :
       IsDepth(d) /\ depth' = [depth EXCEPT ![r] = d]
  /\ pc' = [pc EXCEPT ![r] = "cancels"]
  /\ UNCHANGED <<srcVars, martVars, txVars, cancelMap, rows, pending, logRows,
                 failures>>

\* The lock is granted and the depth read.
Start(r) ==
  /\ pc[r] = "idle"
  /\ Overlap \/ \A q \in Runs : pc[q] = "idle"
  /\ \E d \in {NoDate} \cup (1 - Lookback)..MaxDate :
       IsDepth(d) /\ depth' = [depth EXCEPT ![r] = d]
  /\ pc' = [pc EXCEPT ![r] = "cancels"]
  /\ UNCHANGED <<srcVars, martVars, txVars, cancelMap, rows, pending, logRows,
                 failures>>

\* loadCancelStatuses, windowed by the same depth.
LoadCancelStatuses(r) ==
  /\ pc[r] = "cancels"
  /\ cancelMap' = [cancelMap EXCEPT ![r] =
       {o \in Orders : cancelled[o] # NoDate /\ After(cancelled[o], depth[r])}]
  /\ pc' = [pc EXCEPT ![r] = "query"]
  /\ UNCHANGED <<srcVars, martVars, txVars, depth, rows, pending, logRows,
                 failures>>

\* BeginTx and the query of processOrders.
QueryOrders(r) ==
  /\ pc[r] = "query"
  /\ rows' = [rows EXCEPT ![r] = OrdersResult(depth[r])]
  /\ pc' = [pc EXCEPT ![r] = "orders"]
  /\ UNCHANGED <<srcVars, martVars, txVars, depth, cancelMap, pending, logRows,
                 failures>>

\* The deferred Rollback and UnlockJob: the run is over, nothing it staged stays.
GiveUp(r) ==
  /\ pc' = [pc EXCEPT ![r] = "idle"]
  /\ depth' = [depth EXCEPT ![r] = NoDate]
  /\ cancelMap' = [cancelMap EXCEPT ![r] = {}]
  /\ rows' = [rows EXCEPT ![r] = {}]
  /\ pending' = [pending EXCEPT ![r] = {}]
  /\ logRows' = [logRows EXCEPT ![r] = {}]
  /\ staged' = [staged EXCEPT ![r] = NothingStaged]
  /\ stagedHist' = [stagedHist EXCEPT ![r] = {}]
  /\ stagedNums' = [stagedNums EXCEPT ![r] = {}]

\* Another transaction holds the row lock of the order's mnp_request row.
Blocked(r, o) == \E q \in Runs \ {r} : staged[q][o] # NoRow

HistBlocked(r, o, from) ==
  \E q \in Runs \ {r} : \E h \in stagedHist[q] : h.order = o /\ h.from = from

\* Mutant: changing_date is scanned as a value that may be NULL.
BrokenPayload(x) == Kind[x.order] = "broken"

Poisonous(x) == x.date = NoDate \/ Kind[x.order] = "broken"

\* Mutant: the state is read again when the row is written.
RequestRowReread(r, x) ==
  [status |-> StatusOf(x.order, orders[x.order].state, cancelMap[r]),
   from |-> x.date]

\* The request made of a result row.
RequestRow(r, x) ==
  [status |-> StatusOf(x.order, x.state, cancelMap[r]), from |-> x.date]

\* The numbers of an order, without the empty ones.
NumberRows(o) == {o} \X (Numbers[o] \ {""})

\* The loop of processOrders is at the result row x.
AtRow(r, x) == pc[r] = "orders" /\ pending[r] = {} /\ IsFirst(x, rows[r])

\* A row of a person: UpsertRequest.
UpsertRequest(r, x) ==
  /\ AtRow(r, x) /\ ~Poisonous(x)
  /\ Kind[x.order] = "person"
  /\ ~Blocked(r, x.order)
  /\ staged' = [staged EXCEPT ![r][x.order] = RequestRow(r, x)]
  /\ pending' = [pending EXCEPT ![r] = NumberRows(x.order)]
  /\ rows' = [rows EXCEPT ![r] = @ \ {x}]
  /\ UNCHANGED <<srcVars, martVars, stagedHist, stagedNums, pc, depth,
                 cancelMap, logRows, failures>>

\* One of its numbers.  No other run waits for the row: its request is locked.
UpsertReqNumber(r, n) ==
  /\ pending' = [pending EXCEPT ![r] = @ \ {n}]
  /\ stagedNums' = [stagedNums EXCEPT ![r] = @ \cup {n}]
  /\ UNCHANGED <<srcVars, martVars, staged, stagedHist, pc, depth, cancelMap,
                 rows, logRows, failures>>

\* A row of another type, or of a subscriber who is not a person.
SkipOrder(r, x) ==
  /\ AtRow(r, x) /\ ~Poisonous(x)
  /\ Kind[x.order] = "filtered"
  /\ rows' = [rows EXCEPT ![r] = @ \ {x}]
  /\ UNCHANGED <<srcVars, martVars, txVars, pc, depth, cancelMap, pending,
                 logRows, failures>>

\* Mutant: the numbers are written outside the transaction.
FailOnOrderKeepsNumbers(r, x) ==
  /\ AtRow(r, x) /\ Poisonous(x)
  /\ nums' = nums \cup stagedNums[r]
  /\ GiveUp(r)
  /\ UNCHANGED <<srcVars, mart, hist, failures>>

\* A row that cannot be scanned (NULL date) or parsed fails the whole run.
FailOnOrder(r, x) ==
  /\ AtRow(r, x) /\ Poisonous(x)
  /\ GiveUp(r)
  /\ UNCHANGED <<srcVars, martVars, failures>>

\* The batch of orders is through.
OrdersDone(r) == pc[r] = "orders" /\ rows[r] = {} /\ pending[r] = {}

\* The query of processOrderHistory.
QueryHistory(r) ==
  /\ OrdersDone(r)
  /\ HistoryColumns \subseteq logColumns
  /\ logRows' = [logRows EXCEPT ![r] = HistoryResult(depth[r])]
  /\ pc' = [pc EXCEPT ![r] = "history"]
  /\ UNCHANGED <<srcVars, martVars, txVars, depth, cancelMap, rows, pending,
                 failures>>

\* Mutant: the orders are committed before the history is read.
FailOnHistoryQueryKeepsOrders(r) ==
  /\ OrdersDone(r)
  /\ ~(HistoryColumns \subseteq logColumns)
  /\ mart' = [o \in Orders |->
                IF staged[r][o] # NoRow THEN staged[r][o] ELSE mart[o]]
  /\ GiveUp(r)
  /\ UNCHANGED <<srcVars, hist, nums, failures>>

\* The query names a column that orders_log does not have: an error, and the
\* requests written before it are rolled back.
FailOnHistoryQuery(r) ==
  /\ OrdersDone(r)
  /\ ~(HistoryColumns \subseteq logColumns)
  /\ GiveUp(r)
  /\ UNCHANGED <<srcVars, martVars, failures>>

SameVersion(g, h) == g.order = h.order /\ g.from = h.from

\* ON CONFLICT (order_id, from_date) DO UPDATE.
Merge(old, new) == {g \in old : ~ \E h \in new : SameVersion(g, h)} \cup new

\* The history row made of a result row.
HistoryRow(r, x) ==
  [order |-> x.order, from |-> x.date, to |-> x.to,
   status |-> StatusOf(x.order, x.state, cancelMap[r])]

\* One row of processOrderHistory.
InsertRequestHistory(r, x) ==
  /\ pc[r] = "history" /\ IsFirst(x, logRows[r])
  /\ Kind[x.order] = "person"
  /\ ~HistBlocked(r, x.order, x.date)
  /\ stagedHist' = [stagedHist EXCEPT ![r] = Merge(@, {HistoryRow(r, x)})]
  /\ logRows' = [logRows EXCEPT ![r] = @ \ {x}]
  /\ UNCHANGED <<srcVars, martVars, staged, stagedNums, pc, depth, cancelMap,
                 rows, pending, failures>>

SkipHistory(r, x) ==
  /\ pc[r] = "history" /\ IsFirst(x, logRows[r])
  /\ Kind[x.order] = "filtered"
  /\ logRows' = [logRows EXCEPT ![r] = @ \ {x}]
  /\ UNCHANGED <<srcVars, martVars, txVars, pc, depth, cancelMap, rows, pending,
                 failures>>

FailOnHistory(r, x) ==
  /\ pc[r] = "history" /\ IsFirst(x, logRows[r])
  /\ Kind[x.order] = "broken"
  /\ GiveUp(r)
  /\ UNCHANGED <<srcVars, martVars, failures>>

\* tx.Commit, then the deferred unlock.
Commit(r) ==
  /\ pc[r] = "history" /\ logRows[r] = {}
  /\ mart' = [o \in Orders |->
                IF staged[r][o] # NoRow THEN staged[r][o] ELSE mart[o]]
  /\ hist' = Merge(hist, stagedHist[r])
  /\ nums' = nums \cup stagedNums[r]
  /\ GiveUp(r)
  /\ UNCHANGED <<srcVars, failures>>

\* The run's context expires, a connection breaks or the process dies.
BreakOff(r) ==
  /\ pc[r] # "idle" /\ failures < MaxFailures
  /\ failures' = failures + 1
  /\ GiveUp(r)
  /\ UNCHANGED <<srcVars, martVars>>

\* Two transactions wait for each other's rows: the server ends one of them.
WaitsFor(r, q) ==
  \/ \E x \in rows[r] :
       AtRow(r, x) /\ ~Poisonous(x) /\ staged[q][x.order] # NoRow
  \/ pc[r] = "history" /\ \E x \in logRows[r] :
       IsFirst(x, logRows[r]) /\ \E h \in stagedHist[q] :
         h.order = x.order /\ h.from = x.date

\* Mutant: the numbers are written outside the transaction.
DeadlockedKeepsNumbers(r) ==
  /\ \E q \in Runs \ {r} : WaitsFor(r, q) /\ WaitsFor(q, r)
  /\ nums' = nums \cup stagedNums[r]
  /\ GiveUp(r)
  /\ UNCHANGED <<srcVars, mart, hist, failures>>

Deadlocked(r) ==
  /\ \E q \in Runs \ {r} : WaitsFor(r, q) /\ WaitsFor(q, r)
  /\ GiveUp(r)
  /\ UNCHANGED <<srcVars, martVars, failures>>

Proceed(r) ==
  \/ LoadCancelStatuses(r)
  \/ QueryOrders(r)
  \/ \E x \in rows[r] :
       UpsertRequest(r, x) \/ SkipOrder(r, x) \/ FailOnOrder(r, x)
  \/ \E n \in pending[r] : UpsertReqNumber(r, n)
  \/ QueryHistory(r)
  \/ FailOnHistoryQuery(r)
  \/ \E x \in logRows[r] :
       InsertRequestHistory(r, x) \/ SkipHistory(r, x) \/ FailOnHistory(r, x)
  \/ Commit(r)
  \/ Deadlocked(r)

SourceStep == SrcNext /\ UNCHANGED <<martVars, txVars, runVars, failures>>

Next ==
  \/ SourceStep
  \/ \E r \in Runs : Start(r) \/ Proceed(r) \/ BreakOff(r)

Spec == Init /\ [][Next]_vars

\* A ticker starts a run again and again, an HTTP request comes or does not; a
\* run that is not broken off goes on until it ends.
FairSpec ==
  /\ Spec
  /\ \A r \in Tickers : WF_vars(Start(r))
  /\ \A r \in Runs : WF_vars(Proceed(r))

-----------------------------------------------------------------------------

IsPerson(o) == Kind[o] = "person"

Loaded(o) == mart[o] # NoRow

HistRow == [order: Orders, from: Dates, to: 0..MaxDate, status: Int]

OrderResultRow ==
  [order: Orders, date: Dates \cup {NoDate}, state: States]

LogResultRow == [order: Orders, date: Dates, state: States, to: 0..MaxDate]

Msisdns == UNION {Numbers[o] : o \in Orders}

\* Every variable stays in its type.
TypeOK ==
  /\ SrcTypeOK
  /\ mart \in [Orders -> MartRow \cup {NoRow}]
  /\ hist \subseteq HistRow
  /\ nums \subseteq Orders \X Msisdns
  /\ pc \in [Runs -> {"idle", "cancels", "query", "orders", "history"}]
  /\ depth \in [Runs -> {NoDate} \cup (1 - Lookback)..MaxDate]
  /\ cancelMap \in [Runs -> SUBSET Orders]
  /\ rows \in [Runs -> SUBSET OrderResultRow]
  /\ pending \in [Runs -> SUBSET (Orders \X Msisdns)]
  /\ logRows \in [Runs -> SUBSET LogResultRow]
  /\ staged \in [Runs -> [Orders -> MartRow \cup {NoRow}]]
  /\ stagedHist \in [Runs -> SUBSET HistRow]
  /\ stagedNums \in [Runs -> SUBSET (Orders \X Msisdns)]
  /\ failures \in 0..MaxFailures

\* The mart shows the order as it is now.
Current(o) == Loaded(o) /\ mart[o].from = orders[o].changed

\* A later run still selects this date, whichever mart row sets its depth.
StillSelected(date) ==
  \A m \in Orders : Loaded(m) => date > DepthBelow(mart[m].from)

\* No change of an order is skipped: an order whose current version the mart
\* does not show lies above the depth of every later run (job.go:60-63, 100).
NoChangeSkipped ==
  \A o \in Present :
    IsPerson(o) /\ orders[o].changed # NoDate =>
      Current(o) \/ StillSelected(orders[o].changed)

\* A row of mnp_request is one version of its order, with the status mapped
\* from that version's state or, for an order with a cancellation, 11; the
\* upsert never mixes two versions (job.go:126-145, store.go:84-111).
RowsComeFromSource ==
  \A o \in Orders :
    Loaded(o) =>
      \E v \in Versions(o) :
        /\ mart[o].from = v.from
        /\ \/ mart[o].status = MapStatus(v.state)
           \/ mart[o].status = CancelledStatus /\ cancelled[o] # NoDate

\* The intervals of the history stay exact while the source goes on changing:
\* a row of mnp_request_h ends one second before the version that replaced it
\* in the source as it is NOW, although the end was computed from orders or
\* orders_log as they were when the row was loaded (job.go:171-176).
HistoryIntervalsExact ==
  \A h \in hist :
    \E l \in log :
      l.order = h.order /\ l.version = h.from /\ Replaced(l, h.to + 1)

\* A committed request has all its numbers and a number has its request: the
\* transaction brings them together or not at all (job.go:146-163).
NumbersArriveWithRequest ==
  \A o \in Orders :
    {n \in Msisdns : <<o, n>> \in nums} =
      IF Loaded(o) THEN Numbers[o] \ {""} ELSE {}

\* from_date of a request never goes back to an older version of the order and
\* a request never disappears (store.go:96 assigns whatever the run has read).
MartNeverRegresses ==
  [][\A o \in Orders :
       Loaded(o) => mart'[o] # NoRow /\ mart'[o].from >= mart[o].from]_mart

\* Whatever the source's history holds is in mnp_request_h or will still be
\* selected by a later run.
NoVersionSkipped ==
  \A l \in log :
    IsPerson(l.order) =>
      \/ \E h \in hist : h.order = l.order /\ h.from = l.version
      \/ StillSelected(l.version)

\* Every row the first load would read can be scanned and parsed.
Clean ==
  \A o \in Present : orders[o].changed # NoDate /\ Kind[o] # "broken"

\* A run whose history cannot be read leaves nothing behind: the requests and
\* numbers it has written are rolled back with it (job.go:73-86, 182-185).
NothingWithoutHistory ==
  ~(HistoryColumns \subseteq logColumns) =>
    (\A o \in Orders : ~Loaded(o)) /\ hist = {} /\ nums = {}

\* Once the source is clean, the mart catches up with it for good.
CatchesUp ==
  <>[]Clean =>
    \A o \in Orders : IsPerson(o) => <>[](o \in Present => Current(o))

\* Every order of a person gets into the mart.
EveryOrderArrives ==
  \A o \in Orders : IsPerson(o) => (o \in Present ~> Loaded(o))
=============================================================================
