--------------------------- MODULE PortInJobProofs ---------------------------
(***************************************************************************)
(* What PortInJob guarantees for every set of orders, batch size, lookback  *)
(* and bound: types, no skipped change, no regress of the mart.            *)
(*                                                                         *)
(* The last two need the lock to keep runs apart and events to be late by  *)
(* less than the lookback.                                                 *)
(***************************************************************************)
EXTENDS PortInJob, FiniteSetTheorems, TLAPS

\* The source: the current version of an order is its newest, and no date is
\* newer than the newest one recorded.
SourceInv ==
  /\ \A o \in Present : Since(orders[o]) =< newest
  /\ \A l \in log : /\ l.order \in Present
                    /\ orders[l.order].changed # NoDate
                    /\ l.version < orders[l.order].changed

\* At most one run is in progress.
Alone == \A q, r \in Runs : pc[q] # "idle" /\ pc[r] # "idle" => q = r

\* A run holds rows and staged rows only in the steps that use them.
Tidy ==
  \A r \in Runs :
    /\ pc[r] # "orders" => rows[r] = {}
    /\ pc[r] \notin {"orders", "history"} => staged[r] = NothingStaged

\* A date of order o that was read from the source: not newer than the order
\* is now, not older than what the mart shows.
Between(o, date) ==
  /\ o \in Present /\ orders[o].changed # NoDate
  /\ date =< orders[o].changed
  /\ Loaded(o) => mart[o].from =< date

MartInv == \A o \in Orders : Loaded(o) => Between(o, mart[o].from)

StagedInv ==
  \A r \in Runs, o \in Orders :
    staged[r][o] # NoRow => Between(o, staged[r][o].from)

RowsInv ==
  \A r \in Runs : \A x \in rows[r] :
    x.date # NoDate => Between(x.order, x.date)

\* A result has one row of an order, and the row is not staged yet.
OnceInv ==
  \A r \in Runs : \A x \in rows[r] :
    /\ staged[r][x.order] = NoRow
    /\ \A y \in rows[r] : y.order = x.order => y = x

\* The depth of a run in progress is the one the mart still gives.
DepthInv == \A r \in Runs : pc[r] # "idle" => IsDepth(depth[r])

\* Nothing the run r has read or the mart shows puts this date out of the
\* selection of later runs.
Above(r, date) ==
  /\ StillSelected(date)
  /\ \A o \in Orders :
       staged[r][o] # NoRow => date > DepthBelow(staged[r][o].from)
  /\ \A x \in rows[r] : x.date # NoDate => date > DepthBelow(x.date)

\* What the commit of r will do for the current version of o.
Covered(r, o) ==
  \/ staged[r][o] = NoRow /\ Current(o)
  \/ staged[r][o] # NoRow /\ staged[r][o].from = orders[o].changed
  \/ \E x \in rows[r] : x.order = o /\ x.date = orders[o].changed
  \/ Above(r, orders[o].changed)

CoverInv ==
  \A r \in Runs :
    pc[r] \in {"orders", "history"} =>
      \A o \in Present :
        IsPerson(o) /\ orders[o].changed # NoDate => Covered(r, o)

IInv ==
  /\ TypeOK /\ SourceInv /\ Alone /\ Tidy /\ MartInv /\ StagedInv /\ RowsInv
  /\ OnceInv /\ DepthInv /\ CoverInv /\ NoChangeSkipped

-----------------------------------------------------------------------------
\* Facts about the operators.

\* A batch holds rows of the set it is taken from (LIMIT adds nothing).
LEMMA BatchSubset == \A S : Batch(S) \subseteq S
BY DEF Batch

\* mapStatus yields a status for every state.
LEMMA MapStatusType == \A v \in Int : MapStatus(v) \in Int
<1> SUFFICES ASSUME NEW v \in Int PROVE MapStatus(v) \in Int
  OBVIOUS
<1>1. CASE v \in DOMAIN StatusTable
  <2>1. StatusTable[v] \in Int
    BY <1>1 DEF StatusTable
  <2> QED BY <1>1, <2>1 DEF MapStatus
<1>2. CASE v \notin DOMAIN StatusTable
  BY <1>2 DEF MapStatus
<1> QED BY <1>1, <1>2

\* The rows processOrders reads have the type of its result.
LEMMA OrdersResultType ==
  ASSUME SrcTypeOK, NEW d
  PROVE  OrdersResult(d) \subseteq OrderResultRow
<1>1. {[order |-> o, date |-> orders[o].changed, state |-> orders[o].state] :
         o \in {p \in Present : After(orders[p].changed, d)}}
        \subseteq OrderResultRow
  BY DEF SrcTypeOK, Present, OrderRow, OrderResultRow
<1> QED BY <1>1, BatchSubset DEF OrdersResult

\* The rows processOrderHistory reads have the type of its result.
LEMMA HistoryResultType ==
  ASSUME SrcTypeOK, NEW d
  PROVE  HistoryResult(d) \subseteq LogResultRow
<1> DEFINE Row(p) == [order |-> p[1].order, date |-> p[1].version,
                      state |-> p[1].state, to |-> p[2] - 1]
           Picked == {q \in log \X Dates :
                        After(q[1].version, d) /\ Replaced(q[1], q[2])}
<1>1. ASSUME NEW p \in Picked PROVE Row(p) \in LogResultRow
  <2>1. p[1] \in LogRow /\ p[2] \in Dates
    BY DEF SrcTypeOK
  <2>2. p[2] - 1 \in 0..MaxDate
    BY <2>1, OrdersAssumption DEF Dates
  <2> QED BY <2>1, <2>2 DEF LogRow, LogResultRow
<1>2. {Row(p) : p \in Picked} \subseteq LogResultRow
  BY <1>1
<1> QED BY <1>2, BatchSubset DEF HistoryResult

-----------------------------------------------------------------------------
\* Type correctness.

LEMMA TypeInit == Init => TypeOK
<1> SUFFICES ASSUME Init PROVE TypeOK
  OBVIOUS
<1>1. SrcTypeOK
  BY OrdersAssumption DEF Init, SrcInit, SrcTypeOK
<1>2. NothingStaged \in [Orders -> MartRow \cup {NoRow}]
  BY DEF NothingStaged
<1>3. 0 \in 0..MaxFailures
  BY JobAssumption
<1> QED BY <1>1, <1>2, <1>3 DEF Init, TypeOK

\* A change of the source keeps its types.
LEMMA SourceTypeStep ==
  ASSUME SrcTypeOK, SrcNext
  PROVE  SrcTypeOK'
<1> USE OrdersAssumption DEF SrcTypeOK, Dates
<1> PICK o \in Orders, d \in Dates :
      \/ CreateOrder(o, d)
      \/ \E s \in States : PatchOrder(o, d, s)
      \/ CancelOrder(o, d)
  BY DEF SrcNext
<1>1. ASSUME Record(d) PROVE newest' \in 0..MaxDate
  BY <1>1 DEF Record
<1>2. CASE CreateOrder(o, d)
  <2>1. [state |-> 0, created |-> d, changed |-> NoDate] \in OrderRow
    BY DEF OrderRow
  <2> QED BY <1>1, <1>2, <2>1 DEF CreateOrder
<1>3. ASSUME NEW s \in States, PatchOrder(o, d, s) PROVE SrcTypeOK'
  <2>1. orders[o] \in OrderRow
    BY <1>3 DEF PatchOrder, Present
  <2>2. [orders[o] EXCEPT !.state = s, !.changed = d] \in OrderRow
    BY <2>1 DEF OrderRow
  <2>3. orders' = [orders EXCEPT ![o] =
                     [orders[o] EXCEPT !.state = s, !.changed = d]]
    BY <1>3 DEF PatchOrder
  <2>4. [order |-> o, state |-> orders[o].state,
         version |-> Since(orders[o])] \in LogRow
    BY <2>1 DEF OrderRow, LogRow, Since
  <2>5. orders' \in [Orders -> OrderRow \cup {NoRow}]
    BY <2>2, <2>3
  <2>6. log' \subseteq LogRow
    BY <1>3, <2>4 DEF PatchOrder
  <2> QED BY <1>1, <1>3, <2>5, <2>6 DEF PatchOrder
<1>4. CASE CancelOrder(o, d)
  BY <1>1, <1>4 DEF CancelOrder
<1> QED BY <1>2, <1>3, <1>4

\* Ending a run leaves the types of its own variables.
LEMMA GiveUpType ==
  ASSUME TypeOK, NEW r \in Runs, GiveUp(r)
  PROVE  /\ pc' \in [Runs -> {"idle", "cancels", "query", "orders", "history"}]
         /\ depth' \in [Runs -> {NoDate} \cup (1 - Lookback)..MaxDate]
         /\ cancelMap' \in [Runs -> SUBSET Orders]
         /\ rows' \in [Runs -> SUBSET OrderResultRow]
         /\ pending' \in [Runs -> SUBSET (Orders \X Msisdns)]
         /\ logRows' \in [Runs -> SUBSET LogResultRow]
         /\ staged' \in [Runs -> [Orders -> MartRow \cup {NoRow}]]
         /\ stagedHist' \in [Runs -> SUBSET HistRow]
         /\ stagedNums' \in [Runs -> SUBSET (Orders \X Msisdns)]
<1>1. NothingStaged \in [Orders -> MartRow \cup {NoRow}]
  BY DEF NothingStaged
<1> QED BY <1>1 DEF TypeOK, GiveUp

\* The status of a row that a run stages is a number.
LEMMA StatusType ==
  ASSUME NEW o, NEW state \in States, NEW cancels
  PROVE  StatusOf(o, state, cancels) \in Int
BY MapStatusType, OrdersAssumption DEF StatusOf, CancelledStatus

LEMMA TypeStep == TypeOK /\ [Next]_vars => TypeOK'
<1> SUFFICES ASSUME TypeOK, [Next]_vars PROVE TypeOK'
  OBVIOUS
<1>1. CASE UNCHANGED vars
  BY <1>1 DEF TypeOK, SrcTypeOK, vars, srcVars, martVars, txVars, runVars
<1>2. CASE SourceStep
  BY <1>2, SourceTypeStep
     DEF SourceStep, TypeOK, martVars, txVars, runVars
<1>3. ASSUME NEW r \in Runs, Start(r) PROVE TypeOK'
  BY <1>3 DEF Start, TypeOK, SrcTypeOK, srcVars, martVars, txVars
<1>4. ASSUME NEW r \in Runs, LoadCancelStatuses(r) PROVE TypeOK'
  BY <1>4 DEF LoadCancelStatuses, TypeOK, SrcTypeOK, srcVars, martVars, txVars
<1>5. ASSUME NEW r \in Runs, QueryOrders(r) PROVE TypeOK'
  <2>1. OrdersResult(depth[r]) \subseteq OrderResultRow
    BY OrdersResultType DEF TypeOK
  <2> QED BY <1>5, <2>1
          DEF QueryOrders, TypeOK, SrcTypeOK, srcVars, martVars, txVars
<1>6. ASSUME NEW r \in Runs, NEW x \in rows[r], UpsertRequest(r, x)
      PROVE  TypeOK'
  <2>1. x \in OrderResultRow
    BY DEF TypeOK
  <2>2. x.order \in Orders /\ x.date \in Dates /\ x.state \in States
    BY <1>6, <2>1 DEF UpsertRequest, Poisonous, OrderResultRow
  <2>3. RequestRow(r, x) \in MartRow
    BY <2>2, StatusType DEF RequestRow, MartRow
  <2>4. staged' \in [Runs -> [Orders -> MartRow \cup {NoRow}]]
    BY <1>6, <2>2, <2>3 DEF UpsertRequest, TypeOK
  <2>5. NumberRows(x.order) \subseteq Orders \X Msisdns
    BY <2>2 DEF NumberRows, Msisdns
  <2>6. pending' \in [Runs -> SUBSET (Orders \X Msisdns)]
    BY <1>6, <2>5 DEF UpsertRequest, TypeOK
  <2>7. rows' \in [Runs -> SUBSET OrderResultRow]
    BY <1>6 DEF UpsertRequest, TypeOK
  <2> QED BY <1>6, <2>4, <2>6, <2>7
          DEF UpsertRequest, TypeOK, SrcTypeOK, srcVars, martVars
<1>7. ASSUME NEW r \in Runs, NEW x \in rows[r], SkipOrder(r, x) PROVE TypeOK'
  BY <1>7 DEF SkipOrder, TypeOK, SrcTypeOK, srcVars, martVars, txVars
<1>8. ASSUME NEW r \in Runs, NEW x \in rows[r], FailOnOrder(r, x) PROVE TypeOK'
  BY <1>8, GiveUpType DEF FailOnOrder, TypeOK, SrcTypeOK, srcVars, martVars
<1>9. ASSUME NEW r \in Runs, QueryHistory(r) PROVE TypeOK'
  <2>1. HistoryResult(depth[r]) \subseteq LogResultRow
    BY HistoryResultType DEF TypeOK
  <2> QED BY <1>9, <2>1
          DEF QueryHistory, TypeOK, SrcTypeOK, srcVars, martVars, txVars
<1>10. ASSUME NEW r \in Runs, NEW x \in logRows[r], InsertRequestHistory(r, x)
       PROVE  TypeOK'
  <2>1. x \in LogResultRow
    BY DEF TypeOK
  <2>2. HistoryRow(r, x) \in HistRow
    BY <2>1, StatusType DEF HistoryRow, LogResultRow, HistRow
  <2>3. stagedHist' \in [Runs -> SUBSET HistRow]
    BY <1>10, <2>2 DEF InsertRequestHistory, TypeOK, Merge
  <2> QED BY <1>10, <2>3
          DEF InsertRequestHistory, TypeOK, SrcTypeOK, srcVars, martVars
<1>11. ASSUME NEW r \in Runs, NEW x \in logRows[r], SkipHistory(r, x)
       PROVE  TypeOK'
  BY <1>11 DEF SkipHistory, TypeOK, SrcTypeOK, srcVars, martVars, txVars
<1>12. ASSUME NEW r \in Runs, NEW x \in logRows[r], FailOnHistory(r, x)
       PROVE  TypeOK'
  BY <1>12, GiveUpType DEF FailOnHistory, TypeOK, SrcTypeOK, srcVars, martVars
<1>13. ASSUME NEW r \in Runs, Commit(r) PROVE TypeOK'
  <2>1. mart' \in [Orders -> MartRow \cup {NoRow}]
    BY <1>13 DEF Commit, TypeOK
  <2>2. hist' \subseteq HistRow
    BY <1>13 DEF Commit, TypeOK, Merge
  <2>3. nums' \subseteq Orders \X Msisdns
    BY <1>13 DEF Commit, TypeOK
  <2>4. GiveUp(r) /\ UNCHANGED <<srcVars, failures>>
    BY <1>13 DEF Commit
  <2> QED BY <2>1, <2>2, <2>3, <2>4, GiveUpType DEF TypeOK, SrcTypeOK, srcVars
<1>14. ASSUME NEW r \in Runs, Deadlocked(r) PROVE TypeOK'
  BY <1>14, GiveUpType DEF Deadlocked, TypeOK, SrcTypeOK, srcVars, martVars
<1>15. ASSUME NEW r \in Runs, BreakOff(r) PROVE TypeOK'
  <2>1. failures' \in 0..MaxFailures
    BY <1>15, JobAssumption DEF BreakOff, TypeOK
  <2> QED BY <1>15, <2>1, GiveUpType
          DEF BreakOff, TypeOK, SrcTypeOK, srcVars, martVars
<1>16. ASSUME NEW r \in Runs, NEW n \in pending[r], UpsertReqNumber(r, n)
       PROVE  TypeOK'
  <2>1. n \in Orders \X Msisdns
    BY DEF TypeOK
  <2>2. /\ pending' \in [Runs -> SUBSET (Orders \X Msisdns)]
        /\ stagedNums' \in [Runs -> SUBSET (Orders \X Msisdns)]
    BY <1>16, <2>1 DEF UpsertReqNumber, TypeOK
  <2> QED BY <1>16, <2>2
          DEF UpsertReqNumber, TypeOK, SrcTypeOK, srcVars, martVars
<1>17. ASSUME NEW r \in Runs, FailOnHistoryQuery(r) PROVE TypeOK'
  BY <1>17, GiveUpType
     DEF FailOnHistoryQuery, TypeOK, SrcTypeOK, srcVars, martVars
<1> QED
  BY <1>1, <1>2, <1>3, <1>4, <1>5, <1>6, <1>7, <1>8, <1>9, <1>10, <1>11,
     <1>12, <1>13, <1>14, <1>15, <1>16, <1>17
  DEF Next, Proceed

\* Every variable stays in its type, for every size of the tables, every batch
\* size and lookback, and whether or not runs overlap.
THEOREM TypeCorrect == Spec => []TypeOK
BY TypeInit, TypeStep, PTL DEF Spec

-----------------------------------------------------------------------------
\* The source moves forward only.

\* What one change of the source does to an order: nothing, or a new version
\* that is later than the last one and late by MaxLate at most.
LEMMA SourceMoves ==
  ASSUME SrcTypeOK, SrcNext, NEW o \in Orders
  PROVE  /\ newest' >= newest
         /\ o \in Present =>
              /\ o \in Present'
              /\ \/ orders'[o] = orders[o]
                 \/ /\ orders'[o].changed \in Dates
                    /\ orders'[o].changed > Since(orders[o])
                    /\ orders'[o].changed >= newest - MaxLate
                    /\ newest' >= orders'[o].changed
         /\ o \notin Present /\ o \in Present' =>
              /\ orders'[o].changed = NoDate
              /\ orders'[o].created =< newest'
<1> USE OrdersAssumption DEF SrcTypeOK, Dates
<1> PICK p \in Orders, d \in Dates :
      \/ CreateOrder(p, d)
      \/ \E s \in States : PatchOrder(p, d, s)
      \/ CancelOrder(p, d)
  BY DEF SrcNext
<1>1. ASSUME Record(d) PROVE newest' >= newest /\ newest' >= d
  BY <1>1 DEF Record
<1>2. CASE CreateOrder(p, d)
  <2>1. [state |-> 0, created |-> d, changed |-> NoDate] # NoRow
    BY DEF OrderRow
  <2>2. orders' = [orders EXCEPT ![p] =
                     [state |-> 0, created |-> d, changed |-> NoDate]]
    BY <1>2 DEF CreateOrder
  <2> QED BY <1>1, <1>2, <2>1, <2>2 DEF CreateOrder, Present
<1>3. ASSUME NEW s \in States, PatchOrder(p, d, s)
      PROVE  /\ newest' >= newest
             /\ o \in Present =>
                  /\ o \in Present'
                  /\ \/ orders'[o] = orders[o]
                     \/ /\ orders'[o].changed \in Dates
                        /\ orders'[o].changed > Since(orders[o])
                        /\ orders'[o].changed >= newest - MaxLate
                        /\ newest' >= orders'[o].changed
             /\ o \notin Present => o \notin Present'
  <2> DEFINE new == [orders[p] EXCEPT !.state = s, !.changed = d]
  <2>1. orders[p] \in OrderRow /\ d > Since(orders[p]) /\ EventDate(d)
    BY <1>3 DEF PatchOrder, Present
  <2>2. new \in OrderRow /\ new.changed = d /\ new # NoRow
    BY <2>1 DEF OrderRow
  <2>3. orders' = [orders EXCEPT ![p] = new]
    BY <1>3 DEF PatchOrder
  <2>4. newest' >= newest /\ newest' >= d
    BY <1>1, <1>3 DEF PatchOrder
  <2>5. p \in Present
    BY <1>3 DEF PatchOrder
  <2> HIDE DEF new
  <2>6. CASE o = p
    BY <2>1, <2>2, <2>3, <2>4, <2>5, <2>6 DEF EventDate, Present
  <2>7. CASE o # p
    BY <2>3, <2>4, <2>7 DEF Present
  <2> QED BY <2>6, <2>7
<1>4. CASE CancelOrder(p, d)
  BY <1>1, <1>4 DEF CancelOrder, Present
<1> QED BY <1>2, <1>3, <1>4

\* The source keeps its own order: every version later than the one before.
LEMMA SourceInvStep ==
  ASSUME SrcTypeOK, SrcTypeOK', SourceInv, SrcNext
  PROVE  SourceInv'
<1> USE OrdersAssumption DEF SrcTypeOK, Dates
<1>1. ASSUME NEW o \in Present' PROVE Since(orders'[o]) =< newest'
  <2>1. o \in Orders
    BY DEF Present
  <2>2. orders'[o] \in OrderRow
    BY <2>1, <1>1 DEF Present
  <2>3. CASE o \notin Present
    BY <1>1, <2>1, <2>2, <2>3, SourceMoves DEF Since
  <2>4. CASE o \in Present
    <3>1. Since(orders[o]) =< newest /\ orders[o] \in OrderRow
      BY <2>4 DEF SourceInv, Present
    <3> QED BY <2>1, <2>2, <2>4, <3>1, SourceMoves DEF Since, OrderRow
  <2> QED BY <2>3, <2>4
<1>2. ASSUME NEW l \in log'
      PROVE  /\ l.order \in Present'
             /\ orders'[l.order].changed # NoDate
             /\ l.version < orders'[l.order].changed
  <2>1. CASE l \in log
    <3>1. /\ l.order \in Present /\ l.version < orders[l.order].changed
          /\ orders[l.order].changed # NoDate /\ l.order \in Orders
          /\ l.version \in Dates /\ orders[l.order] \in OrderRow
      BY <2>1 DEF SourceInv, LogRow, Present
    <3>2. Since(orders[l.order]) = orders[l.order].changed
      BY <3>1 DEF Since
    <3>3. /\ l.order \in Present'
          /\ \/ orders'[l.order].changed = orders[l.order].changed
             \/ /\ orders'[l.order].changed \in Dates
                /\ orders'[l.order].changed > orders[l.order].changed
      BY <3>1, <3>2, SourceMoves
    <3>4. orders[l.order].changed \in Dates
      BY <3>1 DEF OrderRow
    <3> QED BY <3>1, <3>3, <3>4
  <2>2. CASE l \notin log
    <3>1. PICK p \in Orders, d \in Dates, s \in States : PatchOrder(p, d, s)
      BY <2>2 DEF SrcNext, CreateOrder, CancelOrder
    <3>2. l.order = p /\ l.version = Since(orders[p])
      BY <2>2, <3>1 DEF PatchOrder
    <3>3. p \in Present /\ d > Since(orders[p]) /\ orders[p] \in OrderRow
      BY <3>1 DEF PatchOrder, Present
    <3>4. orders'[p] = [orders[p] EXCEPT !.state = s, !.changed = d]
      BY <3>1 DEF PatchOrder
    <3>5. orders'[p].changed = d /\ d # NoDate
      BY <3>3, <3>4 DEF OrderRow
    <3> QED BY <3>2, <3>3, <3>5, SourceMoves
  <2> QED BY <2>1, <2>2
<1> QED BY <1>1, <1>2 DEF SourceInv

-----------------------------------------------------------------------------
\* The inductive invariant, action by action.

\* The two conditions of the theorems below: the lock keeps runs apart, and no
\* event is as late as the lookback.
Strict == ~Overlap /\ MaxLate < Lookback

LEMMA InvInit == Init => IInv
<1> SUFFICES ASSUME Init PROVE IInv
  OBVIOUS
<1>1. TypeOK
  BY TypeInit
<1>2. Present = {} /\ log = {}
  BY DEF Init, SrcInit, Present
<1>3. \A o \in Orders : ~Loaded(o)
  BY DEF Init, Loaded, NothingStaged
<1>4. \A r \in Runs : /\ pc[r] = "idle" /\ rows[r] = {}
                      /\ staged[r] = NothingStaged
  BY DEF Init
<1>5. \A r \in Runs, o \in Orders : staged[r][o] = NoRow
  BY <1>4 DEF NothingStaged
<1> QED
  BY <1>1, <1>2, <1>3, <1>4, <1>5
     DEF IInv, SourceInv, Alone, Tidy, MartInv, StagedInv, RowsInv, OnceInv,
         DepthInv, CoverInv, NoChangeSkipped

\* A date read from the source is not newer than the newest one.
LEMMA BetweenNewest ==
  ASSUME TypeOK, SourceInv, NEW o \in Orders, NEW date \in Dates,
         Between(o, date)
  PROVE  date =< newest
<1>1. orders[o] \in OrderRow /\ orders[o].changed # NoDate
  BY DEF TypeOK, SrcTypeOK, Between, Present
<1>2. orders[o].changed =< newest
  BY <1>1 DEF SourceInv, Between, Since
<1> QED BY <1>1, <1>2 DEF Between, TypeOK, SrcTypeOK, OrderRow, Dates

\* A date stays between the mart and the source when the source moves on.
LEMMA SourceKeepsBetween ==
  ASSUME TypeOK, SrcNext, mart' = mart, NEW o \in Orders, NEW date \in Dates,
         Between(o, date)
  PROVE  Between(o, date)'
<1> USE OrdersAssumption DEF Dates
<1>1. o \in Present /\ orders[o] \in OrderRow /\ orders[o].changed # NoDate
  BY DEF Between, Present, TypeOK, SrcTypeOK
<1>2. Since(orders[o]) = orders[o].changed /\ orders[o].changed \in Dates
  BY <1>1 DEF Since, OrderRow
<1>3. /\ o \in Present'
      /\ \/ orders'[o].changed = orders[o].changed
         \/ /\ orders'[o].changed \in Dates
            /\ orders'[o].changed > orders[o].changed
  BY <1>1, <1>2, SourceMoves DEF TypeOK
<1> QED BY <1>2, <1>3 DEF Between, Loaded

\* A version that is late by less than the lookback is above everything a run
\* has read and everything the mart shows.
LEMMA LateIsAbove ==
  ASSUME Strict, TypeOK, SourceInv, MartInv, StagedInv, RowsInv,
         NEW r \in Runs, NEW date \in Dates, date >= newest - MaxLate
  PROVE  Above(r, date)
<1> USE OrdersAssumption, JobAssumption DEF Dates, Strict
<1>1. newest \in 0..MaxDate
  BY DEF TypeOK, SrcTypeOK
<1>2. ASSUME NEW d \in Dates, d =< newest PROVE date > DepthBelow(d)
  BY <1>1, <1>2 DEF DepthBelow
<1>3. StillSelected(date)
  <2> SUFFICES ASSUME NEW m \in Orders, Loaded(m)
               PROVE  date > DepthBelow(mart[m].from)
    BY DEF StillSelected
  <2>1. mart[m].from \in Dates /\ Between(m, mart[m].from)
    BY DEF TypeOK, MartRow, MartInv, Loaded
  <2> QED BY <1>2, <2>1, BetweenNewest
<1>4. ASSUME NEW o \in Orders, staged[r][o] # NoRow
      PROVE  date > DepthBelow(staged[r][o].from)
  <2>1. staged[r][o].from \in Dates /\ Between(o, staged[r][o].from)
    BY <1>4 DEF TypeOK, MartRow, StagedInv
  <2> QED BY <1>2, <2>1, BetweenNewest
<1>5. ASSUME NEW x \in rows[r], x.date # NoDate
      PROVE  date > DepthBelow(x.date)
  <2>1. x.date \in Dates /\ x.order \in Orders /\ Between(x.order, x.date)
    BY <1>5 DEF TypeOK, OrderResultRow, RowsInv
  <2> QED BY <1>2, <2>1, BetweenNewest
<1> QED BY <1>3, <1>4, <1>5 DEF Above

LEMMA SourceStepInv ==
  ASSUME Strict, IInv, TypeOK', SourceStep
  PROVE  IInv'
<1> USE DEF IInv
<1>1. SrcNext /\ SrcTypeOK /\ SrcTypeOK'
  BY DEF SourceStep, TypeOK
<1>2. UNCHANGED <<mart, pc, depth, rows, staged>>
  BY DEF SourceStep, martVars, runVars, txVars
<1>3. SourceInv'
  BY <1>1, SourceInvStep
<1>4. Alone' /\ Tidy' /\ OnceInv' /\ DepthInv'
  BY <1>2 DEF Alone, Tidy, OnceInv, DepthInv, IsDepth
<1>5. MartInv'
  <2> SUFFICES ASSUME NEW o \in Orders, Loaded(o)
               PROVE  Between(o, mart[o].from)'
    BY <1>2 DEF MartInv, Loaded
  <2>1. mart[o].from \in Dates /\ Between(o, mart[o].from)
    BY DEF TypeOK, MartRow, MartInv, Loaded
  <2> QED BY <1>1, <1>2, <2>1, SourceKeepsBetween DEF Between, Loaded
<1>6. StagedInv'
  <2> SUFFICES ASSUME NEW r \in Runs, NEW o \in Orders, staged[r][o] # NoRow
               PROVE  Between(o, staged[r][o].from)'
    BY <1>2 DEF StagedInv
  <2>1. staged[r][o].from \in Dates /\ Between(o, staged[r][o].from)
    BY DEF TypeOK, MartRow, StagedInv
  <2> QED BY <1>1, <1>2, <2>1, SourceKeepsBetween DEF Between, Loaded
<1>7. RowsInv'
  <2> SUFFICES ASSUME NEW r \in Runs, NEW x \in rows[r], x.date # NoDate
               PROVE  Between(x.order, x.date)'
    BY <1>2 DEF RowsInv
  <2>1. x.order \in Orders /\ x.date \in Dates /\ Between(x.order, x.date)
    BY DEF TypeOK, OrderResultRow, RowsInv
  <2> QED BY <1>1, <1>2, <2>1, SourceKeepsBetween
<1>8. ASSUME NEW o \in Present', orders'[o].changed # NoDate
      PROVE  \/ o \in Present /\ orders'[o] = orders[o]
             \/ /\ orders'[o].changed \in Dates
                /\ orders'[o].changed >= newest - MaxLate
  BY <1>1, <1>8, SourceMoves DEF Present
<1>9. CoverInv'
  <2> SUFFICES ASSUME NEW r \in Runs, pc[r] \in {"orders", "history"},
                      NEW o \in Present', IsPerson(o),
                      orders'[o].changed # NoDate
               PROVE  Covered(r, o)'
    BY <1>2 DEF CoverInv
  <2>1. CASE o \in Present /\ orders'[o] = orders[o]
    <3>1. Covered(r, o)
      BY <2>1 DEF CoverInv
    <3> QED BY <1>2, <2>1, <3>1
            DEF Covered, Above, Current, StillSelected, Loaded
  <2>2. CASE /\ orders'[o].changed \in Dates
             /\ orders'[o].changed >= newest - MaxLate
    <3>1. Above(r, orders'[o].changed)
      BY <2>2, LateIsAbove
    <3> QED BY <1>2, <3>1 DEF Covered, Above, StillSelected, Loaded
  <2> QED BY <1>8, <2>1, <2>2
<1>10. NoChangeSkipped'
  <2> SUFFICES ASSUME NEW o \in Present', IsPerson(o),
                      orders'[o].changed # NoDate
               PROVE  Current(o)' \/ StillSelected(orders[o].changed)'
    BY DEF NoChangeSkipped, IsPerson
  <2>1. CASE o \in Present /\ orders'[o] = orders[o]
    <3>1. Current(o) \/ StillSelected(orders[o].changed)
      BY <2>1 DEF NoChangeSkipped
    <3> QED BY <1>2, <2>1, <3>1 DEF Current, StillSelected, Loaded
  <2>2. CASE /\ orders'[o].changed \in Dates
             /\ orders'[o].changed >= newest - MaxLate
    <3> SUFFICES ASSUME NEW m \in Orders, Loaded(m)
                 PROVE  orders'[o].changed > DepthBelow(mart[m].from)
      BY <1>2 DEF StillSelected, Loaded
    <3>1. mart[m].from \in Dates /\ Between(m, mart[m].from)
      BY DEF TypeOK, MartRow, MartInv, Loaded
    <3>2. mart[m].from =< newest /\ newest \in Nat
      BY <3>1, BetweenNewest, OrdersAssumption DEF TypeOK, SrcTypeOK
    <3> QED BY <2>2, <3>1, <3>2, OrdersAssumption, JobAssumption
            DEF Strict, DepthBelow, Dates
  <2> QED BY <1>8, <2>1, <2>2
<1> QED BY <1>3, <1>4, <1>5, <1>6, <1>7, <1>9, <1>10

\* The first rows of a set are not preceded by the rows LIMIT leaves out.
LEMMA BatchFirst ==
  ASSUME NEW S, IsFiniteSet(S),
         \A x \in S : x.order \in Int /\ x.date \in Int \cup {NoDate},
         NEW x \in Batch(S), NEW y \in S, y \notin Batch(S)
  PROVE  ~Precedes(y, x)
<1> USE OrdersAssumption, JobAssumption
<1> DEFINE Before(z) == {w \in S : w # z /\ Precedes(w, z)}
<1> SUFFICES ASSUME Precedes(y, x) PROVE FALSE
  OBVIOUS
<1>1. x \in S
  BY DEF Batch
<1>2. ASSUME NEW w \in S, w # y, Precedes(w, y)
      PROVE  w # x /\ Precedes(w, x)
  <2>1. /\ w.order \in Int /\ x.order \in Int /\ y.order \in Int
        /\ w.date \in Int \cup {NoDate} /\ x.date \in Int \cup {NoDate}
        /\ y.date \in Int \cup {NoDate}
    BY <1>1
  <2>2. Precedes(w, x)
    BY <1>2, <2>1 DEF Precedes
  <2>3. ~Precedes(x, y)
    BY <2>1 DEF Precedes
  <2> QED BY <1>2, <2>2, <2>3
<1>3. Before(y) \subseteq Before(x)
  BY <1>2
<1>4. IsFiniteSet(Before(x)) /\ IsFiniteSet(Before(y))
  BY FS_Subset
<1>5. /\ Cardinality(Before(y)) =< Cardinality(Before(x))
      /\ Cardinality(Before(y)) \in Nat /\ Cardinality(Before(x)) \in Nat
  BY <1>3, <1>4, FS_Subset, FS_CardinalityType
<1>6. Cardinality(Before(x)) < BatchSize
  BY DEF Batch
<1>7. Cardinality(Before(y)) < BatchSize
  BY <1>5, <1>6
<1> QED BY <1>7 DEF Batch

-----------------------------------------------------------------------------
\* The steps of a run.

LEMMA StartInv ==
  ASSUME Strict, IInv, TypeOK', NEW r \in Runs, Start(r)
  PROVE  IInv'
<1> USE DEF IInv
<1>1. UNCHANGED <<srcVars, mart, rows, staged>>
  BY DEF Start, martVars, txVars
<1>2. \A q \in Runs : pc[q] = "idle"
  BY DEF Start, Strict
<1>3. pc' = [pc EXCEPT ![r] = "cancels"] /\ IsDepth(depth'[r])
  BY DEF Start, TypeOK
<1>4. SourceInv' /\ MartInv' /\ StagedInv' /\ RowsInv' /\ OnceInv'
  BY <1>1 DEF srcVars, SourceInv, MartInv, StagedInv, RowsInv, OnceInv,
              Between, Present, Loaded
<1>5. Alone' /\ Tidy' /\ CoverInv'
  BY <1>1, <1>2, <1>3 DEF Alone, Tidy, CoverInv, TypeOK
<1>6. DepthInv'
  BY <1>1, <1>2, <1>3 DEF DepthInv, IsDepth, TypeOK
<1>7. NoChangeSkipped'
  BY <1>1 DEF srcVars, NoChangeSkipped, Present, Current, StillSelected, Loaded
<1> QED BY <1>4, <1>5, <1>6, <1>7

\* A step of r that reads, or stages history, without touching requests.
LEMMA QuietInv ==
  ASSUME IInv, TypeOK', NEW r \in Runs,
         UNCHANGED <<srcVars, mart, depth, staged, rows>>,
         \A q \in Runs \ {r} : pc'[q] = pc[q],
         pc[r] # "idle", pc'[r] # "idle",
         pc'[r] \in {"orders", "history"} => pc[r] \in {"orders", "history"},
         pc'[r] # "orders" => rows[r] = {},
         pc'[r] \notin {"orders", "history"} => staged[r] = NothingStaged
  PROVE  IInv'
<1> USE DEF IInv
<1>1. /\ SourceInv' /\ MartInv' /\ StagedInv' /\ RowsInv' /\ OnceInv'
      /\ NoChangeSkipped'
  BY DEF srcVars, SourceInv, MartInv, StagedInv, RowsInv, OnceInv, Between,
         Present, NoChangeSkipped, Current, StillSelected, Loaded
<1>2. Alone' /\ Tidy' /\ DepthInv'
  BY DEF Alone, Tidy, DepthInv, IsDepth
<1>3. CoverInv'
  <2> SUFFICES ASSUME NEW q \in Runs, pc'[q] \in {"orders", "history"},
                      NEW o \in Present', IsPerson(o),
                      orders'[o].changed # NoDate
               PROVE  Covered(q, o)'
    BY DEF CoverInv, IsPerson
  <2>1. o \in Present /\ orders[o].changed # NoDate
    BY DEF Present, srcVars
  <2>2. Covered(q, o)
    BY <2>1 DEF CoverInv
  <2> QED BY <2>2 DEF Covered, Above, Current, StillSelected, Loaded, srcVars
<1> QED BY <1>1, <1>2, <1>3

LEMMA LoadCancelStatusesInv ==
  ASSUME IInv, TypeOK', NEW r \in Runs, LoadCancelStatuses(r)
  PROVE  IInv'
<1>1. /\ UNCHANGED <<srcVars, mart, depth, staged, rows>>
      /\ pc[r] = "cancels" /\ pc' = [pc EXCEPT ![r] = "query"]
  BY DEF LoadCancelStatuses, martVars, txVars
<1>2. rows[r] = {} /\ staged[r] = NothingStaged
  BY <1>1 DEF IInv, Tidy
<1>3. pc'[r] = "query" /\ \A q \in Runs \ {r} : pc'[q] = pc[q]
  BY <1>1 DEF IInv, TypeOK
<1> QED BY <1>1, <1>2, <1>3, QuietInv

LEMMA QueryHistoryInv ==
  ASSUME IInv, TypeOK', NEW r \in Runs, QueryHistory(r)
  PROVE  IInv'
<1>1. /\ UNCHANGED <<srcVars, mart, depth, staged, rows>>
      /\ pc[r] = "orders" /\ rows[r] = {}
      /\ pc' = [pc EXCEPT ![r] = "history"]
  BY DEF QueryHistory, OrdersDone, martVars, txVars
<1>2. pc'[r] = "history" /\ \A q \in Runs \ {r} : pc'[q] = pc[q]
  BY <1>1 DEF IInv, TypeOK
<1> QED BY <1>1, <1>2, QuietInv

LEMMA HistoryRowInv ==
  ASSUME IInv, TypeOK', NEW r \in Runs, NEW x \in logRows[r],
         InsertRequestHistory(r, x) \/ SkipHistory(r, x)
  PROVE  IInv'
<1>1. /\ UNCHANGED <<srcVars, mart, depth, staged, rows, pc>>
      /\ pc[r] = "history"
  BY DEF InsertRequestHistory, SkipHistory, martVars, txVars
<1>2. rows[r] = {}
  BY <1>1 DEF IInv, Tidy
<1> QED BY <1>1, <1>2, QuietInv

\* A row of processOrders is an order as it is now, changed above the depth.
LEMMA OrdersRow ==
  ASSUME NEW d, NEW x \in OrdersResult(d)
  PROVE  /\ x.order \in Present
         /\ x = [order |-> x.order, date |-> orders[x.order].changed,
                 state |-> orders[x.order].state]
<1> DEFINE S == {[order |-> o, date |-> orders[o].changed,
                  state |-> orders[o].state] :
                    o \in {p \in Present : After(orders[p].changed, d)}}
<1>1. x \in S
  BY BatchSubset DEF OrdersResult
<1> QED BY <1>1

\* The depth excludes no date that later runs must still select.
LEMMA DepthSelects ==
  ASSUME NEW r \in Runs, IsDepth(depth[r]), NEW date, date # NoDate,
         StillSelected(date)
  PROVE  After(date, depth[r])
BY DEF IsDepth, StillSelected, After, Loaded

\* An order that must be loaded is in the result, or LIMIT left it for later.
LEMMA QueryCovers ==
  ASSUME TypeOK, NEW d, NEW o \in Present, orders[o].changed # NoDate,
         After(orders[o].changed, d)
  PROVE  \/ \E x \in OrdersResult(d) :
              x.order = o /\ x.date = orders[o].changed
         \/ \A x \in OrdersResult(d) :
              x.date # NoDate => orders[o].changed > DepthBelow(x.date)
<1> USE OrdersAssumption, JobAssumption
<1> DEFINE Row(p) == [order |-> p, date |-> orders[p].changed,
                      state |-> orders[p].state]
           P == {p \in Present : After(orders[p].changed, d)}
           S == {Row(p) : p \in P}
<1>1. Row(o) \in S
  OBVIOUS
<1>2. IsFiniteSet(S)
  <2>1. IsFiniteSet(P)
    BY FS_Subset DEF Present
  <2> DEFINE f == [p \in P |-> Row(p)]
  <2>2. f \in Surjection(P, S)
    BY DEF Surjection
  <2> HIDE DEF f, P, S
  <2> QED BY <2>1, <2>2, FS_Surjection
<1>3. \A x \in S : x.order \in Int /\ x.date \in Int \cup {NoDate}
  BY DEF TypeOK, SrcTypeOK, Present, OrderRow, Dates
<1>4. CASE Row(o) \in Batch(S)
  BY <1>4 DEF OrdersResult
<1>5. CASE Row(o) \notin Batch(S)
  <2> SUFFICES ASSUME NEW x \in Batch(S), x.date # NoDate
               PROVE  orders[o].changed > DepthBelow(x.date)
    BY DEF OrdersResult
  <2>1. ~Precedes(Row(o), x)
    BY <1>1, <1>2, <1>3, <1>5, BatchFirst
  <2>2. x.date \in Int /\ orders[o].changed \in Int
    BY <1>1, <1>3, BatchSubset
  <2>3. x.date =< orders[o].changed
    BY <2>1, <2>2 DEF Precedes
  <2> QED BY <2>2, <2>3 DEF DepthBelow
<1> QED BY <1>4, <1>5

LEMMA QueryOrdersInv ==
  ASSUME IInv, TypeOK', NEW r \in Runs, QueryOrders(r)
  PROVE  IInv'
<1> USE DEF IInv
<1>1. /\ UNCHANGED <<srcVars, mart, depth, staged>>
      /\ pc[r] = "query" /\ pc' = [pc EXCEPT ![r] = "orders"]
      /\ rows' = [rows EXCEPT ![r] = OrdersResult(depth[r])]
  BY DEF QueryOrders, martVars, txVars
<1>2. /\ staged[r] = NothingStaged
      /\ \A o \in Orders : staged[r][o] = NoRow
  BY <1>1 DEF Tidy, NothingStaged
<1>3. /\ pc'[r] = "orders" /\ rows'[r] = OrdersResult(depth[r])
      /\ \A q \in Runs \ {r} : pc'[q] = pc[q] /\ rows'[q] = rows[q]
  BY <1>1 DEF TypeOK
<1>4. SourceInv' /\ MartInv' /\ StagedInv' /\ NoChangeSkipped'
  BY <1>1 DEF srcVars, SourceInv, MartInv, StagedInv, Between, Present,
              NoChangeSkipped, Current, StillSelected, Loaded
<1>5. Alone' /\ Tidy' /\ DepthInv'
  BY <1>1, <1>3 DEF Alone, Tidy, DepthInv, IsDepth
<1>6. RowsInv'
  <2> SUFFICES ASSUME NEW q \in Runs, NEW x \in rows'[q], x.date # NoDate
               PROVE  Between(x.order, x.date)
    BY <1>1 DEF RowsInv, Between, Present, Loaded, srcVars
  <2>1. CASE q # r
    BY <1>3, <2>1 DEF RowsInv
  <2>2. CASE q = r
    <3>1. x.order \in Present /\ x.date = orders[x.order].changed
      BY <1>3, <2>2, OrdersRow
    <3>2. x.date \in Dates
      BY <3>1 DEF TypeOK, SrcTypeOK, Present, OrderRow
    <3>3. Loaded(x.order) => mart[x.order].from =< x.date
      BY <3>1 DEF MartInv, Between, Present
    <3> QED BY <3>1, <3>2, <3>3, OrdersAssumption DEF Between, Dates
  <2> QED BY <2>1, <2>2
<1>7. OnceInv'
  <2> SUFFICES ASSUME NEW q \in Runs, NEW x \in rows'[q]
               PROVE  /\ staged[q][x.order] = NoRow
                      /\ \A y \in rows'[q] : y.order = x.order => y = x
    BY <1>1 DEF OnceInv
  <2>1. CASE q # r
    BY <1>3, <2>1 DEF OnceInv
  <2>2. CASE q = r
    <3>1. \A y \in rows'[r] :
            /\ y.order \in Present
            /\ y = [order |-> y.order, date |-> orders[y.order].changed,
                    state |-> orders[y.order].state]
      BY <1>3, OrdersRow
    <3> QED BY <1>2, <2>2, <3>1 DEF Present
  <2> QED BY <2>1, <2>2
<1>8. CoverInv'
  <2> SUFFICES ASSUME NEW q \in Runs, pc'[q] \in {"orders", "history"},
                      NEW o \in Present, IsPerson(o),
                      orders[o].changed # NoDate
               PROVE  Covered(q, o)'
    BY <1>1 DEF CoverInv, IsPerson, Present, srcVars
  <2>1. q = r
    BY <1>1, <1>3 DEF Alone, TypeOK
  <2>2. CASE Current(o)
    BY <1>1, <1>2, <2>1, <2>2 DEF Covered, Current, Loaded, Present, srcVars
  <2>3. CASE StillSelected(orders[o].changed)
    <3>1. IsDepth(depth[r])
      BY <1>1 DEF DepthInv
    <3>2. After(orders[o].changed, depth[r])
      BY <2>3, <3>1, DepthSelects
    <3>3. \/ \E x \in rows'[r] : x.order = o /\ x.date = orders[o].changed
          \/ \A x \in rows'[r] :
               x.date # NoDate => orders[o].changed > DepthBelow(x.date)
      BY <1>3, <3>2, QueryCovers
    <3> QED BY <1>1, <1>2, <2>1, <2>3, <3>3
            DEF Covered, Above, StillSelected, Loaded, srcVars
  <2> QED BY <2>2, <2>3 DEF NoChangeSkipped
<1> QED BY <1>4, <1>5, <1>6, <1>7, <1>8

LEMMA UpsertRequestInv ==
  ASSUME IInv, TypeOK', NEW r \in Runs, NEW x \in rows[r], UpsertRequest(r, x)
  PROVE  IInv'
<1> USE DEF IInv
<1> DEFINE row == RequestRow(r, x)
<1>1. /\ UNCHANGED <<srcVars, mart, depth, pc>>
      /\ pc[r] = "orders" /\ x.date # NoDate
      /\ staged' = [staged EXCEPT ![r][x.order] = row]
      /\ rows' = [rows EXCEPT ![r] = @ \ {x}]
  BY DEF UpsertRequest, AtRow, Poisonous, martVars
<1>2. /\ x.order \in Orders /\ x.date \in Dates
      /\ Between(x.order, x.date) /\ staged[r][x.order] = NoRow
  BY <1>1 DEF TypeOK, OrderResultRow, RowsInv, OnceInv
<1>3. /\ rows'[r] = rows[r] \ {x}
      /\ \A q \in Runs \ {r} : rows'[q] = rows[q] /\ staged'[q] = staged[q]
      /\ staged'[r] = [staged[r] EXCEPT ![x.order] = row]
  BY <1>1 DEF TypeOK
<1> HIDE DEF row
<1>4. row.from = x.date
  BY DEF row, RequestRow
<1>5. /\ staged'[r][x.order] = row
      /\ \A o \in Orders \ {x.order} : staged'[r][o] = staged[r][o]
  BY <1>2, <1>3 DEF TypeOK
<1>6. row # NoRow
  <2>1. StatusOf(x.order, x.state, cancelMap[r]) \in Int
    <3>1. x.state \in States
      BY DEF TypeOK, OrderResultRow
    <3> QED BY <3>1, StatusType
  <2>2. row \in MartRow
    BY <1>2, <2>1 DEF row, RequestRow, MartRow
  <2> QED BY <2>2, JobAssumption
<1>7. /\ SourceInv' /\ MartInv' /\ NoChangeSkipped'
  BY <1>1 DEF srcVars, SourceInv, MartInv, Between, Present, NoChangeSkipped,
              Current, StillSelected, Loaded
<1>8. Alone' /\ Tidy' /\ DepthInv'
  BY <1>1, <1>3 DEF Alone, Tidy, DepthInv, IsDepth
<1>9. StagedInv'
  <2> SUFFICES ASSUME NEW q \in Runs, NEW o \in Orders, staged'[q][o] # NoRow
               PROVE  Between(o, staged'[q][o].from)
    BY <1>1 DEF StagedInv, Between, Present, Loaded, srcVars
  <2>1. CASE q = r /\ o = x.order
    BY <1>2, <1>4, <1>5, <2>1
  <2>2. CASE ~(q = r /\ o = x.order)
    BY <1>3, <1>5, <2>2 DEF StagedInv
  <2> QED BY <2>1, <2>2
<1>10. RowsInv'
  <2>1. \A q \in Runs : rows'[q] \subseteq rows[q]
    BY <1>3
  <2> QED BY <1>1, <2>1 DEF RowsInv, Between, Present, Loaded, srcVars
<1>11. OnceInv'
  <2> SUFFICES ASSUME NEW q \in Runs, NEW y \in rows'[q]
               PROVE  /\ staged'[q][y.order] = NoRow
                      /\ \A z \in rows'[q] : z.order = y.order => z = y
    BY DEF OnceInv
  <2>1. y \in rows[q] /\ rows'[q] \subseteq rows[q]
    BY <1>3
  <2>2. staged[q][y.order] = NoRow /\ y.order \in Orders
    BY <2>1 DEF OnceInv, TypeOK, OrderResultRow
  <2>3. CASE q = r
    <3>1. y.order # x.order
      BY <1>3, <2>1, <2>3 DEF OnceInv
    <3> QED BY <1>5, <2>1, <2>2, <2>3, <3>1 DEF OnceInv
  <2>4. CASE q # r
    BY <1>3, <2>1, <2>2, <2>4 DEF OnceInv
  <2> QED BY <2>3, <2>4
<1>12. CoverInv'
  <2> SUFFICES ASSUME NEW q \in Runs, pc[q] \in {"orders", "history"},
                      NEW o \in Present, IsPerson(o),
                      orders[o].changed # NoDate
               PROVE  Covered(q, o)'
    BY <1>1 DEF CoverInv, IsPerson, Present, srcVars
  <2>1. q = r
    BY <1>1 DEF Alone
  <2>2. Covered(r, o) /\ o \in Orders
    BY <2>1 DEF CoverInv, Present
  <2>3. CASE o = x.order /\ x.date = orders[o].changed
    BY <1>1, <1>4, <1>5, <1>6, <2>1, <2>3 DEF Covered, srcVars
  <2>4. CASE staged[r][o] = NoRow /\ Current(o)
    <3>1. CASE o = x.order
      <4>1. x.date = orders[o].changed
        <5>1. mart[o].from =< x.date /\ x.date =< mart[o].from
          BY <1>2, <2>4, <3>1 DEF Between, Current
        <5>2. mart[o].from \in Int /\ x.date \in Int
          BY <1>2, <2>4 DEF TypeOK, MartRow, Current, Loaded, Dates, Present
        <5> QED BY <2>4, <5>1, <5>2 DEF Current
      <4> QED BY <2>3, <3>1, <4>1
    <3>2. CASE o # x.order
      BY <1>1, <1>5, <2>1, <2>2, <2>4, <3>2
         DEF Covered, Current, Loaded, srcVars
    <3> QED BY <3>1, <3>2
  <2>5. CASE staged[r][o] # NoRow /\ staged[r][o].from = orders[o].changed
    <3>1. staged'[r][o] = staged[r][o]
      BY <1>2, <1>5, <2>2, <2>5
    <3> QED BY <1>1, <2>1, <2>5, <3>1 DEF Covered, srcVars
  <2>6. CASE \E y \in rows[r] : y.order = o /\ y.date = orders[o].changed
    <3>1. PICK y \in rows[r] : y.order = o /\ y.date = orders[o].changed
      BY <2>6
    <3>2. CASE y = x
      BY <2>3, <3>1, <3>2
    <3>3. CASE y # x
      BY <1>1, <1>3, <2>1, <3>1, <3>3 DEF Covered, srcVars
    <3> QED BY <3>2, <3>3
  <2>7. CASE Above(r, orders[o].changed)
    <3>1. \A p \in Orders :
            staged'[r][p] # NoRow =>
              orders[o].changed > DepthBelow(staged'[r][p].from)
      BY <1>1, <1>2, <1>4, <1>5, <2>7 DEF Above
    <3>2. \A y \in rows'[r] :
            y.date # NoDate => orders[o].changed > DepthBelow(y.date)
      BY <1>3, <2>7 DEF Above
    <3> QED BY <1>1, <2>1, <2>7, <3>1, <3>2
            DEF Covered, Above, StillSelected, Loaded, srcVars
  <2> QED BY <2>2, <2>4, <2>5, <2>6, <2>7 DEF Covered
<1> QED BY <1>7, <1>8, <1>9, <1>10, <1>11, <1>12

LEMMA SkipOrderInv ==
  ASSUME IInv, TypeOK', NEW r \in Runs, NEW x \in rows[r], SkipOrder(r, x)
  PROVE  IInv'
<1> USE DEF IInv
<1>1. /\ UNCHANGED <<srcVars, mart, depth, pc, staged>>
      /\ pc[r] = "orders" /\ ~IsPerson(x.order)
      /\ rows' = [rows EXCEPT ![r] = @ \ {x}]
  BY DEF SkipOrder, AtRow, IsPerson, martVars, txVars
<1>2. /\ rows'[r] = rows[r] \ {x}
      /\ \A q \in Runs : rows'[q] \subseteq rows[q]
  BY <1>1 DEF TypeOK
<1>3. /\ SourceInv' /\ MartInv' /\ StagedInv' /\ NoChangeSkipped'
  BY <1>1 DEF srcVars, SourceInv, MartInv, StagedInv, Between, Present,
              NoChangeSkipped, Current, StillSelected, Loaded
<1>4. Alone' /\ Tidy' /\ DepthInv' /\ RowsInv' /\ OnceInv'
  BY <1>1, <1>2 DEF Alone, Tidy, DepthInv, IsDepth, RowsInv, OnceInv, Between,
                    Present, Loaded, srcVars
<1>5. CoverInv'
  <2> SUFFICES ASSUME NEW q \in Runs, pc[q] \in {"orders", "history"},
                      NEW o \in Present, IsPerson(o),
                      orders[o].changed # NoDate
               PROVE  Covered(q, o)'
    BY <1>1 DEF CoverInv, IsPerson, Present, srcVars
  <2>1. q = r /\ x.order # o
    BY <1>1 DEF Alone
  <2>2. Covered(r, o)
    BY <2>1 DEF CoverInv
  <2> QED BY <1>1, <1>2, <2>1, <2>2
          DEF Covered, Above, Current, StillSelected, Loaded, srcVars
<1> QED BY <1>3, <1>4, <1>5

\* A run that ends without a commit leaves the mart as it was.
LEMMA GiveUpInv ==
  ASSUME IInv, TypeOK', NEW r \in Runs, GiveUp(r), UNCHANGED <<srcVars, mart>>
  PROVE  IInv'
<1> USE DEF IInv
<1>1. /\ pc' = [pc EXCEPT ![r] = "idle"] /\ depth' = [depth EXCEPT ![r] = NoDate]
      /\ rows' = [rows EXCEPT ![r] = {}]
      /\ staged' = [staged EXCEPT ![r] = NothingStaged]
  BY DEF GiveUp
<1>2. /\ pc'[r] = "idle" /\ rows'[r] = {} /\ staged'[r] = NothingStaged
      /\ \A q \in Runs \ {r} : /\ pc'[q] = pc[q] /\ depth'[q] = depth[q]
                               /\ rows'[q] = rows[q] /\ staged'[q] = staged[q]
  BY <1>1 DEF TypeOK
<1>3. \A o \in Orders : NothingStaged[o] = NoRow
  BY DEF NothingStaged
<1>4. SourceInv' /\ MartInv' /\ NoChangeSkipped'
  BY DEF srcVars, SourceInv, MartInv, Between, Present, NoChangeSkipped,
         Current, StillSelected, Loaded
<1>5. Alone' /\ Tidy' /\ DepthInv'
  BY <1>2 DEF Alone, Tidy, DepthInv, IsDepth
<1>6. StagedInv' /\ RowsInv' /\ OnceInv'
  BY <1>2, <1>3 DEF StagedInv, RowsInv, OnceInv, Between, Present, Loaded, srcVars
<1>7. CoverInv'
  <2> SUFFICES ASSUME NEW q \in Runs \ {r}, pc[q] \in {"orders", "history"},
                      NEW o \in Present, IsPerson(o),
                      orders[o].changed # NoDate
               PROVE  Covered(q, o)'
    BY <1>2 DEF CoverInv, IsPerson, Present, srcVars
  <2>1. Covered(q, o)
    BY DEF CoverInv
  <2> QED BY <1>2, <2>1
          DEF Covered, Above, Current, StillSelected, Loaded, srcVars
<1> QED BY <1>4, <1>5, <1>6, <1>7

\* What a commit makes of the row of an order in the mart.
LEMMA CommitRow ==
  ASSUME NEW r \in Runs, Commit(r), NEW o \in Orders
  PROVE  mart'[o] = IF staged[r][o] # NoRow THEN staged[r][o] ELSE mart[o]
BY DEF Commit

LEMMA CommitInv ==
  ASSUME IInv, TypeOK', NEW r \in Runs, Commit(r)
  PROVE  IInv'
<1> USE DEF IInv
<1>1. /\ UNCHANGED srcVars /\ pc[r] = "history"
      /\ pc' = [pc EXCEPT ![r] = "idle"]
      /\ rows' = [rows EXCEPT ![r] = {}]
      /\ staged' = [staged EXCEPT ![r] = NothingStaged]
  BY DEF Commit, GiveUp
<1>2. rows[r] = {} /\ \A q \in Runs \ {r} : pc[q] = "idle"
  BY <1>1 DEF Tidy, Alone
<1>3. \A q \in Runs : /\ pc'[q] = "idle" /\ rows'[q] = {}
                      /\ staged'[q] = NothingStaged
  BY <1>1, <1>2 DEF Tidy, TypeOK
<1>4. \A o \in Orders : NothingStaged[o] = NoRow
  BY DEF NothingStaged
<1>5. SourceInv'
  BY <1>1 DEF srcVars, SourceInv, Present
<1>6. Alone' /\ Tidy' /\ DepthInv' /\ CoverInv'
  BY <1>3 DEF Alone, Tidy, DepthInv, CoverInv
<1>7. StagedInv' /\ RowsInv' /\ OnceInv'
  BY <1>3, <1>4 DEF StagedInv, RowsInv, OnceInv
<1>8. MartInv'
  <2> SUFFICES ASSUME NEW o \in Orders, mart'[o] # NoRow
               PROVE  Between(o, mart[o].from)'
    BY DEF MartInv, Loaded
  <2>1. mart'[o].from \in Int
    BY DEF TypeOK, MartRow, Dates
  <2>2. CASE staged[r][o] # NoRow
    <3>1. mart'[o] = staged[r][o] /\ Between(o, staged[r][o].from)
      BY <2>2, CommitRow DEF StagedInv
    <3> QED BY <1>1, <2>1, <3>1 DEF Between, Present, srcVars
  <2>3. CASE staged[r][o] = NoRow
    <3>1. mart'[o] = mart[o] /\ Between(o, mart[o].from)
      BY <2>3, CommitRow DEF MartInv, Loaded
    <3> QED BY <1>1, <2>1, <3>1 DEF Between, Present, srcVars
  <2> QED BY <2>2, <2>3
<1>9. NoChangeSkipped'
  <2> SUFFICES ASSUME NEW o \in Present, IsPerson(o),
                      orders[o].changed # NoDate
               PROVE  (Current(o) \/ StillSelected(orders[o].changed))'
    BY <1>1 DEF NoChangeSkipped, IsPerson, Present, srcVars
  <2>1. Covered(r, o) /\ o \in Orders
    BY <1>1 DEF CoverInv, Present
  <2>2. CASE staged[r][o] = NoRow /\ Current(o)
    BY <1>1, <2>1, <2>2, CommitRow DEF Current, Loaded, srcVars
  <2>3. CASE staged[r][o] # NoRow /\ staged[r][o].from = orders[o].changed
    BY <1>1, <2>1, <2>3, CommitRow DEF Current, Loaded, srcVars
  <2>4. CASE Above(r, orders[o].changed)
    <3>1. ASSUME NEW m \in Orders, mart'[m] # NoRow
          PROVE  orders[o].changed > mart'[m].from - Lookback
      <4>1. CASE staged[r][m] # NoRow
        BY <2>4, <4>1, CommitRow DEF Above, DepthBelow
      <4>2. CASE staged[r][m] = NoRow
        <5>1. mart'[m] = mart[m] /\ Loaded(m)
          BY <3>1, <4>2, CommitRow DEF Loaded
        <5> QED BY <2>4, <5>1 DEF Above, StillSelected, DepthBelow
      <4> QED BY <4>1, <4>2
    <3> QED BY <1>1, <3>1 DEF StillSelected, Loaded, srcVars, DepthBelow
  <2> QED BY <1>2, <2>1, <2>2, <2>3, <2>4 DEF Covered
<1> QED BY <1>5, <1>6, <1>7, <1>8, <1>9

LEMMA StepInv == Strict /\ IInv /\ [Next]_vars => IInv'
<1> SUFFICES ASSUME Strict, IInv, [Next]_vars PROVE IInv'
  OBVIOUS
<1>1. TypeOK'
  BY TypeStep DEF IInv
<1>2. CASE \/ UNCHANGED vars
           \/ \E r \in Runs : \E n \in pending[r] : UpsertReqNumber(r, n)
  <2>1. UNCHANGED <<orders, log, newest, mart, pc, depth, rows, staged>>
    BY <1>2 DEF UpsertReqNumber, vars, srcVars, martVars, txVars, runVars
  <2> QED BY <1>1, <2>1
          DEF IInv, SourceInv, Alone, Tidy, MartInv, StagedInv, RowsInv, OnceInv,
              DepthInv, CoverInv, NoChangeSkipped, Present, Between, IsDepth,
              Covered, Above, Current, StillSelected, Loaded
<1>3. CASE SourceStep
  BY <1>1, <1>3, SourceStepInv
<1>4. ASSUME NEW r \in Runs, Start(r) PROVE IInv'
  BY <1>1, <1>4, StartInv
<1>5. ASSUME NEW r \in Runs, LoadCancelStatuses(r) PROVE IInv'
  BY <1>1, <1>5, LoadCancelStatusesInv
<1>6. ASSUME NEW r \in Runs, QueryOrders(r) PROVE IInv'
  BY <1>1, <1>6, QueryOrdersInv
<1>7. ASSUME NEW r \in Runs, NEW x \in rows[r], UpsertRequest(r, x)
      PROVE  IInv'
  BY <1>1, <1>7, UpsertRequestInv
<1>8. ASSUME NEW r \in Runs, NEW x \in rows[r], SkipOrder(r, x) PROVE IInv'
  BY <1>1, <1>8, SkipOrderInv
<1>9. ASSUME NEW r \in Runs, QueryHistory(r) PROVE IInv'
  BY <1>1, <1>9, QueryHistoryInv
<1>10. ASSUME NEW r \in Runs, NEW x \in logRows[r],
              InsertRequestHistory(r, x) \/ SkipHistory(r, x)
       PROVE  IInv'
  BY <1>1, <1>10, HistoryRowInv
<1>11. ASSUME NEW r \in Runs, Commit(r) PROVE IInv'
  BY <1>1, <1>11, CommitInv
<1>12. ASSUME NEW r \in Runs,
              \/ \E x \in rows[r] : FailOnOrder(r, x)
              \/ \E x \in logRows[r] : FailOnHistory(r, x)
              \/ FailOnHistoryQuery(r) \/ Deadlocked(r) \/ BreakOff(r)
       PROVE  IInv'
  <2>1. GiveUp(r) /\ UNCHANGED <<srcVars, mart>>
    BY <1>12 DEF FailOnOrder, FailOnHistory, FailOnHistoryQuery, Deadlocked,
                 BreakOff, martVars
  <2> QED BY <1>1, <2>1, GiveUpInv
<1> QED
  BY <1>2, <1>3, <1>4, <1>5, <1>6, <1>7, <1>8, <1>9, <1>10, <1>11, <1>12
  DEF Next, Proceed

-----------------------------------------------------------------------------

\* With runs kept apart and events late by less than the lookback, no change of
\* an order is ever skipped: whatever the batch size, the number of orders and
\* the point at which runs are broken off (job.go:60-63, 98-103).
THEOREM NothingSkipped == Strict => (Spec => []NoChangeSkipped)
<1> SUFFICES ASSUME Strict PROVE Spec => []NoChangeSkipped
  OBVIOUS
<1>1. Init => IInv
  BY InvInit
<1>2. IInv /\ [Next]_vars => IInv'
  BY StepInv
<1>3. IInv => NoChangeSkipped
  BY DEF IInv
<1> QED BY <1>1, <1>2, <1>3, PTL DEF Spec

\* Under the same conditions a request in the mart never goes back to an older
\* version of its order and never disappears (store.go:84-111).
THEOREM NeverRegresses == Strict => (Spec => MartNeverRegresses)
<1> SUFFICES ASSUME Strict PROVE Spec => MartNeverRegresses
  OBVIOUS
<1>1. Init => IInv
  BY InvInit
<1>2. IInv /\ [Next]_vars => IInv'
  BY StepInv
<1>3. ASSUME IInv, [Next]_vars
      PROVE  [\A o \in Orders : Loaded(o) =>
                mart'[o] # NoRow /\ mart'[o].from >= mart[o].from]_mart
  <2>1. CASE \E r \in Runs : Commit(r)
    <3>1. PICK r \in Runs : Commit(r)
      BY <2>1
    <3> SUFFICES ASSUME NEW o \in Orders, Loaded(o)
                 PROVE  mart'[o] # NoRow /\ mart'[o].from >= mart[o].from
      OBVIOUS
    <3>2. mart[o].from \in Int
      BY <1>3 DEF IInv, TypeOK, MartRow, Loaded, Dates
    <3>3. CASE staged[r][o] # NoRow
      <4>1. mart'[o] = staged[r][o] /\ staged[r][o].from \in Int
        BY <1>3, <3>1, <3>3, CommitRow DEF IInv, TypeOK, MartRow, Dates
      <4> QED BY <1>3, <3>2, <3>3, <4>1 DEF IInv, StagedInv, Between
    <3>4. CASE staged[r][o] = NoRow
      BY <3>1, <3>2, <3>4, CommitRow DEF Loaded
    <3> QED BY <3>3, <3>4
  <2>2. CASE ~ \E r \in Runs : Commit(r)
    <3>1. UNCHANGED mart
      BY <1>3, <2>2
      DEF Next, Proceed, SourceStep, Start, LoadCancelStatuses, QueryOrders,
          UpsertRequest, UpsertReqNumber, SkipOrder, FailOnOrder, QueryHistory,
          FailOnHistoryQuery, InsertRequestHistory, SkipHistory, FailOnHistory, Deadlocked, BreakOff,
          vars, martVars
    <3> QED BY <3>1
  <2> QED BY <2>1, <2>2
<1> QED BY <1>1, <1>2, <1>3, PTL DEF Spec, MartNeverRegresses
=============================================================================
