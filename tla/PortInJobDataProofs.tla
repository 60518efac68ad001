------------------------- MODULE PortInJobDataProofs -------------------------
(***************************************************************************)
(* What the mart's rows say, proved of PortInJob for every set of orders,   *)
(* lookback and batch size, with or without runs that overlap: a request   *)
(* has its numbers, rows are versions of their orders, and the intervals   *)
(* of the history stay exact.                                              *)
(***************************************************************************)
EXTENDS PortInJobProofs

\* Of the numbers of an order the table T holds all or none.
NumbersIn(T, o, loaded) ==
  {n \in Msisdns : <<o, n>> \in T} = IF loaded THEN Numbers[o] \ {""} ELSE {}

\* A run has staged, or is about to, the numbers of the requests it stages, and
\* is done with them when it leaves the orders.
StagedNumbersArrive ==
  \A r \in Runs :
    /\ \A o \in Orders :
         NumbersIn(stagedNums[r] \cup pending[r], o, staged[r][o] # NoRow)
    /\ pc[r] # "orders" => pending[r] = {}

NumbersInv == TypeOK /\ NumbersArriveWithRequest /\ StagedNumbersArrive

\* A row made of a version of its order, or of one with a cancellation.
MadeFrom(o, row) ==
  \E v \in Versions(o) :
    /\ row.from = v.from
    /\ \/ row.status = MapStatus(v.state)
       \/ row.status = CancelledStatus /\ cancelled[o] # NoDate

StagedComeFromSource ==
  \A r \in Runs, o \in Orders :
    staged[r][o] # NoRow => MadeFrom(o, staged[r][o])

\* What a run has read was a version when it was read, and so it is now.
ReadComesFromSource ==
  \A r \in Runs :
    /\ \A x \in rows[r] :
         x.date # NoDate => [from |-> x.date, state |-> x.state] \in Versions(x.order)
    /\ \A o \in cancelMap[r] : cancelled[o] # NoDate

SourcedInv ==
  TypeOK /\ RowsComeFromSource /\ StagedComeFromSource /\ ReadComesFromSource

\* The version of o from this date was replaced at the end of this interval.
Interval(o, from, to) ==
  \E l \in log : l.order = o /\ l.version = from /\ Replaced(l, to + 1)

StagedIntervals ==
  \A r \in Runs :
    /\ \A h \in stagedHist[r] : Interval(h.order, h.from, h.to)
    /\ \A x \in logRows[r] : Interval(x.order, x.date, x.to)

HistoryInv == TypeOK /\ SourceInv /\ HistoryIntervalsExact /\ StagedIntervals

-----------------------------------------------------------------------------
\* Numbers.

LEMMA NumbersInit == Init => NumbersInv
<1> SUFFICES ASSUME Init PROVE NumbersInv
  OBVIOUS
<1>1. TypeOK
  BY TypeInit
<1> QED
  BY <1>1 DEF Init, NumbersInv, NumbersArriveWithRequest, StagedNumbersArrive,
              NumbersIn, Loaded, NothingStaged

\* A run that ends drops what it staged, requests and numbers.
LEMMA GiveUpNumbers ==
  ASSUME NumbersInv, NEW r \in Runs, GiveUp(r)
  PROVE  StagedNumbersArrive'
<1> SUFFICES ASSUME NEW q \in Runs, NEW o \in Orders
             PROVE  /\ NumbersIn(stagedNums'[q] \cup pending'[q], o,
                                 staged'[q][o] # NoRow)
                    /\ pc'[q] # "orders" => pending'[q] = {}
  BY OrdersAssumption DEF StagedNumbersArrive, NumbersIn, GiveUp, NumbersInv, TypeOK
<1>1. CASE q = r
  <2>1. staged'[r] = NothingStaged /\ stagedNums'[r] = {} /\ pending'[r] = {}
    BY DEF GiveUp, NumbersInv, TypeOK
  <2>2. staged'[q][o] = NoRow
    BY <1>1, <2>1 DEF NothingStaged
  <2> QED BY <1>1, <2>1, <2>2 DEF NumbersIn
<1>2. CASE q # r
  BY <1>2 DEF GiveUp, NumbersInv, TypeOK, StagedNumbersArrive
<1> QED BY <1>1, <1>2

LEMMA NumbersStep == NumbersInv /\ [Next]_vars => NumbersInv'
<1> SUFFICES ASSUME NumbersInv, [Next]_vars PROVE NumbersInv'
  OBVIOUS
<1> USE DEF NumbersInv
<1>1. TypeOK'
  BY TypeStep
<1>2. ASSUME UNCHANGED <<mart, nums>> PROVE NumbersArriveWithRequest'
  BY <1>2 DEF NumbersArriveWithRequest, Loaded
<1>3. ASSUME UNCHANGED <<staged, stagedNums, pending>>,
             \A r \in Runs : pc'[r] # "orders" => pending[r] = {}
      PROVE  StagedNumbersArrive'
  BY <1>3 DEF StagedNumbersArrive, NumbersIn
<1>4. CASE \/ UNCHANGED vars \/ SourceStep
           \/ \E r \in Runs :
                \/ Start(r) \/ LoadCancelStatuses(r) \/ QueryOrders(r)
                \/ \E x \in rows[r] : SkipOrder(r, x)
                \/ QueryHistory(r)
                \/ \E x \in logRows[r] : SkipHistory(r, x)
  <2>1. UNCHANGED <<mart, nums, staged, stagedNums, pending>>
    BY <1>4 DEF vars, SourceStep, Start, LoadCancelStatuses, QueryOrders,
                SkipOrder, QueryHistory, SkipHistory, martVars, txVars, runVars
  <2>2. \/ UNCHANGED pc
        \/ \E r \in Runs :
             /\ \A q \in Runs \ {r} : pc'[q] = pc[q]
             /\ pc[r] # "orders" \/ pending[r] = {}
    BY <1>4 DEF vars, SourceStep, Start, LoadCancelStatuses, QueryOrders,
                SkipOrder, QueryHistory, OrdersDone, SkipHistory, runVars, TypeOK
  <2>3. \A r \in Runs : pc'[r] # "orders" => pending[r] = {}
    BY <2>2 DEF StagedNumbersArrive
  <2> QED BY <1>1, <1>2, <1>3, <2>1, <2>3
<1>5. ASSUME NEW r \in Runs, NEW x \in logRows[r], InsertRequestHistory(r, x)
      PROVE  NumbersInv'
  <2>1. UNCHANGED <<mart, nums, staged, stagedNums, pending, pc>>
    BY <1>5 DEF InsertRequestHistory, martVars
  <2> QED BY <1>1, <1>2, <1>3, <2>1 DEF StagedNumbersArrive
<1>6. ASSUME NEW r \in Runs, NEW x \in rows[r], UpsertRequest(r, x)
      PROVE  NumbersInv'
  <2>1. x.order \in Orders /\ x.date \in Dates /\ x.state \in States
    BY <1>6 DEF UpsertRequest, Poisonous, TypeOK, OrderResultRow
  <2>2. RequestRow(r, x) # NoRow
    <3>1. RequestRow(r, x) \in MartRow
      BY <2>1, StatusType DEF RequestRow, MartRow
    <3> QED BY <3>1, JobAssumption
  <2>3. /\ UNCHANGED <<mart, nums, stagedNums, pc>>
        /\ staged' = [staged EXCEPT ![r][x.order] = RequestRow(r, x)]
        /\ pending' = [pending EXCEPT ![r] = NumberRows(x.order)]
        /\ pc[r] = "orders" /\ pending[r] = {}
    BY <1>6 DEF UpsertRequest, AtRow, martVars
  <2>4. StagedNumbersArrive'
    <3> SUFFICES ASSUME NEW q \in Runs
                 PROVE  /\ \A o \in Orders :
                             NumbersIn(stagedNums'[q] \cup pending'[q], o,
                                       staged'[q][o] # NoRow)
                        /\ pc'[q] # "orders" => pending'[q] = {}
      BY DEF StagedNumbersArrive, NumbersIn
    <3>1. CASE q = r
      <4>1. /\ stagedNums'[q] = stagedNums[q] /\ pending[q] = {}
            /\ pending'[q] = NumberRows(x.order) /\ pc'[q] = "orders"
        BY <2>3, <3>1 DEF TypeOK
      <4>2. ASSUME NEW o \in Orders
            PROVE  NumbersIn(stagedNums'[q] \cup pending'[q], o,
                             staged'[q][o] # NoRow)
        <5>1. NumbersIn(stagedNums[q], o, staged[q][o] # NoRow)
          BY <4>1 DEF StagedNumbersArrive
        <5>2. CASE o = x.order
          <6>1. staged'[q][o] # NoRow
            BY <2>1, <2>2, <2>3, <3>1, <5>2 DEF TypeOK
          <6>2. Numbers[o] \ {""} \subseteq Msisdns
            BY DEF Msisdns
          <6>3. \A n \in Msisdns :
                  <<o, n>> \in stagedNums'[q] \cup pending'[q]
                    <=> n \in Numbers[o] \ {""}
            BY <4>1, <5>1, <5>2 DEF NumbersIn, NumberRows
          <6> QED BY <6>1, <6>2, <6>3 DEF NumbersIn
        <5>3. CASE o # x.order
          <6>1. staged'[q][o] = staged[q][o]
            BY <2>1, <2>3, <3>1, <5>3 DEF TypeOK
          <6>2. \A n \in Msisdns :
                  <<o, n>> \in stagedNums'[q] \cup pending'[q]
                    <=> <<o, n>> \in stagedNums[q]
            BY <4>1, <5>3 DEF NumberRows
          <6> QED BY <5>1, <6>1, <6>2 DEF NumbersIn
        <5> QED BY <5>2, <5>3
      <4> QED BY <4>1, <4>2
    <3>2. CASE q # r
      <4>1. /\ stagedNums'[q] = stagedNums[q] /\ pending'[q] = pending[q]
            /\ pc'[q] = pc[q] /\ staged'[q] = staged[q]
        BY <2>3, <3>2 DEF TypeOK
      <4> QED BY <4>1 DEF StagedNumbersArrive
    <3> QED BY <3>1, <3>2
  <2> QED BY <1>1, <1>2, <2>3, <2>4
<1>7. ASSUME NEW r \in Runs,
             \/ \E x \in rows[r] : FailOnOrder(r, x)
             \/ \E x \in logRows[r] : FailOnHistory(r, x)
             \/ FailOnHistoryQuery(r) \/ Deadlocked(r) \/ BreakOff(r)
      PROVE  NumbersInv'
  <2>1. GiveUp(r) /\ UNCHANGED <<mart, nums>>
    BY <1>7 DEF FailOnOrder, FailOnHistory, FailOnHistoryQuery, Deadlocked,
                BreakOff, martVars
  <2> QED BY <1>1, <1>2, <2>1, GiveUpNumbers
<1>8. ASSUME NEW r \in Runs, Commit(r) PROVE NumbersInv'
  <2>1. /\ GiveUp(r) /\ nums' = nums \cup stagedNums[r]
        /\ pending[r] = {}
    BY <1>8 DEF Commit, StagedNumbersArrive
  <2>2. NumbersArriveWithRequest'
    <3> SUFFICES ASSUME NEW o \in Orders
                 PROVE  NumbersIn(nums', o, mart'[o] # NoRow)
      BY DEF NumbersArriveWithRequest, NumbersIn, Loaded
    <3>1. /\ NumbersIn(nums, o, mart[o] # NoRow)
          /\ NumbersIn(stagedNums[r], o, staged[r][o] # NoRow)
      BY <2>1 DEF NumbersArriveWithRequest, StagedNumbersArrive, NumbersIn, Loaded
    <3>2. mart'[o] # NoRow <=> mart[o] # NoRow \/ staged[r][o] # NoRow
      BY <1>8, CommitRow
    <3>3. {n \in Msisdns : <<o, n>> \in nums'} =
            {n \in Msisdns : <<o, n>> \in nums}
              \cup {n \in Msisdns : <<o, n>> \in stagedNums[r]}
      BY <2>1
    <3> QED BY <3>1, <3>2, <3>3 DEF NumbersIn
  <2> QED BY <1>1, <2>1, <2>2, GiveUpNumbers
<1>9. ASSUME NEW r \in Runs, NEW n \in pending[r], UpsertReqNumber(r, n)
      PROVE  NumbersInv'
  <2>1. /\ UNCHANGED <<mart, nums, staged, pc>>
        /\ pending' = [pending EXCEPT ![r] = @ \ {n}]
        /\ stagedNums' = [stagedNums EXCEPT ![r] = @ \cup {n}]
    BY <1>9 DEF UpsertReqNumber, martVars
  <2>2. ASSUME NEW q \in Runs
        PROVE  /\ stagedNums'[q] \cup pending'[q] = stagedNums[q] \cup pending[q]
               /\ pending'[q] \subseteq pending[q]
    BY <2>1 DEF TypeOK
  <2>3. StagedNumbersArrive'
    BY <2>1, <2>2 DEF StagedNumbersArrive, NumbersIn
  <2> QED BY <1>1, <1>2, <2>1, <2>3
<1> QED BY <1>4, <1>5, <1>6, <1>7, <1>8, <1>9 DEF Next, Proceed

\* A committed request has all its numbers and a number its request, however
\* runs overlap, fail and are broken off (job.go:146-163).
THEOREM NumbersArrive == Spec => []NumbersArriveWithRequest
<1>1. NumbersInv => NumbersArriveWithRequest
  BY DEF NumbersInv
<1> QED BY <1>1, NumbersInit, NumbersStep, PTL DEF Spec

-----------------------------------------------------------------------------
\* Rows and versions.

\* A version an order has had it has had for good.
LEMMA VersionsStay ==
  ASSUME SrcTypeOK, SrcNext, NEW o \in Orders
  PROVE  /\ Versions(o) \subseteq Versions(o)'
         /\ cancelled[o] # NoDate => cancelled'[o] # NoDate
<1> USE DEF SrcTypeOK
<1> PICK p \in Orders, d \in Dates :
      \/ CreateOrder(p, d)
      \/ \E s \in States : PatchOrder(p, d, s)
      \/ CancelOrder(p, d)
  BY DEF SrcNext
<1>1. CASE CreateOrder(p, d)
  <2>1. UNCHANGED <<log, cancelled>>
    BY <1>1 DEF CreateOrder
  <2>2. o \in Present => o # p /\ o \in Present' /\ orders'[o] = orders[o]
    BY <1>1 DEF CreateOrder, Present
  <2> QED BY <2>1, <2>2 DEF Versions
<1>2. ASSUME NEW s \in States, PatchOrder(p, d, s)
      PROVE  /\ Versions(o) \subseteq Versions(o)'
             /\ cancelled'[o] = cancelled[o]
  <2>1. /\ log' = log \cup {[order |-> p, state |-> orders[p].state,
                             version |-> Since(orders[p])]}
        /\ orders' = [orders EXCEPT ![p].state = s, ![p].changed = d]
        /\ p \in Present /\ UNCHANGED cancelled
    BY <1>2 DEF PatchOrder
  <2>2. CASE o = p
    <3>1. \A v \in Versions(o) :
            \/ \E l \in log : l.order = o /\ v = [from |-> l.version, state |-> l.state]
            \/ v = [from |-> Since(orders[o]), state |-> orders[o].state]
      BY DEF Versions
    <3>2. \A l \in log' : l.order = o =>
            [from |-> l.version, state |-> l.state] \in Versions(o)'
      BY DEF Versions
    <3>3. [from |-> Since(orders[o]), state |-> orders[o].state] \in Versions(o)'
      <4> DEFINE l == [order |-> p, state |-> orders[p].state,
                       version |-> Since(orders[p])]
      <4>1. l \in log' /\ l.order = o
        BY <2>1, <2>2
      <4> QED BY <2>2, <3>2, <4>1
    <3> QED BY <2>1, <3>1, <3>2, <3>3
  <2>3. CASE o # p
    <3>1. orders'[o] = orders[o] /\ (o \in Present => o \in Present')
      BY <2>1, <2>3 DEF Present
    <3>2. \A l \in log : l \in log'
      BY <2>1
    <3> QED BY <2>1, <3>1, <3>2 DEF Versions
  <2> QED BY <2>1, <2>2, <2>3
<1>3. CASE CancelOrder(p, d)
  <2>1. UNCHANGED <<orders, log>> /\ cancelled' = [cancelled EXCEPT ![p] = d]
    BY <1>3 DEF CancelOrder
  <2> QED BY <2>1, OrdersAssumption DEF Versions, Present, Dates
<1> QED BY <1>1, <1>2, <1>3

LEMMA RowsInit == Init => SourcedInv
<1> SUFFICES ASSUME Init PROVE SourcedInv
  OBVIOUS
<1>1. TypeOK
  BY TypeInit
<1> QED
  BY <1>1 DEF Init, SourcedInv, RowsComeFromSource, StagedComeFromSource,
              ReadComesFromSource, Loaded, NothingStaged

\* A run that ends holds no rows any more.
LEMMA GiveUpRows ==
  ASSUME SourcedInv, NEW r \in Runs, GiveUp(r), UNCHANGED srcVars
  PROVE  StagedComeFromSource' /\ ReadComesFromSource'
<1> USE DEF SourcedInv
<1>1. /\ staged'[r] = NothingStaged /\ rows'[r] = {} /\ cancelMap'[r] = {}
      /\ \A q \in Runs \ {r} : /\ staged'[q] = staged[q] /\ rows'[q] = rows[q]
                               /\ cancelMap'[q] = cancelMap[q]
  BY DEF GiveUp, TypeOK
<1>2. \A o \in Orders : staged'[r][o] = NoRow
  BY <1>1 DEF NothingStaged
<1>3. StagedComeFromSource'
  BY <1>1, <1>2 DEF StagedComeFromSource, MadeFrom, Versions, Present, srcVars
<1>4. ReadComesFromSource'
  BY <1>1 DEF ReadComesFromSource, Versions, Present, srcVars
<1> QED BY <1>3, <1>4

LEMMA RowsStep == SourcedInv /\ [Next]_vars => SourcedInv'
<1> SUFFICES ASSUME SourcedInv, [Next]_vars PROVE SourcedInv'
  OBVIOUS
<1> USE DEF SourcedInv
<1>1. TypeOK'
  BY TypeStep
<1>2. ASSUME UNCHANGED <<srcVars, mart>> PROVE RowsComeFromSource'
  BY <1>2 DEF RowsComeFromSource, Loaded, Versions, Present, srcVars
<1>3. ASSUME UNCHANGED <<srcVars, staged>> PROVE StagedComeFromSource'
  BY <1>3 DEF StagedComeFromSource, MadeFrom, Versions, Present, srcVars
<1>4. ASSUME UNCHANGED srcVars,
             \A q \in Runs : rows'[q] \subseteq rows[q] /\ cancelMap'[q] = cancelMap[q]
      PROVE  ReadComesFromSource'
  BY <1>4 DEF ReadComesFromSource, Versions, Present, srcVars
<1>5. CASE \/ UNCHANGED vars
           \/ \E r \in Runs :
                \/ Start(r) \/ QueryHistory(r)
                \/ \E x \in rows[r] : SkipOrder(r, x)
                \/ \E n \in pending[r] : UpsertReqNumber(r, n)
                \/ \E x \in logRows[r] : InsertRequestHistory(r, x) \/ SkipHistory(r, x)
  <2>1. UNCHANGED <<srcVars, mart, staged>>
    BY <1>5 DEF vars, Start, QueryHistory, SkipOrder, UpsertReqNumber, InsertRequestHistory,
                SkipHistory, martVars, txVars
  <2>2. UNCHANGED cancelMap
    BY <1>5 DEF vars, Start, QueryHistory, SkipOrder, UpsertReqNumber, InsertRequestHistory,
                SkipHistory, runVars
  <2>3. \/ UNCHANGED rows
        \/ \E r \in Runs : \E x \in rows[r] : rows' = [rows EXCEPT ![r] = @ \ {x}]
    BY <1>5 DEF vars, Start, QueryHistory, SkipOrder, UpsertReqNumber, InsertRequestHistory,
                SkipHistory, runVars
  <2>4. \A q \in Runs : rows'[q] \subseteq rows[q]
    BY <2>3 DEF TypeOK
  <2> QED BY <1>1, <1>2, <1>3, <1>4, <2>1, <2>2, <2>4
<1>6. CASE SourceStep
  <2>1. /\ SrcNext /\ SrcTypeOK
        /\ UNCHANGED <<mart, staged, rows, cancelMap>>
    BY <1>6 DEF SourceStep, TypeOK, martVars, txVars, runVars
  <2>2. \A o \in Orders : /\ Versions(o) \subseteq Versions(o)'
                          /\ cancelled[o] # NoDate => cancelled'[o] # NoDate
    BY <2>1, VersionsStay
  <2>3. RowsComeFromSource'
    <3> SUFFICES ASSUME NEW o \in Orders, mart[o] # NoRow
                 PROVE  \E v \in Versions(o)' :
                          /\ mart[o].from = v.from
                          /\ \/ mart[o].status = MapStatus(v.state)
                             \/ /\ mart[o].status = CancelledStatus
                                /\ cancelled'[o] # NoDate
      BY <2>1 DEF RowsComeFromSource, Loaded
    <3> QED BY <2>2 DEF RowsComeFromSource, Loaded
  <2>4. StagedComeFromSource'
    <3> SUFFICES ASSUME NEW r \in Runs, NEW o \in Orders, staged[r][o] # NoRow
                 PROVE  \E v \in Versions(o)' :
                          /\ staged[r][o].from = v.from
                          /\ \/ staged[r][o].status = MapStatus(v.state)
                             \/ /\ staged[r][o].status = CancelledStatus
                                /\ cancelled'[o] # NoDate
      BY <2>1 DEF StagedComeFromSource, MadeFrom
    <3> QED BY <2>2 DEF StagedComeFromSource, MadeFrom
  <2>5. ReadComesFromSource'
    <3>1. \A r \in Runs : /\ cancelMap[r] \subseteq Orders
                          /\ \A x \in rows[r] : x.order \in Orders
      BY DEF TypeOK, OrderResultRow
    <3> QED BY <2>1, <2>2, <3>1 DEF ReadComesFromSource
  <2> QED BY <1>1, <2>3, <2>4, <2>5
<1>7. ASSUME NEW r \in Runs, LoadCancelStatuses(r) PROVE SourcedInv'
  <2>1. /\ UNCHANGED <<srcVars, mart, staged, rows>>
        /\ \A q \in Runs : \/ cancelMap'[q] = cancelMap[q]
                           \/ \A o \in cancelMap'[q] : cancelled[o] # NoDate
    BY <1>7 DEF LoadCancelStatuses, martVars, txVars, TypeOK
  <2>2. ReadComesFromSource'
    BY <2>1 DEF ReadComesFromSource, Versions, Present, srcVars
  <2> QED BY <1>1, <1>2, <1>3, <2>1, <2>2
<1>8. ASSUME NEW r \in Runs, QueryOrders(r) PROVE SourcedInv'
  <2>1. /\ UNCHANGED <<srcVars, mart, staged, cancelMap>>
        /\ rows'[r] = OrdersResult(depth[r])
        /\ \A q \in Runs \ {r} : rows'[q] = rows[q]
    BY <1>8 DEF QueryOrders, martVars, txVars, TypeOK
  <2>2. ASSUME NEW x \in OrdersResult(depth[r]), x.date # NoDate
        PROVE  [from |-> x.date, state |-> x.state] \in Versions(x.order)
    <3>1. /\ x.order \in Present
          /\ x = [order |-> x.order, date |-> orders[x.order].changed,
                  state |-> orders[x.order].state]
      BY OrdersRow
    <3>2. x.date = orders[x.order].changed /\ x.state = orders[x.order].state
      BY <3>1
    <3>3. Since(orders[x.order]) = x.date
      BY <2>2, <3>2 DEF Since
    <3> QED BY <3>1, <3>2, <3>3 DEF Versions
  <2>3. \A o : Versions(o)' = Versions(o)
    BY <2>1 DEF Versions, Present, srcVars
  <2>4. ReadComesFromSource'
    <3> SUFFICES ASSUME NEW q \in Runs
                 PROVE  /\ \A x \in rows'[q] : x.date # NoDate =>
                             [from |-> x.date, state |-> x.state] \in Versions(x.order)
                        /\ \A o \in cancelMap[q] : cancelled[o] # NoDate
      BY <2>1, <2>3 DEF ReadComesFromSource, srcVars
    <3>1. CASE q = r
      BY <2>1, <2>2, <3>1 DEF ReadComesFromSource
    <3>2. CASE q # r
      BY <2>1, <3>2 DEF ReadComesFromSource
    <3> QED BY <3>1, <3>2
  <2> QED BY <1>1, <1>2, <1>3, <2>1, <2>4
<1>9. ASSUME NEW r \in Runs, NEW x \in rows[r], UpsertRequest(r, x)
      PROVE  SourcedInv'
  <2>1. /\ UNCHANGED <<srcVars, mart, cancelMap>> /\ x.date # NoDate
        /\ staged' = [staged EXCEPT ![r][x.order] = RequestRow(r, x)]
        /\ \A q \in Runs : rows'[q] \subseteq rows[q]
    BY <1>9 DEF UpsertRequest, Poisonous, martVars, TypeOK
  <2>2. MadeFrom(x.order, RequestRow(r, x))
    <3> DEFINE v == [from |-> x.date, state |-> x.state]
    <3>1. v \in Versions(x.order)
      BY <2>1 DEF ReadComesFromSource
    <3>2. RequestRow(r, x).from = v.from
      BY DEF RequestRow
    <3>3. CASE x.order \in cancelMap[r]
      <4>1. RequestRow(r, x).status = CancelledStatus /\ cancelled[x.order] # NoDate
        BY <3>3 DEF RequestRow, StatusOf, ReadComesFromSource
      <4> QED BY <3>1, <3>2, <4>1 DEF MadeFrom
    <3>4. CASE x.order \notin cancelMap[r]
      <4>1. RequestRow(r, x).status = MapStatus(v.state)
        BY <3>4 DEF RequestRow, StatusOf
      <4> QED BY <3>1, <3>2, <4>1 DEF MadeFrom
    <3> QED BY <3>3, <3>4
  <2>3. StagedComeFromSource'
    <3> SUFFICES ASSUME NEW q \in Runs, NEW o \in Orders, staged'[q][o] # NoRow
                 PROVE  MadeFrom(o, staged'[q][o])
      BY <2>1 DEF StagedComeFromSource, MadeFrom, Versions, Present, srcVars
    <3>1. CASE q = r /\ o = x.order
      <4>1. staged'[q][o] = RequestRow(r, x)
        BY <2>1, <3>1 DEF TypeOK
      <4> QED BY <2>2, <3>1, <4>1
    <3>2. CASE ~(q = r /\ o = x.order)
      <4>1. staged'[q][o] = staged[q][o]
        BY <2>1, <3>2 DEF TypeOK
      <4> QED BY <4>1 DEF StagedComeFromSource
    <3> QED BY <3>1, <3>2
  <2> QED BY <1>1, <1>2, <1>4, <2>1, <2>3
<1>10. ASSUME NEW r \in Runs,
              \/ \E x \in rows[r] : FailOnOrder(r, x)
              \/ \E x \in logRows[r] : FailOnHistory(r, x)
              \/ FailOnHistoryQuery(r) \/ Deadlocked(r) \/ BreakOff(r)
       PROVE  SourcedInv'
  <2>1. GiveUp(r) /\ UNCHANGED <<srcVars, mart>>
    BY <1>10 DEF FailOnOrder, FailOnHistory, FailOnHistoryQuery, Deadlocked,
                 BreakOff, martVars
  <2> QED BY <1>1, <1>2, <2>1, GiveUpRows
<1>11. ASSUME NEW r \in Runs, Commit(r) PROVE SourcedInv'
  <2>1. GiveUp(r) /\ UNCHANGED srcVars
    BY <1>11 DEF Commit
  <2>2. RowsComeFromSource'
    <3> SUFFICES ASSUME NEW o \in Orders, mart'[o] # NoRow
                 PROVE  MadeFrom(o, mart'[o])
      BY <2>1 DEF RowsComeFromSource, MadeFrom, Loaded, Versions, Present, srcVars
    <3>1. CASE staged[r][o] # NoRow
      BY <1>11, <3>1, CommitRow DEF StagedComeFromSource
    <3>2. CASE staged[r][o] = NoRow
      BY <1>11, <3>2, CommitRow DEF RowsComeFromSource, MadeFrom, Loaded
    <3> QED BY <3>1, <3>2
  <2> QED BY <1>1, <2>1, <2>2, GiveUpRows
<1> QED
  BY <1>5, <1>6, <1>7, <1>8, <1>9, <1>10, <1>11 DEF Next, Proceed

\* A row of mnp_request is one version of its order with that version's status,
\* or 11 for an order with a cancellation, although orders change and other
\* runs commit between the query and the commit (job.go:126-145).
THEOREM RowsAreVersions == Spec => []RowsComeFromSource
<1>1. SourcedInv => RowsComeFromSource
  BY DEF SourcedInv
<1> QED BY <1>1, RowsInit, RowsStep, PTL DEF Spec

-----------------------------------------------------------------------------
\* The intervals of the history.

\* A version that was replaced stays replaced at the same date: what replaces
\* the current version later is newer still.
LEMMA IntervalsStay ==
  ASSUME SrcTypeOK, SourceInv, SrcNext, NEW l \in log, NEW date \in Int,
         Replaced(l, date)
  PROVE  l \in log' /\ Replaced(l, date)'
<1> USE OrdersAssumption DEF SrcTypeOK, Dates
<1> DEFINE Newer == {m \in log : m.order = l.order /\ m.version > l.version}
<1>1. LaterVersions(l) = {k.version : k \in Newer}
  BY DEF LaterVersions
<1> PICK p \in Orders, d \in Dates :
      \/ CreateOrder(p, d)
      \/ \E s \in States : PatchOrder(p, d, s)
      \/ CancelOrder(p, d)
  BY DEF SrcNext
<1>2. l.order \in Present /\ l.order \in Orders
  BY DEF SourceInv, Present
<1>3. CASE CreateOrder(p, d) \/ CancelOrder(p, d)
  <2>1. log' = log /\ orders'[l.order] = orders[l.order]
    BY <1>2, <1>3 DEF CreateOrder, CancelOrder, Present
  <2> QED BY <2>1 DEF Replaced, LaterVersions
<1>4. ASSUME NEW s \in States, PatchOrder(p, d, s)
      PROVE  l \in log' /\ Replaced(l, date)'
  <2> DEFINE k == [order |-> p, state |-> orders[p].state,
                   version |-> Since(orders[p])]
  <2>1. /\ log' = log \cup {k} /\ p \in Present
        /\ orders' = [orders EXCEPT ![p].state = s, ![p].changed = d]
    BY <1>4 DEF PatchOrder
  <2>2. k.order = p /\ k.version = Since(orders[p])
    OBVIOUS
  <2> HIDE DEF k
  <2>3. CASE l.order # p
    <3>1. orders'[l.order] = orders[l.order]
      BY <1>2, <2>1, <2>3
    <3>2. LaterVersions(l)' = LaterVersions(l)
      BY <2>1, <2>2, <2>3 DEF LaterVersions
    <3>3. CASE LaterVersions(l) = {}
      BY <2>1, <3>1, <3>2, <3>3 DEF Replaced
    <3>4. CASE LaterVersions(l) # {}
      BY <2>1, <3>2, <3>4 DEF Replaced
    <3> QED BY <3>3, <3>4
  <2>4. CASE l.order = p
    <3>1. /\ orders[p].changed # NoDate /\ l.version < orders[p].changed
          /\ k.version = orders[p].changed /\ orders[p].changed \in Dates
      BY <1>2, <2>2, <2>4 DEF SourceInv, Since, OrderRow, Present
    <3>2. LaterVersions(l)' = LaterVersions(l) \cup {k.version}
      <4>1. k.version > l.version
        BY <3>1 DEF LogRow
      <4> QED BY <2>1, <2>2, <2>4, <4>1 DEF LaterVersions
    <3>3. \A v \in LaterVersions(l) : v < k.version /\ v \in Int
      BY <2>4, <3>1 DEF LaterVersions, SourceInv, LogRow
    <3>4. CASE LaterVersions(l) = {}
      BY <2>1, <2>4, <3>1, <3>2, <3>4 DEF Replaced
    <3>5. CASE LaterVersions(l) # {}
      BY <2>1, <3>1, <3>2, <3>3, <3>5 DEF Replaced
    <3> QED BY <3>4, <3>5
  <2> QED BY <2>3, <2>4
<1> QED BY <1>3, <1>4

\* The rows processOrderHistory reads carry intervals of the source.
LEMMA HistoryResultIntervals ==
  ASSUME SrcTypeOK, NEW d, NEW x \in HistoryResult(d)
  PROVE  Interval(x.order, x.date, x.to)
<1> DEFINE Row(p) == [order |-> p[1].order, date |-> p[1].version,
                      state |-> p[1].state, to |-> p[2] - 1]
           Picked == {q \in log \X Dates :
                        After(q[1].version, d) /\ Replaced(q[1], q[2])}
<1>1. x \in {Row(p) : p \in Picked}
  BY BatchSubset DEF HistoryResult
<1>2. PICK p \in Picked : x = Row(p)
  BY <1>1
<1>3. p[1] \in log /\ p[2] \in Dates /\ Replaced(p[1], p[2])
  OBVIOUS
<1>4. /\ x.order = p[1].order /\ x.date = p[1].version /\ x.to = p[2] - 1
  BY <1>2
<1>5. x.to + 1 = p[2]
  BY <1>3, <1>4, OrdersAssumption DEF Dates
<1> QED BY <1>3, <1>4, <1>5 DEF Interval

LEMMA HistoryInit == Init => HistoryInv
<1> SUFFICES ASSUME Init PROVE HistoryInv
  OBVIOUS
<1>1. TypeOK
  BY TypeInit
<1>2. SourceInv
  BY DEF Init, SrcInit, SourceInv, Present
<1> QED
  BY <1>1, <1>2 DEF Init, HistoryInv, HistoryIntervalsExact, StagedIntervals

\* An upsert keeps a row or puts one with the same key in its place.
LEMMA MergeRows == \A S, T : Merge(S, T) \subseteq S \cup T
BY DEF Merge

LEMMA HistoryStep == HistoryInv /\ [Next]_vars => HistoryInv'
<1> SUFFICES ASSUME HistoryInv, [Next]_vars PROVE HistoryInv'
  OBVIOUS
<1> USE DEF HistoryInv
<1>1. TypeOK'
  BY TypeStep
<1>2. ASSUME UNCHANGED srcVars
      PROVE  /\ SourceInv'
             /\ \A o, from, to : Interval(o, from, to)' <=> Interval(o, from, to)
  BY <1>2 DEF SourceInv, Present, Interval, Replaced, LaterVersions, srcVars
\* A step of run r: what it holds afterwards it held before or has read now.
<1>3. ASSUME NEW r \in Runs, UNCHANGED srcVars,
             \A h \in hist' : Interval(h.order, h.from, h.to),
             \A q \in Runs \ {r} : /\ stagedHist'[q] = stagedHist[q]
                                   /\ logRows'[q] = logRows[q],
             \A h \in stagedHist'[r] : Interval(h.order, h.from, h.to),
             \A x \in logRows'[r] : Interval(x.order, x.date, x.to)
      PROVE  HistoryInv'
  <2>1. HistoryIntervalsExact'
    <3>1. \A h \in hist' : Interval(h.order, h.from, h.to)'
      BY <1>2, <1>3
    <3> QED BY <3>1 DEF HistoryIntervalsExact, Interval
  <2>2. StagedIntervals'
    <3> SUFFICES ASSUME NEW q \in Runs
                 PROVE  /\ \A h \in stagedHist'[q] : Interval(h.order, h.from, h.to)
                        /\ \A x \in logRows'[q] : Interval(x.order, x.date, x.to)
      BY <1>2, <1>3 DEF StagedIntervals
    <3>1. CASE q = r
      BY <1>3, <3>1
    <3>2. CASE q # r
      BY <1>3, <3>2 DEF StagedIntervals
    <3> QED BY <3>1, <3>2
  <2> QED BY <1>1, <1>2, <1>3, <2>1, <2>2
<1>4. /\ \A h \in hist : Interval(h.order, h.from, h.to)
      /\ \A r \in Runs : /\ \A h \in stagedHist[r] : Interval(h.order, h.from, h.to)
                        /\ \A x \in logRows[r] : Interval(x.order, x.date, x.to)
  BY DEF HistoryIntervalsExact, StagedIntervals, Interval
<1>5. CASE UNCHANGED vars
  <2>1. UNCHANGED <<srcVars, hist, stagedHist, logRows>>
    BY <1>5 DEF vars, martVars, txVars, runVars
  <2>2. /\ \A h \in hist' : Interval(h.order, h.from, h.to)'
        /\ StagedIntervals'
    BY <1>2, <1>4, <2>1 DEF StagedIntervals
  <2>3. HistoryIntervalsExact'
    BY <2>2 DEF HistoryIntervalsExact, Interval
  <2> QED BY <1>1, <1>2, <2>1, <2>2, <2>3
<1>6. CASE SourceStep
  <2>1. /\ SrcNext /\ SrcTypeOK /\ SrcTypeOK'
        /\ UNCHANGED <<hist, stagedHist, logRows>>
    BY <1>1, <1>6 DEF SourceStep, martVars, txVars, runVars, TypeOK
  <2>2. SourceInv'
    BY <2>1, SourceInvStep
  <2>3. ASSUME NEW o, NEW from, NEW to \in Int, Interval(o, from, to)
        PROVE  Interval(o, from, to)'
    <3>1. PICK l \in log : l.order = o /\ l.version = from /\ Replaced(l, to + 1)
      BY <2>3 DEF Interval
    <3>2. l \in log' /\ Replaced(l, to + 1)'
      BY <2>1, <3>1, IntervalsStay
    <3> QED BY <3>1, <3>2 DEF Interval
  <2>4. /\ \A h \in hist : h.to \in Int
        /\ \A r \in Runs : /\ \A h \in stagedHist[r] : h.to \in Int
                          /\ \A x \in logRows[r] : x.to \in Int
    BY DEF TypeOK, HistRow, LogResultRow
  <2>5. HistoryIntervalsExact'
    <3>1. \A h \in hist' : Interval(h.order, h.from, h.to)'
      BY <1>4, <2>1, <2>3, <2>4
    <3> QED BY <3>1 DEF HistoryIntervalsExact, Interval
  <2>6. StagedIntervals'
    BY <1>4, <2>1, <2>3, <2>4 DEF StagedIntervals
  <2> QED BY <1>1, <2>2, <2>5, <2>6
<1>7. ASSUME NEW r \in Runs,
             \/ Start(r) \/ LoadCancelStatuses(r) \/ QueryOrders(r)
             \/ \E x \in rows[r] : UpsertRequest(r, x) \/ SkipOrder(r, x)
             \/ \E n \in pending[r] : UpsertReqNumber(r, n)
      PROVE  HistoryInv'
  <2>1. UNCHANGED <<srcVars, hist, stagedHist, logRows>>
    BY <1>7 DEF Start, LoadCancelStatuses, QueryOrders, UpsertRequest, SkipOrder,
                UpsertReqNumber, martVars, txVars
  <2> QED BY <1>3, <1>4, <2>1
<1>8. ASSUME NEW r \in Runs, QueryHistory(r) PROVE HistoryInv'
  <2>1. /\ UNCHANGED <<srcVars, hist, stagedHist>>
        /\ logRows'[r] = HistoryResult(depth[r])
        /\ \A q \in Runs \ {r} : logRows'[q] = logRows[q]
    BY <1>8 DEF QueryHistory, martVars, txVars, TypeOK
  <2>2. \A x \in logRows'[r] : Interval(x.order, x.date, x.to)
    BY <2>1, HistoryResultIntervals DEF TypeOK
  <2> QED BY <1>3, <1>4, <2>1, <2>2
<1>9. ASSUME NEW r \in Runs, NEW x \in logRows[r], SkipHistory(r, x)
      PROVE  HistoryInv'
  <2>1. /\ UNCHANGED <<srcVars, hist, stagedHist>>
        /\ logRows'[r] \subseteq logRows[r]
        /\ \A q \in Runs \ {r} : logRows'[q] = logRows[q]
    BY <1>9 DEF SkipHistory, martVars, txVars, TypeOK
  <2> QED BY <1>3, <1>4, <2>1
<1>10. ASSUME NEW r \in Runs, NEW x \in logRows[r], InsertRequestHistory(r, x)
       PROVE  HistoryInv'
  <2>1. /\ UNCHANGED <<srcVars, hist>>
        /\ logRows'[r] \subseteq logRows[r]
        /\ \A q \in Runs \ {r} : /\ logRows'[q] = logRows[q]
                                /\ stagedHist'[q] = stagedHist[q]
        /\ stagedHist'[r] = Merge(stagedHist[r], {HistoryRow(r, x)})
    BY <1>10 DEF InsertRequestHistory, martVars, TypeOK
  <2>2. Interval(x.order, x.date, x.to)
    BY <1>4
  <2>3. /\ HistoryRow(r, x).order = x.order /\ HistoryRow(r, x).from = x.date
        /\ HistoryRow(r, x).to = x.to
    BY DEF HistoryRow
  <2>4. \A h \in stagedHist'[r] : Interval(h.order, h.from, h.to)
    BY <1>4, <2>1, <2>2, <2>3, MergeRows
  <2> QED BY <1>3, <1>4, <2>1, <2>4
<1>11. ASSUME NEW r \in Runs, GiveUp(r), UNCHANGED srcVars,
              \A h \in hist' : Interval(h.order, h.from, h.to)
       PROVE  HistoryInv'
  <2>1. /\ stagedHist'[r] = {} /\ logRows'[r] = {}
        /\ \A q \in Runs \ {r} : /\ logRows'[q] = logRows[q]
                                /\ stagedHist'[q] = stagedHist[q]
    BY <1>11 DEF GiveUp, TypeOK
  <2> QED BY <1>3, <1>11, <2>1
<1>12. ASSUME NEW r \in Runs,
              \/ \E x \in rows[r] : FailOnOrder(r, x)
              \/ \E x \in logRows[r] : FailOnHistory(r, x)
              \/ FailOnHistoryQuery(r) \/ Deadlocked(r) \/ BreakOff(r)
       PROVE  HistoryInv'
  <2>1. GiveUp(r) /\ UNCHANGED <<srcVars, hist>>
    BY <1>12 DEF FailOnOrder, FailOnHistory, FailOnHistoryQuery, Deadlocked,
                 BreakOff, martVars
  <2> QED BY <1>4, <1>11, <2>1
<1>13. ASSUME NEW r \in Runs, Commit(r) PROVE HistoryInv'
  <2>1. GiveUp(r) /\ UNCHANGED srcVars /\ hist' = Merge(hist, stagedHist[r])
    BY <1>13 DEF Commit
  <2>2. \A h \in hist' : Interval(h.order, h.from, h.to)
    BY <1>4, <2>1, MergeRows
  <2> QED BY <1>11, <2>1, <2>2
<1> QED
  BY <1>5, <1>6, <1>7, <1>8, <1>9, <1>10, <1>12, <1>13 DEF Next, Proceed

\* A row of mnp_request_h ends one second before the version that replaced it in
\* the source as it is now, however often the source changed since the row was
\* read and whichever runs overlapped (job.go:171-176).
THEOREM IntervalsExact == Spec => []HistoryIntervalsExact
<1>1. HistoryInv => HistoryIntervalsExact
  BY DEF HistoryInv
<1> QED BY <1>1, HistoryInit, HistoryStep, PTL DEF Spec

-----------------------------------------------------------------------------
\* A source without the columns of the history.

\* No run gets past its orders, and only a run that does commits.
NoHistoryInv ==
  /\ TypeOK /\ NothingWithoutHistory
  /\ ~(HistoryColumns \subseteq logColumns) => \A r \in Runs : pc[r] # "history"

LEMMA NoHistoryInit == Init => NoHistoryInv
  BY TypeInit DEF Init, NothingStaged, Loaded, NothingWithoutHistory, NoHistoryInv

\* Nothing alters orders_log.
LEMMA SchemaFixed == [Next]_vars => logColumns' = logColumns
<1>1. SrcNext => logColumns' = logColumns
  BY DEF SrcNext, CreateOrder, PatchOrder, CancelOrder
<1>2. ASSUME NEW r \in Runs, Start(r) \/ Proceed(r) \/ BreakOff(r)
      PROVE  UNCHANGED srcVars
  BY <1>2 DEF Start, Proceed, LoadCancelStatuses, QueryOrders, UpsertRequest,
              SkipOrder, FailOnOrder, UpsertReqNumber, QueryHistory,
              FailOnHistoryQuery, InsertRequestHistory, SkipHistory,
              FailOnHistory, Commit, Deadlocked, BreakOff
<1> QED BY <1>1, <1>2 DEF Next, SourceStep, vars, srcVars

LEMMA NoHistoryStep == NoHistoryInv /\ [Next]_vars => NoHistoryInv'
<1>1. SUFFICES ASSUME NoHistoryInv, Next, ~(HistoryColumns \subseteq logColumns),
                      TypeOK'
               PROVE  /\ UNCHANGED martVars
                      /\ \A r \in Runs : pc'[r] # "history"
  <2>1. NoHistoryInv /\ UNCHANGED vars => NoHistoryInv'
    BY TypeStep DEF NoHistoryInv, NothingWithoutHistory, Loaded, vars, srcVars,
                    martVars, runVars
  <2> QED
    BY <2>1, TypeStep, SchemaFixed
    DEF NoHistoryInv, NothingWithoutHistory, Loaded, martVars
<1>2. TypeOK /\ \A r \in Runs : pc[r] # "history"
  BY <1>1 DEF NoHistoryInv
<1>3. CASE SourceStep
  BY <1>2, <1>3 DEF SourceStep, runVars
<1>4. ASSUME NEW r \in Runs,
             \/ Start(r) \/ LoadCancelStatuses(r) \/ QueryOrders(r)
             \/ \E x \in rows[r] : UpsertRequest(r, x) \/ SkipOrder(r, x)
             \/ \E n \in pending[r] : UpsertReqNumber(r, n)
      PROVE  UNCHANGED martVars /\ \A q \in Runs : pc'[q] # "history"
  BY <1>2, <1>4 DEF Start, LoadCancelStatuses, QueryOrders, UpsertRequest,
                    SkipOrder, UpsertReqNumber, TypeOK
<1>5. ASSUME NEW r \in Runs,
             \/ \E x \in rows[r] : FailOnOrder(r, x)
             \/ FailOnHistoryQuery(r) \/ Deadlocked(r) \/ BreakOff(r)
      PROVE  UNCHANGED martVars /\ \A q \in Runs : pc'[q] # "history"
  BY <1>2, <1>5 DEF FailOnOrder, FailOnHistoryQuery, Deadlocked, BreakOff, GiveUp,
                    TypeOK
<1>6. ASSUME NEW r \in Runs,
             \/ QueryHistory(r) \/ Commit(r)
             \/ \E x \in logRows[r] : \/ InsertRequestHistory(r, x)
                                     \/ SkipHistory(r, x) \/ FailOnHistory(r, x)
      PROVE  FALSE
  BY <1>1, <1>2, <1>6 DEF QueryHistory, Commit, InsertRequestHistory, SkipHistory,
                          FailOnHistory
<1> QED BY <1>1, <1>3, <1>4, <1>5, <1>6 DEF Next, Proceed

\* Where orders_log lacks a column that the query of the history names, nothing
\* a run has written stays, whichever runs overlap and wherever they are broken
\* off (job.go:73-86, 182-185).
THEOREM NothingKept == Spec => []NothingWithoutHistory
<1>1. NoHistoryInv => NothingWithoutHistory
  BY DEF NoHistoryInv
<1> QED BY <1>1, NoHistoryInit, NoHistoryStep, PTL DEF Spec
=============================================================================
