------------------------- MODULE CdbMessageJobProofs -------------------------
(***************************************************************************)
(* What CdbMessageJob guarantees for any messages, dates, batch size and    *)
(* number of overlapping runs: no two runs wait for each other, and, when  *)
(* lateness, skew and the added second stay below the lookback, no message *)
(* is skipped.                                                             *)
(***************************************************************************)
EXTENDS CdbMessageJob, FiniteSetTheorems, TLAPS

\* The variables stay in their types.
TypeInv ==
  /\ messages \in [Messages -> MessageRow \cup {NoRow}]
  /\ newest \in 0..MaxDate
  /\ raw \in [Messages -> Times \cup {NoRow}]
  /\ pc \in [Runs -> {"idle", "query", "rows"}]
  /\ depth \in [Runs -> {NoDate} \cup Depths]
  /\ rows \in [Runs -> SUBSET Messages]
  /\ staged \in [Runs -> SUBSET Messages]

\* What a run holds was recorded, and it holds nothing before its query.
ReadInv ==
  \A r \in Runs :
    /\ rows[r] \cup staged[r] \subseteq Recorded
    /\ pc[r] # "rows" => rows[r] = {} /\ staged[r] = {}

\* What a run has written comes before what it has still to write.
InOrder ==
  \A r \in Runs : \A m \in staged[r], n \in rows[r] : Precedes(m, n)

OrderInv == TypeInv /\ ReadInv /\ InOrder

\* The dates of a recorded message; a row of the mart is a copy of one.
DatesInv ==
  /\ \A m \in Recorded :
       /\ messages[m].date =< newest
       /\ messages[m].time =< messages[m].date + MaxSkew
  /\ \A m \in Messages :
       raw[m] # NoRow => m \in Recorded /\ raw[m] = messages[m].time

\* The depth of a run was made of a row that the mart still has.
DepthInv ==
  \A r \in Runs :
    depth[r] # NoDate =>
      \E m \in Messages : raw[m] # NoRow /\ depth[r] = DepthBelow(raw[m])

\* What the commit of r will do for the message m.
Covered(r, m) ==
  \/ raw[m] # NoRow
  \/ m \in rows[r] \cup staged[r]
  \/ \A n \in rows[r] \cup staged[r] :
       messages[m].date > DepthBelow(messages[n].time)

CoverInv == \A r \in Runs : pc[r] = "rows" => \A m \in Recorded : Covered(r, m)

SkipInv == OrderInv /\ DatesInv /\ DepthInv /\ CoverInv /\ NoMessageSkipped

\* Lateness, skew and the added second stay below the lookback.
Timely == MaxLate + MaxSkew + 1 < Lookback

-----------------------------------------------------------------------------

LEMMA OrderInit == Init => OrderInv
<1> SUFFICES ASSUME Init PROVE OrderInv
  OBVIOUS
<1> QED
  BY CdbAssumption DEF Init, OrderInv, TypeInv, ReadInv, InOrder

\* Ending a run leaves the other runs as they are.
LEMMA GiveUpRun ==
  ASSUME TypeInv, NEW r \in Runs, GiveUp(r)
  PROVE  /\ pc'[r] = "idle" /\ depth'[r] = NoDate
         /\ rows'[r] = {} /\ staged'[r] = {}
         /\ \A q \in Runs \ {r} : /\ pc'[q] = pc[q] /\ depth'[q] = depth[q]
                                  /\ rows'[q] = rows[q] /\ staged'[q] = staged[q]
         /\ pc' \in [Runs -> {"idle", "query", "rows"}]
         /\ depth' \in [Runs -> {NoDate} \cup Depths]
         /\ rows' \in [Runs -> SUBSET Messages]
         /\ staged' \in [Runs -> SUBSET Messages]
BY DEF GiveUp, TypeInv

LEMMA GiveUpOrder ==
  ASSUME OrderInv, NEW r \in Runs, GiveUp(r), UNCHANGED <<messages, newest>>,
         raw' \in [Messages -> Times \cup {NoRow}]
  PROVE  OrderInv'
<1> USE DEF OrderInv
<1>1. TypeInv'
  BY GiveUpRun DEF TypeInv
<1>2. ReadInv'
  BY GiveUpRun DEF ReadInv, Recorded
<1>3. InOrder'
  BY GiveUpRun DEF InOrder, Precedes
<1> QED BY <1>1, <1>2, <1>3

\* A new message leaves those recorded before it as they are.
LEMMA AddMessageKeeps ==
  ASSUME TypeInv, NEW m \in Messages, NEW d \in Dates, NEW t \in Times,
         AddMessage(m, d, t)
  PROVE  /\ m \notin Recorded
         /\ messages'[m] = [date |-> d, time |-> t]
         /\ Recorded' = Recorded \cup {m}
         /\ \A n \in Recorded : messages'[n] = messages[n]
         /\ messages' \in [Messages -> MessageRow \cup {NoRow}]
         /\ newest' \in 0..MaxDate /\ newest' >= newest /\ newest' >= d
<1>1. [date |-> d, time |-> t] \in MessageRow
  BY DEF MessageRow
<1>2. [date |-> d, time |-> t] # NoRow
  BY <1>1, CdbAssumption
<1> QED BY <1>1, <1>2, CdbAssumption DEF AddMessage, Recorded, TypeInv, Dates

LEMMA OrderStep == OrderInv /\ [Next]_vars => OrderInv'
<1> SUFFICES ASSUME OrderInv, [Next]_vars PROVE OrderInv'
  OBVIOUS
<1> USE DEF OrderInv
<1>1. CASE UNCHANGED vars
  BY <1>1 DEF TypeInv, ReadInv, InOrder, Recorded, Precedes, vars, runVars
<1>2. ASSUME NEW m \in Messages, NEW d \in Dates, NEW t \in Times,
             AddMessage(m, d, t)
      PROVE  OrderInv'
  <2>1. UNCHANGED <<raw, pc, depth, rows, staged>>
    BY <1>2 DEF AddMessage, runVars
  <2>2. TypeInv'
    BY <1>2, <2>1, AddMessageKeeps DEF TypeInv
  <2>3. ReadInv'
    BY <1>2, <2>1, AddMessageKeeps DEF ReadInv
  <2>4. InOrder'
    <3> SUFFICES ASSUME NEW r \in Runs, NEW k \in staged[r], NEW n \in rows[r]
                 PROVE  Precedes(k, n)'
      BY <2>1 DEF InOrder
    <3>1. Precedes(k, n) /\ k \in Recorded /\ n \in Recorded
      BY DEF InOrder, ReadInv
    <3>2. messages'[k] = messages[k] /\ messages'[n] = messages[n]
      BY <1>2, <3>1, AddMessageKeeps
    <3> QED BY <3>1, <3>2 DEF Precedes
  <2> QED BY <2>2, <2>3, <2>4
<1>3. ASSUME NEW r \in Runs, Start(r) PROVE OrderInv'
  <2>1. UNCHANGED <<messages, newest, raw, rows, staged>>
    BY <1>3 DEF Start
  <2>2. TypeInv'
    BY <1>3, <2>1 DEF TypeInv, Start
  <2>3. ReadInv' /\ InOrder'
    BY <1>3, <2>1 DEF TypeInv, ReadInv, InOrder, Recorded, Precedes, Start
  <2> QED BY <2>2, <2>3
<1>4. ASSUME NEW r \in Runs, QueryMessages(r) PROVE OrderInv'
  <2>1. /\ UNCHANGED <<messages, newest, raw, depth, staged>>
        /\ pc[r] = "query" /\ staged[r] = {}
        /\ pc' = [pc EXCEPT ![r] = "rows"]
    BY <1>4 DEF QueryMessages, ReadInv
  <2>2. /\ rows'[r] \subseteq Recorded /\ Recorded \subseteq Messages
        /\ rows' \in [Runs -> SUBSET Messages]
        /\ \A q \in Runs \ {r} : rows'[q] = rows[q]
    BY <1>4 DEF QueryMessages, TypeInv, Selected, Recorded
  <2>3. TypeInv'
    BY <2>1, <2>2 DEF TypeInv
  <2>4. ReadInv' /\ InOrder'
    BY <2>1, <2>2 DEF TypeInv, ReadInv, InOrder, Recorded, Precedes
  <2> QED BY <2>3, <2>4
<1>5. ASSUME NEW r \in Runs, NEW m \in rows[r], UpsertRawRequest(r, m)
      PROVE  OrderInv'
  <2>1. /\ UNCHANGED <<messages, newest, raw, pc, depth>>
        /\ IsFirst(m, rows[r]) /\ m \in Messages
        /\ staged' = [staged EXCEPT ![r] = @ \cup {m}]
        /\ rows' = [rows EXCEPT ![r] = @ \ {m}]
    BY <1>5 DEF UpsertRawRequest, TypeInv
  <2>2. /\ rows'[r] = rows[r] \ {m} /\ staged'[r] = staged[r] \cup {m}
        /\ \A q \in Runs \ {r} : rows'[q] = rows[q] /\ staged'[q] = staged[q]
    BY <2>1 DEF TypeInv
  <2>3. TypeInv'
    BY <2>1 DEF TypeInv
  <2>4. ReadInv'
    BY <1>5, <2>1, <2>2 DEF ReadInv, Recorded, UpsertRawRequest
  <2>5. InOrder'
    <3> SUFFICES ASSUME NEW q \in Runs, NEW k \in staged'[q], NEW n \in rows'[q]
                 PROVE  Precedes(k, n)
      BY <2>1 DEF InOrder, Precedes
    <3>1. CASE q = r /\ k = m
      BY <2>1, <2>2, <3>1 DEF IsFirst
    <3>2. CASE ~(q = r /\ k = m)
      BY <2>2, <3>2 DEF InOrder
    <3> QED BY <3>1, <3>2
  <2> QED BY <2>3, <2>4, <2>5
<1>6. ASSUME NEW r \in Runs,
             (\E m \in rows[r] : FailOnMessage(r, m)) \/ BreakOff(r)
      PROVE  OrderInv'
  <2>1. GiveUp(r) /\ UNCHANGED <<messages, newest, raw>>
    BY <1>6 DEF FailOnMessage, BreakOff
  <2> QED BY <2>1, GiveUpOrder DEF TypeInv
<1>7. ASSUME NEW r \in Runs, Commit(r) PROVE OrderInv'
  <2>1. GiveUp(r) /\ UNCHANGED <<messages, newest>>
    BY <1>7 DEF Commit
  <2>2. \A m \in staged[r] : messages[m].time \in Times
    BY DEF ReadInv, Recorded, TypeInv, MessageRow
  <2>3. raw' \in [Messages -> Times \cup {NoRow}]
    BY <1>7, <2>2 DEF Commit, TypeInv
  <2> QED BY <2>1, <2>3, GiveUpOrder
<1> QED BY <1>1, <1>2, <1>3, <1>4, <1>5, <1>6, <1>7 DEF Next, Proceed

\* Runs that overlap never wait for each other's rows in a circle, whatever
\* their batches: each writes in one order of all messages (cdb job.go:66, 104).
THEOREM NoCircularWait == Spec => []NoWaitCycle
<1>1. ASSUME OrderInv PROVE NoWaitCycle
  <2> USE DEF OrderInv
  <2> SUFFICES ASSUME NEW q \in Runs, NEW r \in Runs,
                      WaitsFor(q, r), WaitsFor(r, q)
               PROVE  FALSE
    BY DEF NoWaitCycle
  <2>1. PICK m \in rows[q] : m \in staged[r]
    BY DEF WaitsFor
  <2>2. PICK n \in rows[r] : n \in staged[q]
    BY DEF WaitsFor
  <2>3. Precedes(m, n) /\ Precedes(n, m)
    BY <2>1, <2>2, <1>1 DEF InOrder
  <2>4. /\ m \in Int /\ n \in Int
        /\ messages[m].date \in Int /\ messages[n].date \in Int
    BY <1>1, <2>1, <2>2, CdbAssumption
       DEF ReadInv, Recorded, TypeInv, MessageRow, Dates
  <2> QED BY <2>3, <2>4 DEF Precedes
<1> QED BY <1>1, OrderInit, OrderStep, PTL DEF Spec

-----------------------------------------------------------------------------
\* No message is skipped.

\* A message that LIMIT left out is not older than any that it let in.
LEMMA LimitCutsNewer ==
  ASSUME TypeInv, NEW S, S \subseteq Recorded,
         NEW m \in S, NEW n \in S,
         Cardinality({k \in S : Precedes(k, n)}) < BatchSize,
         ~(Cardinality({k \in S : Precedes(k, m)}) < BatchSize)
  PROVE  messages[n].date =< messages[m].date
<1> USE CdbAssumption
<1>1. \A k \in S : k \in Int /\ messages[k].date \in Int
  <2> SUFFICES ASSUME NEW k \in S PROVE k \in Int /\ messages[k].date \in Int
    OBVIOUS
  <2>1. k \in Messages /\ messages[k] \in MessageRow
    BY DEF TypeInv, Recorded
  <2>2. messages[k].date \in Dates
    BY <2>1 DEF MessageRow
  <2> QED BY <2>1, <2>2 DEF Dates
<1> SUFFICES ASSUME messages[m].date < messages[n].date PROVE FALSE
  BY <1>1
<1>2. {k \in S : Precedes(k, m)} \subseteq {k \in S : Precedes(k, n)}
  BY <1>1 DEF Precedes
<1>3. IsFiniteSet({k \in S : Precedes(k, n)})
  <2>1. {k \in S : Precedes(k, n)} \subseteq Messages
    BY DEF Recorded
  <2> QED BY <2>1, FS_Subset
<1>4. IsFiniteSet({k \in S : Precedes(k, m)})
  BY <1>2, <1>3, FS_Subset
<1>5. /\ Cardinality({k \in S : Precedes(k, m)}) =<
           Cardinality({k \in S : Precedes(k, n)})
      /\ Cardinality({k \in S : Precedes(k, m)}) \in Nat
      /\ Cardinality({k \in S : Precedes(k, n)}) \in Nat
  BY <1>2, <1>3, <1>4, FS_Subset, FS_CardinalityType
<1> QED BY <1>5

LEMMA SkipInit == Init => SkipInv
<1> SUFFICES ASSUME Init PROVE SkipInv
  OBVIOUS
<1>1. OrderInv
  BY OrderInit
<1>2. Recorded = {}
  BY DEF Init, Recorded
<1> QED
  BY <1>1, <1>2
  DEF Init, SkipInv, DatesInv, DepthInv, CoverInv, NoMessageSkipped

\* A run that ends without a commit leaves nothing to be shown of it.
LEMMA GiveUpSkip ==
  ASSUME SkipInv, OrderInv', NEW r \in Runs, GiveUp(r),
         UNCHANGED <<messages, newest, raw>>
  PROVE  SkipInv'
<1> USE DEF SkipInv, OrderInv
<1>1. DatesInv' /\ NoMessageSkipped'
  BY DEF DatesInv, NoMessageSkipped, StillSelected, Recorded
<1>2. DepthInv'
  BY GiveUpRun DEF DepthInv
<1>3. CoverInv'
  BY GiveUpRun DEF CoverInv, Covered, Recorded
<1> QED BY <1>1, <1>2, <1>3

LEMMA SkipStep == Timely /\ SkipInv /\ [Next]_vars => SkipInv'
<1> SUFFICES ASSUME Timely, SkipInv, [Next]_vars PROVE SkipInv'
  OBVIOUS
<1> USE DEF SkipInv, OrderInv
<1>1. OrderInv'
  BY OrderStep
<1>2. \A m \in Recorded : /\ m \in Messages
                          /\ messages[m].date \in Int /\ messages[m].time \in Int
  BY CdbAssumption DEF TypeInv, Recorded, MessageRow, Dates, Times
<1>3. newest \in Int
  BY CdbAssumption DEF TypeInv
<1>4. CASE UNCHANGED vars
  BY <1>1, <1>4 DEF DatesInv, DepthInv, CoverInv, Covered, NoMessageSkipped,
                    StillSelected, Recorded, vars, runVars
<1>5. ASSUME NEW m \in Messages, NEW d \in Dates, NEW t \in Times,
             AddMessage(m, d, t)
      PROVE  SkipInv'
  <2>1. /\ UNCHANGED <<raw, pc, depth, rows, staged>>
        /\ d >= newest - MaxLate /\ t =< d + MaxSkew
    BY <1>5, CdbAssumption DEF AddMessage, runVars, Dates
  <2>2. /\ m \notin Recorded /\ Recorded' = Recorded \cup {m}
        /\ messages'[m].date = d /\ messages'[m].time = t
        /\ \A n \in Recorded : messages'[n] = messages[n]
        /\ newest' \in Int /\ newest' >= newest /\ newest' >= d
    <3>1. /\ m \notin Recorded /\ Recorded' = Recorded \cup {m}
          /\ messages'[m] = [date |-> d, time |-> t]
          /\ \A n \in Recorded : messages'[n] = messages[n]
          /\ newest' \in 0..MaxDate /\ newest' >= newest /\ newest' >= d
      BY <1>5, AddMessageKeeps
    <3> QED BY <3>1, CdbAssumption
  <2>3. DatesInv'
    BY <1>2, <1>3, <2>1, <2>2 DEF DatesInv
  <2>4. DepthInv'
    BY <2>1 DEF DepthInv
  <2>5. \A n \in Recorded : d > DepthBelow(messages[n].time)
    <3> TAKE n \in Recorded
    <3>1. messages[n].time =< newest + MaxSkew
      BY <1>2, <1>3, CdbAssumption DEF DatesInv
    <3> QED BY <1>2, <1>3, <2>1, <3>1, CdbAssumption DEF Timely, DepthBelow, Dates
  <2>6. CoverInv'
    <3> SUFFICES ASSUME NEW r \in Runs, pc[r] = "rows", NEW n \in Recorded'
                 PROVE  Covered(r, n)'
      BY <2>1 DEF CoverInv
    <3>1. rows[r] \cup staged[r] \subseteq Recorded
      BY DEF ReadInv
    <3>2. CASE n \in Recorded
      BY <2>1, <2>2, <3>1, <3>2 DEF CoverInv, Covered
    <3>3. CASE n = m
      BY <2>1, <2>2, <2>5, <3>1, <3>3 DEF Covered
    <3> QED BY <2>2, <3>2, <3>3
  <2>7. NoMessageSkipped'
    <3> SUFFICES ASSUME NEW n \in Recorded', raw[n] = NoRow,
                        NEW k \in Messages, raw[k] # NoRow
                 PROVE  messages'[n].date > DepthBelow(raw[k])
      BY <2>1 DEF NoMessageSkipped, StillSelected
    <3>1. k \in Recorded /\ raw[k] = messages[k].time
      BY DEF DatesInv
    <3>2. CASE n \in Recorded
      BY <2>2, <3>2 DEF NoMessageSkipped, StillSelected
    <3>3. CASE n = m
      BY <2>2, <2>5, <3>1, <3>3
    <3> QED BY <2>2, <3>2, <3>3
  <2> QED BY <1>1, <2>3, <2>4, <2>6, <2>7
<1>6. ASSUME NEW r \in Runs, Start(r) PROVE SkipInv'
  <2>1. /\ UNCHANGED <<messages, newest, raw, rows, staged>>
        /\ pc' = [pc EXCEPT ![r] = "query"]
        /\ IsDepth(depth'[r])
        /\ \A q \in Runs \ {r} : depth'[q] = depth[q]
    BY <1>6 DEF Start, TypeInv
  <2>2. DatesInv' /\ NoMessageSkipped'
    BY <2>1 DEF DatesInv, NoMessageSkipped, StillSelected, Recorded
  <2>3. DepthInv'
    BY <2>1 DEF DepthInv, IsDepth
  <2>4. CoverInv'
    BY <2>1 DEF CoverInv, Covered, Recorded, TypeInv
  <2> QED BY <1>1, <2>2, <2>3, <2>4
<1>7. ASSUME NEW r \in Runs, QueryMessages(r) PROVE SkipInv'
  <2> DEFINE S == Selected(depth[r])
  <2>1. /\ UNCHANGED <<messages, newest, raw, depth, staged>>
        /\ staged[r] = {}
        /\ pc' = [pc EXCEPT ![r] = "rows"]
        /\ rows'[r] = {m \in S : Cardinality({n \in S : Precedes(n, m)}) < BatchSize}
        /\ \A q \in Runs \ {r} : rows'[q] = rows[q]
    BY <1>7 DEF QueryMessages, ReadInv, TypeInv
  <2>2. DatesInv' /\ NoMessageSkipped' /\ DepthInv'
    BY <2>1 DEF DatesInv, NoMessageSkipped, StillSelected, Recorded, DepthInv
  <2>3. ASSUME NEW m \in Recorded, raw[m] = NoRow PROVE m \in S
    <3>1. StillSelected(messages[m].date)
      BY <2>3 DEF NoMessageSkipped
    <3> QED BY <3>1 DEF StillSelected, Selected, DepthInv
  <2>4. ASSUME NEW m \in Recorded, raw[m] = NoRow, m \notin rows'[r],
               NEW n \in rows'[r]
        PROVE  messages[m].date > DepthBelow(messages[n].time)
    <3>1. S \subseteq Recorded /\ m \in S /\ n \in S
      BY <2>1, <2>3, <2>4 DEF Selected
    <3> HIDE DEF S
    <3>2. messages[n].date =< messages[m].date
      BY <2>1, <2>4, <3>1, LimitCutsNewer
    <3>3. messages[n].time =< messages[n].date + MaxSkew
      BY <3>1 DEF DatesInv
    <3> QED BY <1>2, <3>1, <3>2, <3>3, CdbAssumption DEF Timely, DepthBelow
  <2> HIDE DEF S
  <2>5. CoverInv'
    <3> SUFFICES ASSUME NEW q \in Runs, pc'[q] = "rows", NEW m \in Recorded
                 PROVE  Covered(q, m)'
      BY <2>1 DEF CoverInv, Recorded
    <3>1. CASE q = r
      BY <2>1, <2>4, <3>1 DEF Covered
    <3>2. CASE q # r
      <4>1. Covered(q, m)
        BY <2>1, <3>2 DEF CoverInv, TypeInv
      <4> QED BY <2>1, <3>2, <4>1 DEF Covered
    <3> QED BY <3>1, <3>2
  <2> QED BY <1>1, <2>2, <2>5
<1>8. ASSUME NEW r \in Runs, NEW m \in rows[r], UpsertRawRequest(r, m)
      PROVE  SkipInv'
  <2>1. /\ UNCHANGED <<messages, newest, raw, pc, depth>>
        /\ staged' = [staged EXCEPT ![r] = @ \cup {m}]
        /\ rows' = [rows EXCEPT ![r] = @ \ {m}]
    BY <1>8 DEF UpsertRawRequest
  <2>2. \A q \in Runs : rows'[q] \cup staged'[q] = rows[q] \cup staged[q]
    BY <2>1 DEF TypeInv
  <2>3. DatesInv' /\ NoMessageSkipped' /\ DepthInv'
    BY <2>1 DEF DatesInv, NoMessageSkipped, StillSelected, Recorded, DepthInv
  <2>4. CoverInv'
    BY <2>1, <2>2 DEF CoverInv, Covered, Recorded
  <2> QED BY <1>1, <2>3, <2>4
<1>9. ASSUME NEW r \in Runs,
             (\E m \in rows[r] : FailOnMessage(r, m)) \/ BreakOff(r)
      PROVE  SkipInv'
  <2>1. GiveUp(r) /\ UNCHANGED <<messages, newest, raw>>
    BY <1>9 DEF FailOnMessage, BreakOff
  <2> QED BY <1>1, <2>1, GiveUpSkip
<1>10. ASSUME NEW r \in Runs, Commit(r) PROVE SkipInv'
  <2>1. /\ GiveUp(r) /\ UNCHANGED <<messages, newest>>
        /\ pc[r] = "rows" /\ rows[r] = {}
        /\ \A m \in Messages :
             raw'[m] = IF m \in staged[r] THEN messages[m].time ELSE raw[m]
    BY <1>10 DEF Commit
  <2>2. staged[r] \subseteq Recorded
    BY DEF ReadInv
  <2>3. \A m \in Messages : raw[m] # NoRow => raw'[m] = raw[m]
    BY <2>1 DEF DatesInv
  <2>4. \A m \in Messages : raw'[m] # NoRow =>
          /\ m \in Recorded /\ raw'[m] = messages[m].time
          /\ m \in staged[r] \/ raw[m] # NoRow
    BY <2>1, <2>2 DEF DatesInv
  <2>5. DatesInv'
    BY <2>1, <2>4 DEF DatesInv, Recorded
  <2>6. DepthInv'
    <3> SUFFICES ASSUME NEW q \in Runs, depth'[q] # NoDate
                 PROVE  \E m \in Messages :
                          raw'[m] # NoRow /\ depth'[q] = DepthBelow(raw'[m])
      BY DEF DepthInv
    <3>1. depth'[q] = depth[q]
      BY <2>1, GiveUpRun
    <3>2. PICK m \in Messages : raw[m] # NoRow /\ depth[q] = DepthBelow(raw[m])
      BY <3>1 DEF DepthInv
    <3> QED BY <2>3, <3>1, <3>2
  <2>7. CoverInv'
    <3> SUFFICES ASSUME NEW q \in Runs, pc'[q] = "rows", NEW m \in Recorded
                 PROVE  Covered(q, m)'
      BY <2>1 DEF CoverInv, Recorded
    <3>1. q # r /\ pc[q] = "rows" /\ rows'[q] = rows[q] /\ staged'[q] = staged[q]
      BY <2>1, GiveUpRun
    <3>2. Covered(q, m) /\ m \in Messages
      BY <1>2, <3>1 DEF CoverInv
    <3> QED BY <2>1, <2>3, <3>1, <3>2 DEF Covered
  <2>8. NoMessageSkipped'
    <3> SUFFICES ASSUME NEW m \in Recorded, raw'[m] = NoRow,
                        NEW k \in Messages, raw'[k] # NoRow
                 PROVE  messages[m].date > DepthBelow(raw'[k])
      BY <2>1 DEF NoMessageSkipped, StillSelected, Recorded
    <3>1. m \notin staged[r] /\ raw[m] = NoRow
      <4>1. m \in Messages /\ messages[m].time # NoRow
        BY <1>2, CdbAssumption
      <4> QED BY <2>1, <4>1
    <3>2. CASE k \in staged[r]
      BY <2>1, <2>4, <3>1, <3>2 DEF CoverInv, Covered
    <3>3. CASE k \notin staged[r]
      <4>1. raw'[k] = raw[k] /\ raw[k] # NoRow
        BY <2>1, <3>3
      <4> QED BY <3>1, <4>1 DEF NoMessageSkipped, StillSelected
    <3> QED BY <3>2, <3>3
  <2> QED BY <1>1, <2>5, <2>6, <2>7, <2>8
<1> QED BY <1>4, <1>5, <1>6, <1>7, <1>8, <1>9, <1>10 DEF Next, Proceed

\* When lateness, skew and the added second together stay below the lookback, no
\* message is ever out of reach of later runs, whatever the batch size, although
\* runs overlap and the depth is made of another column (cdb job.go:56-67).
THEOREM NothingMissed == Timely => (Spec => []NoMessageSkipped)
<1> SUFFICES ASSUME Timely PROVE Spec => []NoMessageSkipped
  OBVIOUS
<1>1. SkipInv /\ [Next]_vars => SkipInv'
  BY SkipStep
<1>2. SkipInv => NoMessageSkipped
  BY DEF SkipInv
<1> QED BY <1>1, <1>2, SkipInit, PTL DEF Spec
=============================================================================
