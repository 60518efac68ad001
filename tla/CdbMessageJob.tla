--------------------------- MODULE CdbMessageJob ---------------------------
(***************************************************************************)
(* The cdb-message-dag job: Run of internal/jobs/cdbmessage/job.go with the *)
(* store operations it calls, moving the messages exchanged with the       *)
(* central database (mnp_message) to the mart table mnp_raw_request.       *)
(*                                                                         *)
(* Its watermark mixes two clocks: the depth is the newest request_time in *)
(* the mart, which is the message's request_data, plus one second and      *)
(* minus the lookback, and it is compared with message_date.  A message's  *)
(* request_data may be up to MaxSkew away from its message_date.           *)
(*                                                                         *)
(* The lock is left out: runs overlap freely here, and what is shown does  *)
(* not need them to be kept apart (SessionLock shows when they are not).   *)
(***************************************************************************)
EXTENDS Integers, FiniteSets

CONSTANTS
  Messages,    \* message ids (mnp_message.message_id)
  Broken,      \* messages that cannot be scanned (a NULL order_id or time)
  MaxDate,     \* bound: no message is dated later than this
  MaxLate,     \* bound: how far behind the newest message_date a new one may be
  MaxSkew,     \* bound: how far request_data may be from message_date
  Lookback,    \* LOOKBACK_DURATION
  BatchSize,   \* BATCH_SIZE
  Runs,        \* the runs that may be in progress: ticker, HTTP handlers
  Tickers,     \* those of them that a ticker starts (runTicker)
  MaxFailures, \* bound on timeouts, lost connections and crashes
  NoRow, NoDate

Dates == 1..MaxDate

Times == (1 - MaxSkew)..(MaxDate + MaxSkew)

MessageRow == [date: Dates, time: Times]

ASSUME CdbAssumption ==
  /\ IsFiniteSet(Messages) /\ Messages \subseteq Int /\ Broken \subseteq Messages
  /\ MaxDate \in Nat /\ MaxLate \in Nat /\ MaxSkew \in Nat /\ MaxFailures \in Nat
  /\ Lookback \in Nat /\ BatchSize \in Nat \ {0}
  /\ Tickers \subseteq Runs
  /\ NoRow \notin MessageRow \cup Int /\ NoDate \notin Int

VARIABLES
  messages, \* mnp_message joined with mnp_process: id -> its row
  newest,   \* the newest message_date recorded
  raw,      \* mnp_raw_request: id -> its committed request_time
  pc,       \* run -> the step of Run it is at
  depth,    \* run -> lower bound of the dates it selects
  rows,     \* run -> ids of its result rows still to be processed
  staged,   \* run -> ids of its uncommitted mnp_raw_request rows
  failures  \* how many runs were broken off from outside

runVars == <<pc, depth, rows, staged>>
vars == <<messages, newest, raw, runVars, failures>>

Init ==
  /\ messages = [m \in Messages |-> NoRow]
  /\ newest = 0
  /\ raw = [m \in Messages |-> NoRow]
  /\ pc = [r \in Runs |-> "idle"]
  /\ depth = [r \in Runs |-> NoDate]
  /\ rows = [r \in Runs |-> {}]
  /\ staged = [r \in Runs |-> {}]
  /\ failures = 0

Recorded == {m \in Messages : messages[m] # NoRow}

\* Another service records a message; its row does not change afterwards.
AddMessage(m, d, t) ==
  /\ messages[m] = NoRow
  /\ d >= newest - MaxLate
  /\ t \in (d - MaxSkew)..(d + MaxSkew)
  /\ messages' = [messages EXCEPT ![m] = [date |-> d, time |-> t]]
  /\ newest' = IF d > newest THEN d ELSE newest
  /\ UNCHANGED <<raw, runVars, failures>>

-----------------------------------------------------------------------------

\* Mutant: the second is added, the lookback is not subtracted.
DepthAhead(time) == time + 1

\* depth.Add(1 * time.Second).Add(-Lookback)
DepthBelow(time) == time + 1 - Lookback

\* MaxRawRequestTime, moved; NULL while mnp_raw_request is empty.
IsDepth(d) ==
  \/ (\A m \in Messages : raw[m] = NoRow) /\ d = NoDate
  \/ \E m \in Messages :
       /\ raw[m] # NoRow
       /\ \A n \in Messages : raw[n] # NoRow => raw[n] =< raw[m]
       /\ d = DepthBelow(raw[m])

Depths == {DepthBelow(t) : t \in Times}

\* The lock is granted and the depth read.
Start(r) ==
  /\ pc[r] = "idle"
  /\ \E d \in {NoDate} \cup Depths :
       IsDepth(d) /\ depth' = [depth EXCEPT ![r] = d]
  /\ pc' = [pc EXCEPT ![r] = "query"]
  /\ UNCHANGED <<messages, newest, raw, rows, staged, failures>>

\* ORDER BY message_date, message_id
Precedes(m, n) ==
  \/ messages[m].date < messages[n].date
  \/ messages[m].date = messages[n].date /\ m < n

\* Mutant: the query has no ORDER BY.
AnyOf(m, S) == m \in S

IsFirst(m, S) == m \in S /\ \A n \in S \ {m} : Precedes(m, n)

Selected(d) == {m \in Recorded : d = NoDate \/ messages[m].date > d}

\* The query, cut by LIMIT, and BeginTx.
QueryMessages(r) ==
  /\ pc[r] = "query"
  /\ rows' = [rows EXCEPT ![r] =
       {m \in Selected(depth[r]) :
          Cardinality({n \in Selected(depth[r]) : Precedes(n, m)}) < BatchSize}]
  /\ pc' = [pc EXCEPT ![r] = "rows"]
  /\ UNCHANGED <<messages, newest, raw, depth, staged, failures>>

\* The deferred Rollback and UnlockJob.
GiveUp(r) ==
  /\ pc' = [pc EXCEPT ![r] = "idle"]
  /\ depth' = [depth EXCEPT ![r] = NoDate]
  /\ rows' = [rows EXCEPT ![r] = {}]
  /\ staged' = [staged EXCEPT ![r] = {}]

\* The next row of r is one that the open transaction of q has written.
WaitsFor(r, q) ==
  /\ q # r
  /\ \E m \in rows[r] : IsFirst(m, rows[r]) /\ m \notin Broken /\ m \in staged[q]

\* One row: ON CONFLICT (id) DO UPDATE.
UpsertRawRequest(r, m) ==
  /\ pc[r] = "rows" /\ IsFirst(m, rows[r]) /\ m \notin Broken
  /\ \A q \in Runs \ {r} : m \notin staged[q]
  /\ staged' = [staged EXCEPT ![r] = @ \cup {m}]
  /\ rows' = [rows EXCEPT ![r] = @ \ {m}]
  /\ UNCHANGED <<messages, newest, raw, pc, depth, failures>>

\* A row that cannot be scanned fails the whole run.
FailOnMessage(r, m) ==
  /\ pc[r] = "rows" /\ IsFirst(m, rows[r]) /\ m \in Broken
  /\ GiveUp(r)
  /\ UNCHANGED <<messages, newest, raw, failures>>

\* Mutant: the last row is not written.
CommitAllButLast(r) ==
  /\ pc[r] = "rows" /\ rows[r] = {}
  /\ raw' = [m \in Messages |->
               IF m \in staged[r] /\ \E n \in staged[r] : Precedes(m, n)
                 THEN messages[m].time ELSE raw[m]]
  /\ GiveUp(r)
  /\ UNCHANGED <<messages, newest, failures>>

Commit(r) ==
  /\ pc[r] = "rows" /\ rows[r] = {}
  /\ raw' = [m \in Messages |->
               IF m \in staged[r] THEN messages[m].time ELSE raw[m]]
  /\ GiveUp(r)
  /\ UNCHANGED <<messages, newest, failures>>

\* The run's context expires, a connection breaks or the process dies.
BreakOff(r) ==
  /\ pc[r] # "idle" /\ failures < MaxFailures
  /\ failures' = failures + 1
  /\ GiveUp(r)
  /\ UNCHANGED <<messages, newest, raw>>

Proceed(r) ==
  \/ QueryMessages(r)
  \/ \E m \in rows[r] : UpsertRawRequest(r, m) \/ FailOnMessage(r, m)
  \/ Commit(r)

Next ==
  \/ \E m \in Messages, d \in Dates, t \in Times : AddMessage(m, d, t)
  \/ \E r \in Runs : Start(r) \/ Proceed(r) \/ BreakOff(r)

Spec == Init /\ [][Next]_vars

\* A ticker starts a run again and again, an HTTP request comes or does not; a
\* run that was started goes on until it ends.
FairSpec ==
  /\ Spec
  /\ \A r \in Tickers : WF_vars(Start(r))
  /\ \A r \in Runs : WF_vars(Proceed(r))

-----------------------------------------------------------------------------

\* A later run still selects this date, whichever row sets its depth.
StillSelected(date) ==
  \A m \in Messages : raw[m] # NoRow => date > DepthBelow(raw[m])

\* No message is skipped: one that is not in the mart lies above the depth of
\* every later run, although that depth is made of another column and moved up
\* by a second, and although runs overlap (job.go:56-67).
NoMessageSkipped ==
  \A m \in Recorded : raw[m] # NoRow \/ StillSelected(messages[m].date)

\* Overlapping runs write the rows in one order, so they never wait for each
\* other in a circle (job.go:66, 104).
NoWaitCycle ==
  \A q, r \in Runs : ~(WaitsFor(q, r) /\ WaitsFor(r, q))

\* While no message is recorded that cannot be scanned, every message gets into
\* the mart and stays there, although runs overlap and are broken off
\* (job.go:73-120).
EveryMessageArrives ==
  [](Broken \cap Recorded = {}) =>
    \A m \in Messages : m \in Recorded ~> [](raw[m] # NoRow)
=============================================================================
