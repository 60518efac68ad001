---------------------------- MODULE PortInPatch ----------------------------
(***************************************************************************)
(* The patches of orders: handlePortInPatchEvent and UpdatePortInOrder.    *)
(* Consumers of the topic portin-patch, one per partition and replica,     *)
(* receive a patch, lock its order, decide, update, commit, publish what   *)
(* changed and return; any error sends the patch to the rejected topic.    *)
(* A message is acknowledged when the handler has returned nil, so one     *)
(* whose consumer dies, or is taken its partition away, is delivered again.*)
(***************************************************************************)
EXTENDS PortInStore, Startup, FiniteSetsExt

CONSTANTS
  Consumers,
  PatchOf,     \* message -> its content
  NotANumber   \* an id that does not parse

\* malformed: a date or a phone number that does not parse, or a number without
\* a status.
PortInPatchMessage ==
  [order: Int \cup {Null, NotANumber}, cdb: Int \cup {Null, NotANumber},
   date: Dates \cup {Null}, state: STRING \cup {Null}, due: Int \cup {Null},
   numbers: Seq([msisdn: Msisdns, code: NumberStatuses]), malformed: BOOLEAN]

ASSUME PatchAssumption ==
  /\ PatchOf \in [Patches -> PortInPatchMessage]
  /\ Null \notin Consumers

VARIABLES
  step,      \* consumer -> where it is
  work,      \* consumer -> the patch it handles and what it made of it
  acked,     \* messages acknowledged
  rejected,  \* messages in the topic portin-patch-rejected
  noops      \* history: patches that were committed without any change

patchVars == <<step, work, acked, rejected, noops>>

Work ==
  [patch: Patches \cup {Null}, order: Orders \cup {Null},
   row: OrderRow \cup {Null}, status: BOOLEAN, numbers: BOOLEAN, due: BOOLEAN,
   cdb: BOOLEAN]

NoWork == [patch |-> Null, order |-> Null, row |-> Null,
           status |-> FALSE, numbers |-> FALSE, due |-> FALSE, cdb |-> FALSE]

PatchInit ==
  /\ step = [c \in Consumers |-> "idle"]
  /\ work = [c \in Consumers |-> NoWork]
  /\ acked = {} /\ rejected = {} /\ noops = {}

-----------------------------------------------------------------------------
\* What the handler computes.

HasState(p) == p.state \notin {Null, ""}

\* ValidatePortInPatchEvent; a date of Null is the zero time.
IsValid(p) ==
  /\ p.order # Null \/ p.cdb # Null
  /\ HasState(p) \/ p.due # Null \/ p.numbers # <<>>
  /\ ~p.malformed
  /\ p.date # Null
  /\ IF p.order # Null THEN p.order # NotANumber ELSE p.cdb # NotANumber

\* getPortInOrder: by the id of the order when there is one.
Targets(p) ==
  IF p.order # Null THEN GetByID(p.order) ELSE GetByCDBProcessID(p.cdb)

\* ValidatePortInPatchDate
IsNewer(p, row) == p.date > Since(row)

CodeName(row) == StatusCodeToName[row.state]

\* The entries of the patch for the number n.
Entries(n, nums) == {i \in DOMAIN nums : nums[i].msisdn = n}

\* applyPortationNumbersState goes through the entries in their order: the last
\* one for a number stays, and one that differs from the stored status counts
\* as a change even if a later one takes it back.
ApplyNumbers(data, nums) ==
  [data |-> [n \in DOMAIN data |->
               IF Entries(n, nums) = {} THEN data[n]
               ELSE nums[Max(Entries(n, nums))].code],
   changed |-> \E i \in DOMAIN nums :
                 /\ nums[i].msisdn \in DOMAIN data
                 /\ data[nums[i].msisdn] # nums[i].code]

\* checkNumsHaveAggregatedState: the entries that ask for an aggregation; the
\* first of them decides which.
Aggregating(data, nums) ==
  {i \in DOMAIN nums : /\ nums[i].msisdn \in DOMAIN data
                       /\ nums[i].code \in DOMAIN cfg.aggregate}

Aggregate(data, nums) ==
  cfg.aggregate[nums[Min(Aggregating(data, nums))].code]

\* Mutant: one number in a wanted state is enough.
AnyInTargets(agg, data) == \E n \in DOMAIN data : data[n] \in agg.targets

AllInTargets(agg, data) == \A n \in DOMAIN data : data[n] \in agg.targets

\* applyPortNumbersAggregatedState looks at the status of a number without one.
Panics(p, row) ==
  LET nums == ApplyNumbers(row.data, p.numbers)
  IN  /\ nums.changed /\ Aggregating(row.data, p.numbers) # {}
      /\ \E n \in DOMAIN nums.data : nums.data[n] = Null

\* applyPatchState ends in an error, or IntCDBPID does when the numbers have been
\* gone through without a panic.
Unappliable(p, row) ==
  \/ p.state # Null /\ p.state \notin CodeNames
  \/ row.cdb = Null /\ p.cdb = NotANumber /\ ~Panics(p, row)

Aggregated(p, row) ==
  LET nums == ApplyNumbers(row.data, p.numbers)
  IN  /\ nums.changed /\ Aggregating(row.data, p.numbers) # {}
      /\ AllInTargets(Aggregate(row.data, p.numbers), nums.data)

\* The name of the state after applyPatch.
NewState(p, row) ==
  IF Aggregated(p, row) THEN Aggregate(row.data, p.numbers).state
  ELSE IF p.state # Null THEN p.state ELSE CodeName(row)

\* formPatchUpdate: the new row and what of it changed.
Form(m, o, row) ==
  LET p == PatchOf[m]
      nums == ApplyNumbers(row.data, p.numbers)
      newDue == IF p.due # Null THEN p.due ELSE row.due
      newCdb == IF row.cdb = Null THEN p.cdb ELSE row.cdb
  IN  [patch |-> m, order |-> o,
       row |-> [row EXCEPT !.state = StatusNameToCode[NewState(p, row)],
                           !.due = newDue, !.cdb = newCdb, !.data = nums.data,
                           !.changed = p.date, !.by = m],
       status |-> \/ Aggregated(p, row)
                  \/ p.state # Null /\ p.state # CodeName(row),
       numbers |-> nums.changed,
       due |-> newDue # row.due,
       cdb |-> newCdb # row.cdb]

AnyChange(w) == w.status \/ w.numbers \/ w.due \/ w.cdb

-----------------------------------------------------------------------------
\* The steps of a consumer.

Goto(c, to) == step' = [step EXCEPT ![c] = to]

Release(c) == lock' = [o \in Orders |-> IF lock[o] = c THEN Null ELSE lock[o]]

Fault == failures < MaxFailures /\ failures' = failures + 1

InFlight == {work[c].patch : c \in Consumers}

\* ValidatePortInPatchEvent comes first, before any statement.
Receive(c, m) ==
  /\ step[c] = "idle" /\ m \notin acked \cup InFlight
  /\ work' = [work EXCEPT ![c].patch = m]
  /\ Goto(c, IF IsValid(PatchOf[m]) THEN "get" ELSE "reject")
  /\ UNCHANGED <<storeVars, acked, rejected, noops>>

\* The partition moved while its message was being handled: both handle it.
ReceiveAgain(c, m) ==
  /\ step[c] = "idle" /\ m \in InFlight \ acked
  /\ Fault
  /\ work' = [work EXCEPT ![c].patch = m]
  /\ Goto(c, IF IsValid(PatchOf[m]) THEN "get" ELSE "reject")
  /\ UNCHANGED <<tableVars, lock, events, acked, rejected, noops>>

NotFound(c) ==
  /\ step[c] = "get" /\ Targets(PatchOf[work[c].patch]) = {}
  /\ Goto(c, "reject")
  /\ UNCHANGED <<storeVars, work, acked, rejected, noops>>

\* BEGIN and SELECT FOR UPDATE have returned this row.
Got(c, o) ==
  /\ step[c] = "get" /\ o \in Targets(PatchOf[work[c].patch])
  /\ lock[o] = Null

\* Mutant: the error is returned, the message not rejected.
RefuseReturnsError(c, o) ==
  /\ Got(c, o)
  /\ \/ ~IsNewer(PatchOf[work[c].patch], orders[o])
     \/ Unappliable(PatchOf[work[c].patch], orders[o])
  /\ work' = [work EXCEPT ![c] = NoWork]
  /\ Goto(c, "idle")
  /\ UNCHANGED <<storeVars, acked, rejected, noops>>

\* The patch is not newer than the order, or does not fit it: rolled back.
Refuse(c, o) ==
  /\ Got(c, o)
  /\ \/ ~IsNewer(PatchOf[work[c].patch], orders[o])
     \/ Unappliable(PatchOf[work[c].patch], orders[o])
  /\ Goto(c, "reject")
  /\ UNCHANGED <<storeVars, work, acked, rejected, noops>>

\* The nil status is dereferenced: the transaction is rolled back and the message
\* stays unacknowledged.
Panic(c, o) ==
  /\ Got(c, o)
  /\ IsNewer(PatchOf[work[c].patch], orders[o])
  /\ ~Unappliable(PatchOf[work[c].patch], orders[o])
  /\ Panics(PatchOf[work[c].patch], orders[o])
  /\ work' = [work EXCEPT ![c] = NoWork]
  /\ Goto(c, "idle")
  /\ UNCHANGED <<storeVars, acked, rejected, noops>>

\* Mutant: SELECT without FOR UPDATE.
ApplyUnlocked(c, o) ==
  /\ step[c] = "get" /\ o \in Targets(PatchOf[work[c].patch])
  /\ IsNewer(PatchOf[work[c].patch], orders[o])
  /\ ~Unappliable(PatchOf[work[c].patch], orders[o])
  /\ ~Panics(PatchOf[work[c].patch], orders[o])
  /\ work' = [work EXCEPT ![c] = Form(work[c].patch, o, orders[o])]
  /\ Goto(c, "commit")
  /\ UNCHANGED <<storeVars, acked, rejected, noops>>

\* The row is locked and its new version is made.
Apply(c, o) ==
  /\ Got(c, o)
  /\ IsNewer(PatchOf[work[c].patch], orders[o])
  /\ ~Unappliable(PatchOf[work[c].patch], orders[o])
  /\ ~Panics(PatchOf[work[c].patch], orders[o])
  /\ lock' = [lock EXCEPT ![o] = c]
  /\ work' = [work EXCEPT ![c] = Form(work[c].patch, o, orders[o])]
  /\ Goto(c, "commit")
  /\ UNCHANGED <<tableVars, events, failures, acked, rejected, noops>>

\* UpdateOrderPatch and COMMIT.
CommitChange(c) ==
  /\ step[c] = "commit" /\ AnyChange(work[c])
  /\ UpdateOrderPatch(work[c].order, work[c].row)
  /\ Release(c)
  /\ Goto(c, "status")
  /\ UNCHANGED <<events, failures, work, acked, rejected, noops>>

\* Without a change only COMMIT.
CommitNothing(c) ==
  /\ step[c] = "commit" /\ ~AnyChange(work[c])
  /\ Release(c)
  /\ noops' = noops \cup {work[c].patch}
  /\ Goto(c, "return")
  /\ UNCHANGED <<tableVars, events, failures, work, acked, rejected>>

\* COMMIT returns an error although it took effect: the connection broke.
CommitUnanswered(c) ==
  /\ step[c] = "commit" /\ AnyChange(work[c]) /\ Fault
  /\ UpdateOrderPatch(work[c].order, work[c].row)
  /\ Release(c)
  /\ Goto(c, "reject")
  /\ UNCHANGED <<events, work, acked, rejected, noops>>

\* Mutant: the result of the statement is ignored.
StatementFailsUnseen(c) ==
  /\ step[c] = "commit" /\ Fault
  /\ Release(c)
  /\ Goto(c, "status")
  /\ UNCHANGED <<tableVars, events, work, acked, rejected, noops>>

\* A statement fails, before the transaction or in it: rolled back.
StatementFails(c) ==
  /\ step[c] \in {"get", "commit"} /\ Fault
  /\ Release(c)
  /\ Goto(c, "reject")
  /\ UNCHANGED <<tableVars, events, work, acked, rejected, noops>>

\* The new state travels with the event only when the state changed.
StatusEvent(w) ==
  [kind |-> "status", order |-> w.order, date |-> w.row.changed,
   state |-> IF w.status THEN w.row.state ELSE Null]

DueDateEvent(w) ==
  [kind |-> "duedate", order |-> w.order, date |-> w.row.changed, state |-> Null]

\* publishUpdateEvent: PublishStatusChangedEvent, then PublishDueDateChangedEvent.
PublishStatus(c) ==
  /\ step[c] = "status"
  /\ events' = IF work[c].status \/ work[c].numbers
                 THEN events \cup {StatusEvent(work[c])} ELSE events
  /\ Goto(c, "duedate")
  /\ UNCHANGED <<tableVars, lock, failures, work, acked, rejected, noops>>

PublishDueDate(c) ==
  /\ step[c] = "duedate"
  /\ events' = IF work[c].due THEN events \cup {DueDateEvent(work[c])} ELSE events
  /\ Goto(c, "return")
  /\ UNCHANGED <<tableVars, lock, failures, work, acked, rejected, noops>>

\* Mutant: a failed publish is logged and the handler returns nil.
PublishFailsUnseen(c) ==
  /\ step[c] \in {"status", "duedate"} /\ Fault
  /\ Goto(c, "return")
  /\ UNCHANGED <<tableVars, lock, events, work, acked, rejected, noops>>

PublishFails(c) ==
  /\ \/ step[c] = "status" /\ (work[c].status \/ work[c].numbers)
     \/ step[c] = "duedate" /\ work[c].due
  /\ Fault
  /\ Goto(c, "reject")
  /\ UNCHANGED <<tableVars, lock, events, work, acked, rejected, noops>>

\* handlePortInPatchEvent sends the message to the rejected topic.
Reject(c) ==
  /\ step[c] = "reject"
  /\ rejected' = rejected \cup {work[c].patch}
  /\ Goto(c, "return")
  /\ UNCHANGED <<storeVars, work, acked, noops>>

\* Mutant: the error of the rejected topic is logged and nil returned.
RejectFailsUnseen(c) ==
  /\ step[c] = "reject" /\ Fault
  /\ Goto(c, "return")
  /\ UNCHANGED <<tableVars, lock, events, work, acked, rejected, noops>>

\* It cannot be sent: the handler's error leaves it unacknowledged.
RejectFails(c) ==
  /\ step[c] = "reject" /\ Fault
  /\ work' = [work EXCEPT ![c] = NoWork]
  /\ Goto(c, "idle")
  /\ UNCHANGED <<tableVars, lock, events, acked, rejected, noops>>

\* The handler has returned nil.
Acknowledge(c) ==
  /\ step[c] = "return"
  /\ acked' = acked \cup {work[c].patch}
  /\ work' = [work EXCEPT ![c] = NoWork]
  /\ Goto(c, "idle")
  /\ UNCHANGED <<storeVars, rejected, noops>>

\* The process dies and comes up again.
Crash(c) ==
  /\ step[c] # "idle" /\ Fault
  /\ Release(c)
  /\ work' = [work EXCEPT ![c] = NoWork]
  /\ Goto(c, "idle")
  /\ UNCHANGED <<tableVars, events, acked, rejected, noops>>

Handle(c) ==
  \/ NotFound(c)
  \/ \E o \in Orders : Refuse(c, o) \/ Panic(c, o) \/ Apply(c, o)
  \/ CommitChange(c) \/ CommitNothing(c)
  \/ PublishStatus(c) \/ PublishDueDate(c)
  \/ Reject(c) \/ Acknowledge(c)

GoWrong(c) ==
  \/ CommitUnanswered(c) \/ StatementFails(c) \/ PublishFails(c)
  \/ RejectFails(c) \/ Crash(c)

PatchNext ==
  \E c \in Consumers :
    \/ \E m \in Patches : Receive(c, m) \/ ReceiveAgain(c, m)
    \/ Handle(c) \/ GoWrong(c)

-----------------------------------------------------------------------------

PatchTypeOK ==
  /\ step \in [Consumers -> {"idle", "get", "commit", "status", "duedate",
                             "reject", "return"}]
  /\ work \in [Consumers -> Work]
  /\ \A c \in Consumers : step[c] = "idle" <=> work[c] = NoWork
  /\ acked \cup rejected \cup noops \subseteq Patches
  /\ lock \in [Orders -> Consumers \cup {Null}]

\* A patch that was acknowledged is in the database under its own date, or it
\* changed nothing, or it is in the rejected topic, whatever failed in between
\* and however often it was delivered (message_processor.go:47-61).
NoPatchLost ==
  \A m \in acked :
    \/ m \in rejected \cup noops
    \/ \E o \in Orders : \E v \in VersionsOf(o) :
         v.by = m /\ v.from = PatchOf[m].date

\* What distinguishes the version w of o from v has been published.
Announced(o, w, v) ==
  /\ w.state # v.state =>
       [kind |-> "status", order |-> o, date |-> w.from, state |-> w.state] \in events
  /\ w.data # v.data =>
       \E e \in events : e.kind = "status" /\ e.order = o /\ e.date = w.from
  /\ w.due # v.due =>
       \E e \in events : e.kind = "duedate" /\ e.order = o /\ e.date = w.from

\* A change may stay in the database for ever without its events: a crash after
\* the commit, a COMMIT without an answer and a failing publish all do that, for
\* the patch that is delivered again is not newer any more.  But an acknowledged
\* patch with an unannounced change has left a trace, it is in the rejected topic
\* (portin_update_order.go:63-84, message_processor.go:47-61).  Not so when
\* another delivery of it met the order in a state in which it changed nothing,
\* or another order with its process id.
UnannouncedIsRejected ==
  \A o \in Orders : \A w, v \in VersionsOf(o) :
    Replaces(o, w, v) /\ w.by \in acked =>
      \/ Announced(o, w, v)
      \/ w.by \in rejected \cup noops
      \/ \E q \in Orders \ {o} : \E u \in VersionsOf(q) : u.by = w.by

\* An event is never ahead of the database: it tells of a version that exists,
\* with the state that version has (portin_update_order.go:67-84).
EventsTellCommitted ==
  \A e \in events :
    /\ e.kind = "created" => e.order \in Present
    /\ e.kind # "created" =>
         \E v \in VersionsOf(e.order) :
           v.from = e.date /\ e.state \in {Null, v.state}

\* The state of an order changes only to one that the patch names or that all
\* its numbers have earned by then; a patch of the due date or of one number
\* leaves it alone, although the state is read as a code, turned into a name
\* and back (portin_update_order.go:135-177, 275-305).
StatesAreEarned ==
  \A o \in Orders : \A w, v \in VersionsOf(o) :
    Replaces(o, w, v) /\ w.state # v.state =>
      \/ /\ PatchOf[w.by].state # Null
         /\ w.state = StatusNameToCode[PatchOf[w.by].state]
      \/ \E a \in DOMAIN cfg.aggregate :
           /\ w.state = StatusNameToCode[cfg.aggregate[a].state]
           /\ \A n \in DOMAIN w.data : w.data[n] \in cfg.aggregate[a].targets

PanicsOn(m) ==
  \E o \in Targets(PatchOf[m]) :
    /\ IsNewer(PatchOf[m], orders[o])
    /\ ~Unappliable(PatchOf[m], orders[o]) /\ Panics(PatchOf[m], orders[o])

\* Every patch is acknowledged in the end, unless for ever some patch meets an
\* order with a number that has no status (message_processor.go:39-76).
PatchesHandled ==
  <>(phase = "serving") =>
    \/ \A m \in Patches : <>(m \in acked)
    \/ []<>(\E m \in Patches \ acked : PanicsOn(m))
=============================================================================
