------------------------- MODULE PortInPatchProofs -------------------------
(***************************************************************************)
(* What the patches of portin-requests keep, for any orders, consumers,    *)
(* patches, faults and settings: the versions of an order follow each      *)
(* other, what is acknowledged is not lost, what changed is announced, and *)
(* the tables change as the datamart's model of its source allows.         *)
(***************************************************************************)
EXTENDS PortInRequestsProofs

-----------------------------------------------------------------------------
\* The versions of an order.

Version(row) ==
  [from |-> Since(row), state |-> row.state, due |-> row.due, data |-> row.data,
   by |-> row.by]

Logged(l) ==
  [from |-> l.version, state |-> l.state, due |-> l.due, data |-> l.data, by |-> l.by]

LEMMA VersionsAre ==
  \A o \in Orders :
    VersionsOf(o) = {Logged(l) : l \in {k \in log : k.order = o}}
                      \cup (IF o \in Present THEN {Version(orders[o])} ELSE {})
  BY DEF VersionsOf, Version, Logged

\* An insert begins the versions of its order, a change adds one to those of its
\* order, and nothing else touches them.
LEMMA VersionSteps ==
  ASSUME TypeInv, StoreInv, [Next]_vars, NEW o \in Orders
  PROVE  \/ VersionsOf(o)' = VersionsOf(o) /\ orders'[o] = orders[o]
         \/ \E r \in Requests :
              /\ Inserts(r) /\ o = nextId /\ o \notin Present /\ VersionsOf(o) = {}
              /\ VersionsOf(o)' = {Version(orders'[o])}
         \/ \E c \in Consumers :
              /\ Changes(c) /\ o = work[c].order
              /\ VersionsOf(o)' = VersionsOf(o) \cup {Version(orders'[o])}
<1> DEFINE Old(l, p) == {Logged(k) : k \in {j \in l : j.order = p}}
<1>1. /\ VersionsOf(o) = Old(log, o) \cup (IF o \in Present THEN {Version(orders[o])} ELSE {})
      /\ VersionsOf(o)' = Old(log', o)
                            \cup (IF o \in Present' THEN {Version(orders'[o])} ELSE {})
  BY VersionsAre DEF VersionsOf, Version, Logged, Since
<1>2. CASE Still
  BY <1>1, <1>2 DEF Still, Present
<1>3. ASSUME NEW r \in Requests, Inserts(r), o = nextId
      PROVE  /\ o \notin Present /\ VersionsOf(o) = {}
             /\ VersionsOf(o)' = {Version(orders'[o])}
  <2>1. o \notin Present /\ o \in Present' /\ log' = log
    BY <1>3, InsertEffect
  <2>2. Old(log, o) = {}
    BY <2>1 DEF StoreInv
  <2> QED BY <1>1, <2>1, <2>2
<1>4. ASSUME NEW r \in Requests, Inserts(r), o # nextId
      PROVE  VersionsOf(o)' = VersionsOf(o) /\ orders'[o] = orders[o]
  <2>1. orders'[o] = orders[o] /\ log' = log /\ (o \in Present' <=> o \in Present)
    BY <1>4, InsertEffect
  <2> QED BY <1>1, <2>1
<1>5. ASSUME NEW c \in Consumers, Changes(c), o = work[c].order
      PROVE  VersionsOf(o)' = VersionsOf(o) \cup {Version(orders'[o])}
  <2> DEFINE l == [order |-> o, version |-> Since(orders[o]),
                   state |-> orders[o].state, due |-> orders[o].due,
                   data |-> orders[o].data, by |-> orders[o].by]
  <2>1. o \in Present /\ o \in Present' /\ log' = log \cup {l}
    BY <1>5, ChangeEffect
  <2>2. l.order = o /\ Logged(l) = Version(orders[o])
    BY DEF Logged, Version
  <2> HIDE DEF l
  <2>3. Old(log', o) = Old(log, o) \cup {Version(orders[o])}
    BY <2>1, <2>2
  <2> QED BY <1>1, <2>1, <2>3
<1>6. ASSUME NEW c \in Consumers, Changes(c), o # work[c].order
      PROVE  VersionsOf(o)' = VersionsOf(o) /\ orders'[o] = orders[o]
  <2> DEFINE q == work[c].order
             l == [order |-> q, version |-> Since(orders[q]),
                   state |-> orders[q].state, due |-> orders[q].due,
                   data |-> orders[q].data, by |-> orders[q].by]
  <2>1. orders'[o] = orders[o] /\ Present' = Present /\ log' = log \cup {l}
    BY <1>6, ChangeEffect
  <2>2. l.order # o
    BY <1>6
  <2> HIDE DEF l
  <2>3. Old(log', o) = Old(log, o)
    BY <2>1, <2>2
  <2> QED BY <1>1, <2>1, <2>3
<1> QED BY <1>2, <1>3, <1>4, <1>5, <1>6, TableSteps

LEMMA VersionsGrow ==
  ASSUME TypeInv, StoreInv, [Next]_vars, NEW o \in Orders
  PROVE  VersionsOf(o) \subseteq VersionsOf(o)'
  BY VersionSteps

-----------------------------------------------------------------------------
\* The current version is the newest one, versions differ in their dates, and a
\* version that a patch made carries the date of the patch.
VersionsInv ==
  \A o \in Orders :
    /\ o \in Present => Version(orders[o]) \in VersionsOf(o)
    /\ \A v \in VersionsOf(o) :
         /\ o \in Present /\ v.from \in Dates /\ v.from =< Since(orders[o])
         /\ v.by \in Patches => v.from = PatchOf[v.by].date
    /\ \A v, u \in VersionsOf(o) : v.from = u.from => v = u

LEMMA VersionsStay ==
  TypeInv /\ TypeInv' /\ StoreInv /\ VersionsInv /\ [Next]_vars => VersionsInv'
<1> SUFFICES ASSUME TypeInv, TypeInv', StoreInv, VersionsInv, [Next]_vars, NEW o \in Orders
             PROVE  /\ o \in Present' => Version(orders'[o]) \in VersionsOf(o)'
                    /\ \A v \in VersionsOf(o)' :
                         /\ o \in Present' /\ v.from \in Dates
                         /\ v.from =< Since(orders'[o])
                         /\ v.by \in Patches => v.from = PatchOf[v.by].date
                    /\ \A v, u \in VersionsOf(o)' : v.from = u.from => v = u
  BY DEF VersionsInv, Version, Since
<1>1. CASE VersionsOf(o)' = VersionsOf(o) /\ orders'[o] = orders[o]
  BY <1>1 DEF VersionsInv, Present
<1> DEFINE new == Version(orders'[o])
<1>2. o \in Present' => new.from = Since(orders'[o]) /\ new.from \in Dates
                        /\ new.by = orders'[o].by
  BY SinceIsDate DEF Version, TypeInv, TypeOK, Present
<1>3. ASSUME NEW r \in Requests, Inserts(r), o = nextId,
             VersionsOf(o)' = {new}
      PROVE  /\ o \in Present' => new \in VersionsOf(o)'
             /\ \A v \in VersionsOf(o)' :
                  /\ o \in Present' /\ v.from \in Dates
                  /\ v.from =< Since(orders'[o])
                  /\ v.by \in Patches => v.from = PatchOf[v.by].date
             /\ \A v, u \in VersionsOf(o)' : v.from = u.from => v = u
  <2>1. PICK now \in CreationDates : orders'[o] = ToEntity(body[r], now)
    BY <1>3, InsertEffect
  <2>2. body[r] \in BodiesOf[r] /\ o \in Present'
    BY <1>3, InsertEffect DEF TypeInv, TypeOK, CreateTypeOK
  <2>3. new.by = Null
    BY <1>2, <2>1, <2>2, EntityType
  <2>4. new.from \in Nat
    BY <1>2, <2>2, StoreAssumption DEF Dates
  <2> HIDE DEF new
  <2> QED BY <1>2, <1>3, <2>2, <2>3, <2>4, NullIsNothing
<1>4. ASSUME NEW c \in Consumers, Changes(c), o = work[c].order,
             VersionsOf(o)' = VersionsOf(o) \cup {new}
      PROVE  /\ o \in Present' => new \in VersionsOf(o)'
             /\ \A v \in VersionsOf(o)' :
                  /\ o \in Present' /\ v.from \in Dates
                  /\ v.from =< Since(orders'[o])
                  /\ v.by \in Patches => v.from = PatchOf[v.by].date
             /\ \A v, u \in VersionsOf(o)' : v.from = u.from => v = u
  <2>1. /\ o \in Present /\ o \in Present' /\ orders[o] \in OrderRow
        /\ orders'[o] = work[c].row
        /\ Since(work[c].row) = PatchOf[work[c].patch].date
        /\ PatchOf[work[c].patch].date > Since(orders[o])
        /\ Successor(cfg.aggregate, work[c].patch, work[c], orders[o])
    BY <1>4, ChangeEffect
  <2>2. new.by = work[c].patch /\ new.from = PatchOf[work[c].patch].date
    BY <1>2, <2>1 DEF Successor
  <2>3. Since(orders[o]) \in Dates /\ new.from \in Dates /\ Dates \subseteq Nat
    BY <1>2, <2>1, SinceIsDate, StoreAssumption DEF Dates
  <2>5. new.from = Since(orders'[o])
    BY <1>2, <2>1
  <2> HIDE DEF new
  <2>4. \A v \in VersionsOf(o) : v.from \in Dates /\ v.from < new.from /\ v.from # new.from
    <3> TAKE v \in VersionsOf(o)
    <3>1. v.from \in Dates /\ v.from =< Since(orders[o])
      BY DEF VersionsInv
    <3>2. \A a, b, d \in Nat : a =< b /\ d > b => a < d /\ a # d
      OBVIOUS
    <3>3. new.from > Since(orders[o])
      BY <2>1, <2>2
    <3>4. v.from \in Nat /\ Since(orders[o]) \in Nat /\ new.from \in Nat
      BY <2>3, <3>1
    <3> QED BY <3>1, <3>2, <3>3, <3>4
  <2>6. \A v \in VersionsOf(o)' :
          /\ o \in Present' /\ v.from \in Dates /\ v.from =< Since(orders'[o])
          /\ v.by \in Patches => v.from = PatchOf[v.by].date
    <3> TAKE v \in VersionsOf(o)'
    <3>1. CASE v \in VersionsOf(o)
      <4>1. v.by \in Patches => v.from = PatchOf[v.by].date
        BY <3>1 DEF VersionsInv
      <4>2. v.from \in Nat /\ new.from \in Nat /\ v.from < new.from
        BY <2>3, <2>4, <3>1
      <4> QED BY <2>1, <2>4, <2>5, <3>1, <4>1, <4>2
    <3>2. CASE v = new
      <4>1. new.from =< new.from
        <5>1. \A a \in Nat : a =< a
          OBVIOUS
        <5> QED BY <2>3, <5>1
      <4>2. new.from =< Since(orders'[o])
        BY <2>5, <4>1
      <4>3. new.from = PatchOf[new.by].date
        BY <2>2
      <4> QED BY <2>1, <2>3, <3>2, <4>2, <4>3
    <3> QED BY <1>4, <3>1, <3>2
  <2>7. \A v, u \in VersionsOf(o)' : v.from = u.from => v = u
    BY <1>4, <2>3, <2>4 DEF VersionsInv
  <2> QED BY <1>4, <2>6, <2>7
<1> HIDE DEF new
<1>5. \/ VersionsOf(o)' = VersionsOf(o) /\ orders'[o] = orders[o]
      \/ \E r \in Requests : Inserts(r) /\ o = nextId /\ VersionsOf(o)' = {new}
      \/ \E c \in Consumers : /\ Changes(c) /\ o = work[c].order
                              /\ VersionsOf(o)' = VersionsOf(o) \cup {new}
  BY VersionSteps DEF new
<1> QED BY <1>1, <1>3, <1>4, <1>5 DEF new

\* What w replaced before is what it replaces now: a new version comes last.
LEMMA ReplacesStays ==
  ASSUME TypeInv, StoreInv, VersionsInv, [Next]_vars, NEW o \in Orders,
         NEW w \in VersionsOf(o), NEW v \in VersionsOf(o)', Replaces(o, w, v)'
  PROVE  v \in VersionsOf(o) /\ Replaces(o, w, v)
<1>1. v.from < w.from
      /\ \A u \in VersionsOf(o)' : u.from =< v.from \/ u.from >= w.from
  BY DEF Replaces
<1>2. v \in VersionsOf(o)
  <2>1. SUFFICES ASSUME NEW c \in Consumers, Changes(c), o = work[c].order,
                        v = Version(orders'[o])
                 PROVE  FALSE
    BY VersionSteps
  <2>2. /\ o \in Present /\ orders[o] \in OrderRow /\ orders'[o] = work[c].row
        /\ work[c].row \in OrderRow
        /\ Since(work[c].row) > Since(orders[o])
    BY <2>1, ChangeEffect
  <2>3. /\ w.from =< Since(orders[o]) /\ w.from \in Nat /\ Since(orders[o]) \in Nat
        /\ Since(work[c].row) \in Nat
    BY <2>2, SinceIsDate, StoreAssumption DEF VersionsInv, Dates
  <2>4. v.from = Since(work[c].row)
    BY <2>1, <2>2 DEF Version
  <2>5. \A a, b, d \in Nat : a =< b /\ d > b => ~(d < a)
    OBVIOUS
  <2> QED BY <1>1, <2>2, <2>3, <2>4, <2>5
<1> QED BY <1>1, <1>2, VersionsGrow DEF Replaces

\* The version that a change replaces is the one that was current.
LEMMA ReplacedIsCurrent ==
  ASSUME TypeInv, StoreInv, VersionsInv, [Next]_vars, NEW c \in Consumers, Changes(c),
         NEW o, o = work[c].order, NEW new, new = Version(work[c].row),
         NEW v \in VersionsOf(o)', Replaces(o, new, v)'
  PROVE  v = Version(orders[o])
<1>1. /\ o \in Orders /\ o \in Present /\ orders[o] \in OrderRow
      /\ orders'[o] = work[c].row /\ work[c].row \in OrderRow
      /\ Since(work[c].row) > Since(orders[o])
  BY ChangeEffect
<1>2. PICK old : old = Version(orders[o])
  OBVIOUS
<1>3. /\ old.from = Since(orders[o]) /\ new.from = Since(work[c].row)
      /\ old.from \in Nat /\ new.from \in Nat /\ old.from < new.from
  BY <1>1, <1>2, SinceIsDate, StoreAssumption DEF Version, Dates
<1>4. /\ v.from < new.from
      /\ \A u \in VersionsOf(o)' : u.from =< v.from \/ u.from >= new.from
  BY DEF Replaces
<1>5. old \in VersionsOf(o)
  BY <1>1, <1>2 DEF VersionsInv
<1>6. old \in VersionsOf(o)'
  BY <1>1, <1>5, VersionsGrow
<1>7. \A a, b \in Nat : /\ a < b => ~(a >= b) /\ a # b
                        /\ ~(a < a)
                        /\ a =< b /\ b =< a => a = b
  OBVIOUS
<1>8. old.from =< v.from
  BY <1>3, <1>4, <1>6, <1>7
<1>9. v \in VersionsOf(o)
  <2>1. Version(orders'[o]) = new
    BY <1>1 DEF Version
  <2>2. \/ VersionsOf(o)' = VersionsOf(o)
        \/ VersionsOf(o)' = {Version(orders'[o])}
        \/ VersionsOf(o)' = VersionsOf(o) \cup {Version(orders'[o])}
    BY <1>1, VersionSteps
  <2>3. v \in VersionsOf(o) \cup {new}
    BY <2>1, <2>2
  <2>4. v # new
    BY <1>3, <1>4, <1>7
  <2> QED BY <2>3, <2>4
<1>10. v.from =< old.from /\ v.from \in Nat
  <2>1. v.from \in Dates /\ v.from =< Since(orders[o])
    BY <1>1, <1>9 DEF VersionsInv
  <2> QED BY <1>3, <2>1, StoreAssumption DEF Dates
<1>11. v.from = old.from
  BY <1>3, <1>7, <1>8, <1>10
<1>12. v = old
  BY <1>1, <1>5, <1>9, <1>11 DEF VersionsInv
<1> QED BY <1>2, <1>12

-----------------------------------------------------------------------------
\* States are earned.

EarnedStep(w, v) ==
  w.state # v.state =>
    \/ /\ PatchOf[w.by].state # Null
       /\ w.state = StatusNameToCode[PatchOf[w.by].state]
    \/ \E a \in DOMAIN cfg.aggregate :
         /\ w.state = StatusNameToCode[cfg.aggregate[a].state]
         /\ \A n \in DOMAIN w.data : w.data[n] \in cfg.aggregate[a].targets

LEMMA EarnedStays ==
  TypeInv /\ StoreInv /\ VersionsInv /\ StatesAreEarned /\ [Next]_vars => StatesAreEarned'
<1> SUFFICES ASSUME TypeInv, StoreInv, VersionsInv, StatesAreEarned, [Next]_vars,
                    NEW o \in Orders, NEW w \in VersionsOf(o)', NEW v \in VersionsOf(o)',
                    Replaces(o, w, v)'
             PROVE  EarnedStep(w, v)'
  BY DEF StatesAreEarned, EarnedStep
<1>1. CASE w \in VersionsOf(o)
  <2>1. v \in VersionsOf(o) /\ Replaces(o, w, v)
    BY <1>1, ReplacesStays
  <2>2. EarnedStep(w, v)
    BY <1>1, <2>1 DEF StatesAreEarned, EarnedStep
  <2>3. cfg' = cfg
    BY <1>1, ServingStays DEF VersionsInv, StoreInv
  <2> QED BY <2>2, <2>3 DEF EarnedStep
<1>2. ASSUME NEW c \in Consumers, Changes(c), o = work[c].order, w = Version(orders'[o])
      PROVE  EarnedStep(w, v)'
  <2>1. /\ o \in Present /\ orders'[o] = work[c].row /\ UNCHANGED cfg
        /\ Successor(cfg.aggregate, work[c].patch, work[c], orders[o])
    BY <1>2, ChangeEffect
  <2>2. w = Version(work[c].row)
    BY <1>2, <2>1
  <2>3. v = Version(orders[o])
    BY <1>2, <2>2, ReplacedIsCurrent
  <2>4. /\ w.state = work[c].row.state /\ w.by = work[c].patch /\ w.data = work[c].row.data
        /\ v.state = orders[o].state
    BY <2>1, <2>2, <2>3 DEF Version, Successor
  <2>5. w.state # v.state =>
          \/ /\ PatchOf[w.by].state # Null
             /\ w.state = StatusNameToCode[PatchOf[w.by].state]
          \/ \E a \in DOMAIN cfg.aggregate :
               /\ w.state = StatusNameToCode[cfg.aggregate[a].state]
               /\ \A n \in DOMAIN w.data : w.data[n] \in cfg.aggregate[a].targets
    BY <2>1, <2>4 DEF Successor
  <2> QED BY <2>1, <2>5 DEF EarnedStep
<1>3. CASE VersionsOf(o)' = {Version(orders'[o])}
  <2>1. w = v
    BY <1>3
  <2> QED BY <2>1 DEF EarnedStep
<1> QED BY <1>1, <1>2, <1>3, VersionSteps

-----------------------------------------------------------------------------
\* What is published.

\* The version that w made is in the tables, and what distinguishes it from the
\* one it replaced is in the flags of w.
Committed(w) ==
  /\ w.order \in Present /\ w.row \in OrderRow
  /\ w.row.changed \in Dates /\ w.row.by = w.patch
  /\ Version(w.row) \in VersionsOf(w.order)
  /\ \A v \in VersionsOf(w.order) :
       Replaces(w.order, Version(w.row), v) =>
         /\ w.row.state # v.state => w.status
         /\ w.row.data # v.data => w.numbers
         /\ w.row.due # v.due => w.due

PublishInv ==
  \A c \in Consumers :
    /\ step[c] \in {"status", "duedate"} => Committed(work[c])
    /\ step[c] = "duedate" /\ (work[c].status \/ work[c].numbers) =>
         StatusEvent(work[c]) \in events

EventsInv ==
  \A e \in events :
    /\ e.order \in Present
    /\ e.kind # "created" =>
         \E v \in VersionsOf(e.order) : v.from = e.date /\ e.state \in {Null, v.state}

\* The change that the patch m made, and that stayed, has been announced.
Told(m) ==
  \E o \in Orders : \E w \in VersionsOf(o) :
    /\ w.by = m
    /\ \A v \in VersionsOf(o) : Replaces(o, w, v) => Announced(o, w, v)

Settled(m) == m \in rejected \cup noops \/ Told(m)

SettledInv ==
  /\ \A m \in acked : Settled(m)
  /\ \A c \in Consumers : step[c] = "return" => Settled(work[c].patch)

LEMMA CommittedStays ==
  ASSUME TypeInv, StoreInv, VersionsInv, [Next]_vars, NEW w, Committed(w)
  PROVE  Committed(w)'
<1>1. PICK new : new = Version(w.row)
  OBVIOUS
<1>2. Version(w.row)' = new
  BY <1>1 DEF Version, Since
<1>3. w.order \in Orders /\ w.order \in Present' /\ new \in VersionsOf(w.order)
  BY <1>1, TablesGrow DEF Committed, Present
<1>4. new \in VersionsOf(w.order)'
  BY <1>3, VersionsGrow
<1>5. ASSUME NEW v \in VersionsOf(w.order)', Replaces(w.order, new, v)'
      PROVE  /\ w.row.state # v.state => w.status
             /\ w.row.data # v.data => w.numbers
             /\ w.row.due # v.due => w.due
  <2>1. v \in VersionsOf(w.order) /\ Replaces(w.order, new, v)
    BY <1>3, <1>5, ReplacesStays
  <2> QED BY <1>1, <2>1 DEF Committed
<1>6. \A v \in VersionsOf(w.order)' :
        Replaces(w.order, Version(w.row), v)' => Replaces(w.order, new, v)'
  BY <1>2 DEF Replaces
<1> QED BY <1>2, <1>3, <1>4, <1>5, <1>6 DEF Committed

\* The commit of a change makes it so.
LEMMA CommitCommits ==
  ASSUME TypeInv, StoreInv, VersionsInv, [Next]_vars, NEW c \in Consumers, Changes(c),
         NEW w, w = work[c]
  PROVE  Committed(w)'
<1> DEFINE o == w.order
<1>1. /\ o \in Orders /\ o \in Present /\ Present' = Present
      /\ orders'[o] = w.row /\ w.row \in OrderRow
      /\ PatchOf[w.patch].date \in Dates
      /\ Successor(cfg.aggregate, w.patch, w, orders[o])
  BY ChangeEffect
<1>2. PICK new : new = Version(w.row)
  OBVIOUS
<1>3. Version(w.row)' = new
  BY <1>2 DEF Version, Since
<1>4. new \in VersionsOf(o)'
  <2>1. Version(orders'[o]) = new
    BY <1>1, <1>2 DEF Version
  <2>2. \/ \E r \in Requests : Inserts(r) /\ o = nextId /\ o \notin Present
        \/ VersionsOf(o)' = VersionsOf(o) /\ orders'[o] = orders[o]
        \/ VersionsOf(o)' = VersionsOf(o) \cup {Version(orders'[o])}
    BY <1>1, VersionSteps
  <2>3. CASE orders'[o] = orders[o]
    <3>1. new \in VersionsOf(o)
      BY <1>1, <2>1, <2>3 DEF VersionsInv
    <3> QED BY <1>1, <3>1, VersionsGrow
  <2> QED BY <1>1, <2>1, <2>2, <2>3
<1>5. ASSUME NEW v \in VersionsOf(o)', Replaces(o, new, v)'
      PROVE  /\ w.row.state # v.state => w.status
             /\ w.row.data # v.data => w.numbers
             /\ w.row.due # v.due => w.due
  <2>1. v = Version(orders[o])
    BY <1>2, <1>5, ReplacedIsCurrent
  <2>2. v.state = orders[o].state /\ v.data = orders[o].data /\ v.due = orders[o].due
    BY <2>1 DEF Version
  <2> QED BY <1>1, <2>2 DEF Successor
<1>6. \A v \in VersionsOf(o)' : Replaces(o, Version(w.row), v)' => Replaces(o, new, v)'
  BY <1>3 DEF Replaces
<1>7. w.row.changed \in Dates /\ w.row.by = w.patch
  BY <1>1 DEF Successor
<1> QED BY <1>1, <1>3, <1>4, <1>5, <1>6, <1>7 DEF Committed

LEMMA PublishStays ==
  TypeInv /\ StoreInv /\ VersionsInv /\ PublishInv /\ [Next]_vars => PublishInv'
<1> SUFFICES ASSUME TypeInv, StoreInv, VersionsInv, PublishInv, [Next]_vars,
                    NEW c \in Consumers, NEW w, w = work'[c]
             PROVE  /\ step'[c] \in {"status", "duedate"} => Committed(w)'
                    /\ step'[c] = "duedate" /\ (w.status \/ w.numbers) =>
                         StatusEvent(w) \in events'
  BY DEF PublishInv, Committed, StatusEvent, Version, Since, Replaces
<1>1. CASE Rests(c)
  <2>1. step'[c] = step[c] /\ w = work[c] /\ events \subseteq events'
    BY <1>1, TablesGrow DEF Rests
  <2>2. step[c] \in {"status", "duedate"} => Committed(w)
    BY <2>1 DEF PublishInv
  <2> QED BY <2>1, <2>2, CommittedStays DEF PublishInv
<1>2. CASE phase = "serving" /\ Turn(c) /\ UNCHANGED <<bootVars, createVars>>
  <2>1. /\ step \in [Consumers -> {"idle", "get", "commit", "status", "duedate",
                                   "reject", "return"}]
        /\ work \in [Consumers -> Work]
    BY DEF TypeInv, TypeOK, PatchTypeOK
  <2>2. CASE CommitChange(c)
    <3>1. Changes(c) /\ w = work[c] /\ step'[c] = "status"
      BY <1>2, <2>1, <2>2 DEF CommitChange, Changes, Goto
    <3> QED BY <3>1, CommitCommits
  <2>3. CASE PublishStatus(c)
    <3>1. step[c] = "status" /\ w = work[c]
          /\ (w.status \/ w.numbers => StatusEvent(w) \in events')
      BY <2>3 DEF PublishStatus
    <3>2. Committed(w)
      BY <3>1 DEF PublishInv
    <3> QED BY <3>1, <3>2, CommittedStays
  <2>4. CASE Turn(c) /\ ~CommitChange(c) /\ ~PublishStatus(c)
    <3>1. \E to \in {"idle", "get", "commit", "reject", "return"} : Goto(c, to)
      BY <2>4 DEF Turn, Receive, ReceiveAgain, Handle, NotFound, Refuse, Panic, Apply,
                  CommitNothing, PublishDueDate, Reject, Acknowledge, GoWrong,
                  CommitUnanswered, StatementFails, PublishFails, RejectFails, Crash
    <3> QED BY <2>1, <3>1 DEF Goto
  <2> QED BY <1>2, <2>2, <2>3, <2>4
<1> QED BY <1>1, <1>2, Turns

LEMMA EventSteps ==
  ASSUME [Next]_vars, NEW e \in events' \ events
  PROVE  \/ \E r \in Requests : at[r] = "publish" /\ e = CreatedEvent(mine[r])
         \/ \E c \in Consumers : \/ step[c] = "status" /\ e = StatusEvent(work[c])
                                 \/ step[c] = "duedate" /\ e = DueDateEvent(work[c])
<1>1. CASE Boot \/ UNCHANGED vars
  BY <1>1 DEF Boot, vars, storeVars
<1>2. CASE Serve
  BY <1>2 DEF Serve, CreateNext, PanicInToModel, Invalid, CheckDocumentAccess,
              CheckExistingOrders, CreateOrderInDB, CustomerMissing, InsertRefused,
              PublishCreated, QueryFails, CreateUnanswered, PublishCreatedFails, Die,
              storeVars
<1>3. CASE Consume
  BY <1>3 DEF Consume, PatchNext, Receive, ReceiveAgain, Handle, NotFound, Refuse, Panic,
              Apply, CommitChange, CommitNothing, PublishStatus, PublishDueDate, Reject,
              Acknowledge, GoWrong, CommitUnanswered, StatementFails, PublishFails,
              RejectFails, Crash, storeVars
<1> QED BY <1>1, <1>2, <1>3 DEF Next

LEMMA EventsStay ==
  TypeInv /\ StoreInv /\ MineInv /\ VersionsInv /\ PublishInv /\ EventsInv /\ [Next]_vars
    => EventsInv'
<1> SUFFICES ASSUME TypeInv, StoreInv, MineInv, VersionsInv, PublishInv, EventsInv,
                    [Next]_vars, NEW e \in events'
             PROVE  /\ e.order \in Present'
                    /\ e.kind # "created" =>
                         \E v \in VersionsOf(e.order)' :
                           v.from = e.date /\ e.state \in {Null, v.state}
  BY DEF EventsInv
<1>1. SUFFICES /\ e.order \in Present
               /\ e.kind # "created" =>
                    \E v \in VersionsOf(e.order) :
                      v.from = e.date /\ e.state \in {Null, v.state}
  <2>1. e.order \in Orders /\ Present \subseteq Present'
    BY <1>1, TablesGrow DEF Present
  <2> QED BY <1>1, <2>1, VersionsGrow
<1>2. CASE e \in events
  BY <1>2 DEF EventsInv
<1>3. ASSUME NEW r \in Requests, at[r] = "publish", e = CreatedEvent(mine[r])
      PROVE  e.order \in Present /\ e.kind = "created"
  BY <1>3 DEF MineInv, CreatedEvent
<1>4. ASSUME NEW c \in Consumers, step[c] \in {"status", "duedate"},
             e = StatusEvent(work[c]) \/ e = DueDateEvent(work[c])
      PROVE  /\ e.order \in Present
             /\ \E v \in VersionsOf(e.order) :
                  v.from = e.date /\ e.state \in {Null, v.state}
  <2>1. Committed(work[c])
    BY <1>4 DEF PublishInv
  <2>2. /\ e.order = work[c].order /\ e.date = work[c].row.changed
        /\ e.state \in {Null, work[c].row.state}
    BY <1>4 DEF StatusEvent, DueDateEvent
  <2>3. work[c].row.changed # Null
    BY <2>1, StoreAssumption DEF Committed, Dates
  <2>4. /\ Version(work[c].row).from = work[c].row.changed
        /\ Version(work[c].row).state = work[c].row.state
    BY <2>3 DEF Version, Since
  <2> QED BY <2>1, <2>2, <2>4 DEF Committed
<1> QED BY <1>2, <1>3, <1>4, EventSteps

-----------------------------------------------------------------------------
\* What is acknowledged.

LEMMA ToldStays ==
  ASSUME TypeInv, StoreInv, VersionsInv, [Next]_vars, NEW m, Told(m)
  PROVE  Told(m)'
<1>1. PICK o \in Orders : \E w \in VersionsOf(o) :
        /\ w.by = m
        /\ \A v \in VersionsOf(o) : Replaces(o, w, v) => Announced(o, w, v)
  BY DEF Told
<1>2. PICK w \in VersionsOf(o) :
        /\ w.by = m
        /\ \A v \in VersionsOf(o) : Replaces(o, w, v) => Announced(o, w, v)
  BY <1>1
<1>3. w \in VersionsOf(o)' /\ events \subseteq events'
  BY VersionsGrow, TablesGrow
<1>4. ASSUME NEW v \in VersionsOf(o)', Replaces(o, w, v)' PROVE Announced(o, w, v)'
  <2>1. v \in VersionsOf(o) /\ Replaces(o, w, v)
    BY <1>4, ReplacesStays
  <2>2. Announced(o, w, v)
    BY <1>2, <2>1
  <2> QED BY <1>3, <2>2 DEF Announced
<1> QED BY <1>2, <1>3, <1>4 DEF Told

LEMMA SettledStays ==
  ASSUME TypeInv, StoreInv, VersionsInv, [Next]_vars, NEW m, Settled(m)
  PROVE  Settled(m)'
<1>1. rejected \subseteq rejected' /\ noops \subseteq noops'
  <2>1. CASE Boot \/ Serve \/ UNCHANGED vars
    BY <2>1 DEF Boot, Serve, vars, patchVars
  <2>2. CASE Consume
    BY <2>2 DEF Consume, PatchNext, Receive, ReceiveAgain, Handle, NotFound, Refuse, Panic,
                Apply, CommitChange, CommitNothing, PublishStatus, PublishDueDate, Reject,
                Acknowledge, GoWrong, CommitUnanswered, StatementFails, PublishFails,
                RejectFails, Crash
  <2> QED BY <2>1, <2>2 DEF Next
<1> QED BY <1>1, ToldStays DEF Settled

\* The second event is the last thing that was missing.
LEMMA PublishedIsTold ==
  ASSUME TypeInv, StoreInv, VersionsInv, PublishInv, [Next]_vars,
         NEW c \in Consumers, PublishDueDate(c), NEW w, w = work[c]
  PROVE  Told(w.patch)'
<1> DEFINE o == w.order
<1>1. /\ Committed(w) /\ step[c] = "duedate"
      /\ w.status \/ w.numbers => StatusEvent(w) \in events'
      /\ w.due => DueDateEvent(w) \in events'
  BY TablesGrow DEF PublishDueDate, PublishInv
<1>2. PICK new : new = Version(w.row)
  OBVIOUS
<1>3. Committed(w)' /\ Version(w.row)' = new
  BY <1>1, <1>2, CommittedStays DEF Version, Since
<1>4. w.row.changed # Null
  BY <1>1, StoreAssumption DEF Committed, Dates
<1>5. /\ new.by = w.patch /\ new.from = w.row.changed /\ new.state = w.row.state
      /\ new.data = w.row.data /\ new.due = w.row.due
  BY <1>1, <1>2, <1>4 DEF Version, Since, Committed
<1>6. o \in Orders /\ new \in VersionsOf(o)'
  BY <1>1, <1>3 DEF Committed, Present
<1>7. ASSUME NEW v \in VersionsOf(o)', Replaces(o, new, v)'
      PROVE  Announced(o, new, v)'
  <2>1. /\ w.row.state # v.state => w.status
        /\ w.row.data # v.data => w.numbers
        /\ w.row.due # v.due => w.due
    BY <1>3, <1>7 DEF Committed, Replaces
  <2>2. new.state # v.state =>
          [kind |-> "status", order |-> o, date |-> new.from, state |-> new.state]
            \in events'
    BY <1>1, <1>5, <2>1 DEF StatusEvent
  <2>3. new.data # v.data =>
          \E e \in events' : e.kind = "status" /\ e.order = o /\ e.date = new.from
    <3>1. /\ StatusEvent(w).kind = "status" /\ StatusEvent(w).order = o
          /\ StatusEvent(w).date = new.from
      BY <1>5 DEF StatusEvent
    <3> QED BY <1>1, <1>5, <2>1, <3>1
  <2>4. new.due # v.due =>
          \E e \in events' : e.kind = "duedate" /\ e.order = o /\ e.date = new.from
    <3>1. /\ DueDateEvent(w).kind = "duedate" /\ DueDateEvent(w).order = o
          /\ DueDateEvent(w).date = new.from
      BY <1>5 DEF DueDateEvent
    <3> QED BY <1>1, <1>5, <2>1, <3>1
  <2> QED BY <2>2, <2>3, <2>4 DEF Announced
<1> QED BY <1>5, <1>6, <1>7 DEF Told

LEMMA SettledInvStays ==
  TypeInv /\ StoreInv /\ VersionsInv /\ PublishInv /\ SettledInv /\ [Next]_vars
    => SettledInv'
<1> SUFFICES ASSUME TypeInv, StoreInv, VersionsInv, PublishInv, SettledInv, [Next]_vars
             PROVE  SettledInv'
  OBVIOUS
<1>1. /\ step \in [Consumers -> {"idle", "get", "commit", "status", "duedate",
                                 "reject", "return"}]
      /\ work \in [Consumers -> Work]
  BY DEF TypeInv, TypeOK, PatchTypeOK
<1>2. ASSUME NEW m \in acked' PROVE Settled(m)'
  <2>1. m \in acked \/ \E c \in Consumers : step[c] = "return" /\ m = work[c].patch
    <3>1. CASE Boot \/ Serve \/ UNCHANGED vars
      BY <1>2, <3>1 DEF Boot, Serve, vars, patchVars
    <3>2. CASE Consume
      BY <1>2, <3>2 DEF Consume, PatchNext, Receive, ReceiveAgain, Handle, NotFound,
                  Refuse, Panic, Apply, CommitChange, CommitNothing, PublishStatus,
                  PublishDueDate, Reject, Acknowledge, GoWrong, CommitUnanswered,
                  StatementFails, PublishFails, RejectFails, Crash
    <3> QED BY <3>1, <3>2 DEF Next
  <2>2. Settled(m)
    BY <2>1 DEF SettledInv
  <2> QED BY <2>2, SettledStays
<1>3. ASSUME NEW c \in Consumers, step'[c] = "return", NEW m, m = work'[c].patch
      PROVE  Settled(m)'
  <2>1. CASE Rests(c)
    <3>1. Settled(m)
      BY <1>3, <2>1 DEF Rests, SettledInv
    <3> QED BY <3>1, SettledStays
  <2>2. CASE phase = "serving" /\ Turn(c)
    <3>1. CASE CommitNothing(c)
      BY <1>3, <3>1 DEF CommitNothing, Settled
    <3>2. CASE PublishDueDate(c)
      <4>1. m = work[c].patch
        BY <1>3, <3>2 DEF PublishDueDate
      <4> QED BY <3>2, <4>1, PublishedIsTold DEF Settled
    <3>3. CASE Reject(c)
      BY <1>3, <3>3 DEF Reject, Settled
    <3>4. CASE Turn(c) /\ ~CommitNothing(c) /\ ~PublishDueDate(c) /\ ~Reject(c)
      <4>1. \E to \in {"idle", "get", "commit", "status", "duedate", "reject"} : Goto(c, to)
        BY <3>4 DEF Turn, Receive, ReceiveAgain, Handle, NotFound, Refuse, Panic, Apply,
                    CommitChange, PublishStatus, Acknowledge, GoWrong,
                    CommitUnanswered, StatementFails, PublishFails, RejectFails, Crash
      <4> QED BY <1>1, <1>3, <4>1 DEF Goto
    <3> QED BY <2>2, <3>1, <3>2, <3>3, <3>4
  <2> QED BY <2>1, <2>2, Turns
<1>4. \A c \in Consumers : step'[c] = "return" => Settled(work[c].patch)'
  BY <1>3 DEF Settled, Told
<1> QED BY <1>2, <1>4 DEF SettledInv

PatchInv == VersionsInv /\ StatesAreEarned /\ PublishInv /\ EventsInv /\ SettledInv

LEMMA PatchInvInit == Init => PatchInv
<1> SUFFICES ASSUME Init PROVE PatchInv
  OBVIOUS
<1>1. Present = {} /\ events = {} /\ acked = {} /\ \A c \in Consumers : step[c] = "idle"
  BY DEF Init, StoreInit, PatchInit, Present
<1>2. \A o \in Orders : VersionsOf(o) = {}
  BY <1>1 DEF Init, StoreInit, VersionsOf
<1> QED BY <1>1, <1>2
        DEF PatchInv, VersionsInv, StatesAreEarned, PublishInv, EventsInv, SettledInv

LEMMA PatchInvStep ==
  TypeInv /\ TypeInv' /\ StoreInv /\ CreationInv /\ PatchInv /\ [Next]_vars => PatchInv'
  BY VersionsStay, EarnedStays, PublishStays, EventsStay, SettledInvStays
     DEF PatchInv, CreationInv

LEMMA Patched == Spec => [](TypeInv /\ PatchInv)
  BY Stored, Created, PatchInvInit, PatchInvStep, PTL DEF Spec

\* A patch that was acknowledged is in the database under its own date, or it
\* changed nothing, or it is in the rejected topic, whatever failed and however
\* often it was delivered, to any number of consumers (message_processor.go:47-61).
THEOREM PatchesKept == Spec => []NoPatchLost
<1>1. ASSUME TypeInv, PatchInv PROVE NoPatchLost
  <2> SUFFICES ASSUME NEW m \in acked, m \notin rejected \cup noops
               PROVE  \E o \in Orders : \E v \in VersionsOf(o) :
                        v.by = m /\ v.from = PatchOf[m].date
    BY DEF NoPatchLost
  <2>1. Told(m) /\ m \in Patches
    BY <1>1 DEF PatchInv, SettledInv, Settled, TypeInv, TypeOK, PatchTypeOK
  <2> QED BY <1>1, <2>1 DEF Told, PatchInv, VersionsInv
<1> QED BY <1>1, Patched, PTL

\* An acknowledged patch with a change that was not announced, after a crash, a
\* COMMIT without an answer or a failing publish, is in the rejected topic, or
\* another delivery of it changed nothing, or another order
\* (portin_update_order.go:63-84).
THEOREM UnannouncedRejected == Spec => []UnannouncedIsRejected
<1>1. ASSUME TypeInv, PatchInv PROVE UnannouncedIsRejected
  <2> SUFFICES ASSUME NEW o \in Orders, NEW w \in VersionsOf(o), NEW v \in VersionsOf(o),
                      Replaces(o, w, v), w.by \in acked \ (rejected \cup noops),
                      \A q \in Orders \ {o} : \A u \in VersionsOf(q) : u.by # w.by
               PROVE  Announced(o, w, v)
    BY DEF UnannouncedIsRejected
  <2>1. Told(w.by) /\ w.by \in Patches
    BY <1>1 DEF PatchInv, SettledInv, Settled, TypeInv, TypeOK, PatchTypeOK
  <2>2. PICK q \in Orders : \E u \in VersionsOf(q) :
          /\ u.by = w.by
          /\ \A x \in VersionsOf(q) : Replaces(q, u, x) => Announced(q, u, x)
    BY <2>1 DEF Told
  <2>3. q = o
    BY <2>2
  <2>4. PICK u \in VersionsOf(o) :
          /\ u.by = w.by
          /\ \A x \in VersionsOf(o) : Replaces(o, u, x) => Announced(o, u, x)
    BY <2>2, <2>3
  <2>5. u.from = w.from
    BY <1>1, <2>1, <2>4 DEF PatchInv, VersionsInv
  <2>6. u = w
    BY <1>1, <2>5 DEF PatchInv, VersionsInv
  <2> QED BY <2>4, <2>6
<1> QED BY <1>1, Patched, PTL

\* An event is never ahead of the database: it tells of a version that exists,
\* with the state that version has (portin_update_order.go:67-84).
THEOREM EventsHold == Spec => []EventsTellCommitted
<1>1. PatchInv => EventsTellCommitted
  BY DEF PatchInv, EventsInv, EventsTellCommitted
<1> QED BY <1>1, Patched, PTL

\* The state of an order changes only to one that the patch names or that all
\* its numbers have earned by then, for every configuration the service accepts
\* (portin_update_order.go:135-177, 275-305).
THEOREM StatesEarned == Spec => []StatesAreEarned
<1>1. PatchInv => StatesAreEarned
  BY DEF PatchInv
<1> QED BY <1>1, Patched, PTL

-----------------------------------------------------------------------------
\* The tables change as the datamart's model of its source allows.

LEMMA NewestExists ==
  ASSUME NEW R \in SUBSET Dates
  PROVE  /\ NewestOf(R) \in R \cup {0} /\ NewestOf(R) \in 0..MaxDate
         /\ \A e \in R : e =< NewestOf(R)
<1>1. MaxDate \in Nat /\ Dates = 1..MaxDate
  BY StoreAssumption DEF Dates
<1>2. R \cup {0} \in SUBSET Nat /\ R \cup {0} # {} /\ \A x \in R \cup {0} : x =< MaxDate
  BY <1>1
<1>3. PICK d \in R \cup {0} : \A e \in R \cup {0} : e =< d
  BY <1>1, <1>2, LargestOf
<1>4. NewestOf(R) \in R \cup {0} /\ \A e \in R : e =< NewestOf(R)
  BY <1>3 DEF NewestOf
<1>5. \A x \in R \cup {0} : x \in 0..MaxDate
  BY <1>1
<1> QED BY <1>4, <1>5

LEMMA NewestAfter ==
  ASSUME NEW R \in SUBSET Dates, NEW d \in Dates
  PROVE  NewestOf(R \cup {d}) = IF d > NewestOf(R) THEN d ELSE NewestOf(R)
<1>1. PICK a : a = NewestOf(R)
  OBVIOUS
<1>2. PICK b : b = NewestOf(R \cup {d})
  OBVIOUS
<1>3. /\ a \in R \cup {0} /\ a \in 0..MaxDate /\ \A e \in R : e =< a
      /\ b \in R \cup {d} \cup {0} /\ b \in 0..MaxDate /\ \A e \in R \cup {d} : e =< b
  <2>1. R \cup {d} \in SUBSET Dates
    OBVIOUS
  <2> QED BY <1>1, <1>2, <2>1, NewestExists
<1>4. MaxDate \in Nat /\ Dates = 1..MaxDate
  BY StoreAssumption DEF Dates
<1>5. a =< b
  BY <1>3, <1>4
<1>6. d =< b
  BY <1>3
<1>7. b =< a \/ b = d
  BY <1>3, <1>4
<1>8. b = IF d > a THEN d ELSE a
  BY <1>3, <1>4, <1>5, <1>6, <1>7
<1> QED BY <1>1, <1>2, <1>8

SourceRow(row) ==
  IF row = Null THEN Null
  ELSE [state |-> row.state, created |-> row.created, changed |-> row.changed]

SourceOrders == [o \in Orders |-> SourceRow(orders[o])]

SourceLog ==
  {[order |-> l.order, state |-> l.state, version |-> l.version] : l \in log}

LEMMA RecordedDates ==
  TypeInv /\ StoreInv => Recorded \in SUBSET Dates
<1> SUFFICES ASSUME TypeInv, StoreInv, NEW d \in Recorded PROVE d \in Dates
  OBVIOUS
<1>1. CASE \E o \in Present : d = Since(orders[o])
  BY <1>1, SinceIsDate DEF Present, TypeInv, TypeOK
<1>2. CASE \E l \in log : d = l.version
  BY <1>2 DEF StoreInv, LogRow
<1> QED BY <1>1, <1>2 DEF Recorded

LEMMA InsertIsCreate ==
  ASSUME TypeInv, StoreInv, NEW r \in Requests, Inserts(r)
  PROVE  Source!SrcNext
<1> DEFINE o == nextId
<1>1. /\ o \in Orders /\ o \notin Present /\ Present' = Present \cup {o}
      /\ \A q \in Orders \ {o} : orders'[q] = orders[q]
      /\ orders'[o] \in OrderRow
      /\ UNCHANGED log
  BY InsertEffect
<1>2. PICK now \in CreationDates : orders'[o] = ToEntity(body[r], now)
  BY InsertEffect
<1>3. body[r] \in BodiesOf[r] /\ now \in Dates
  BY CreateAssumption DEF TypeInv, TypeOK, CreateTypeOK
<1>4. orders'[o].state = 0 /\ orders'[o].created = now /\ orders'[o].changed = Null
  BY <1>2, <1>3, EntityType
<1>5. orders[o] = Null /\ orders'[o] # Null
  BY <1>1, NullIsNothing DEF Present
<1>6. SourceOrders' = [SourceOrders EXCEPT ![o] =
                         [state |-> 0, created |-> now, changed |-> Null]]
  <2>1. \A q \in Orders : SourceOrders'[q] =
          IF q = o THEN [state |-> 0, created |-> now, changed |-> Null]
          ELSE SourceOrders[q]
    BY <1>1, <1>4, <1>5 DEF SourceOrders, SourceRow
  <2> QED BY <1>1, <2>1 DEF SourceOrders
<1>7. Recorded' = Recorded \cup {now}
  <2>1. Since(orders'[o])  = now
    BY <1>4 DEF Since
  <2>2. {Since(orders'[q]) : q \in Present'} = {Since(orders[q]) : q \in Present} \cup {now}
    <3>1. \A q \in Present : q # o /\ q \in Orders /\ Since(orders'[q]) = Since(orders[q])
      BY <1>1 DEF Present
    <3> QED BY <1>1, <2>1, <3>1
  <2>3. Recorded = {Since(orders[q]) : q \in Present} \cup {l.version : l \in log}
    BY DEF Recorded
  <2>4. Recorded' = {Since(orders'[q]) : q \in Present'} \cup {l.version : l \in log'}
    BY DEF Recorded, Since
  <2> QED BY <1>1, <2>2, <2>3, <2>4
<1>8. PICK n : n = NewestOf(Recorded)
  OBVIOUS
<1>9. /\ NewestOf(Recorded)' = IF now > n THEN now ELSE n
      /\ now >= n - MaxDate
  <2>1. Recorded \in SUBSET Dates
    BY RecordedDates
  <2>2. NewestOf(Recorded)' = NewestOf(Recorded \cup {now})
    BY <1>7 DEF NewestOf
  <2>3. n \in 0..MaxDate /\ now \in 1..MaxDate /\ MaxDate \in Nat
    BY <1>3, <1>8, <2>1, NewestExists, StoreAssumption DEF Dates
  <2> QED BY <1>3, <1>8, <2>1, <2>2, <2>3, NewestAfter
<1>10. Source!CreateOrder(o, now)
  <2>1. Source!EventDate(now)
    BY <1>8, <1>9 DEF Source!EventDate
  <2>2. Source!Record(now)
    BY <1>8, <1>9 DEF Source!Record
  <2> QED BY <1>1, <1>5, <1>6, <2>1, <2>2 DEF Source!CreateOrder, SourceOrders, SourceRow
<1> QED BY <1>1, <1>3, <1>10 DEF Source!SrcNext, Source!Dates, Dates

LEMMA ChangeIsPatch ==
  ASSUME TypeInv, StoreInv, NEW c \in Consumers, Changes(c)
  PROVE  Source!SrcNext
<1> DEFINE w == work[c]
           l == [order |-> work[c].order, version |-> Since(orders[work[c].order]),
                 state |-> orders[work[c].order].state,
                 due |-> orders[work[c].order].due,
                 data |-> orders[work[c].order].data, by |-> orders[work[c].order].by]
<1>1. PICK o : o = w.order
  OBVIOUS
<1>2. PICK d : d = PatchOf[w.patch].date
  OBVIOUS
<1>3. PICK s : s = w.row.state
  OBVIOUS
<1>4. /\ o \in Orders /\ o \in Present /\ Present' = Present
      /\ orders[o] \in OrderRow /\ orders'[o] = w.row /\ w.row \in OrderRow
      /\ \A q \in Orders \ {o} : orders'[q] = orders[q]
      /\ log' = log \cup {l}
      /\ d \in Dates /\ d > Since(orders[o])
      /\ w.row.changed = d /\ Since(w.row) = d
      /\ Successor(cfg.aggregate, w.patch, w, orders[o])
  BY <1>1, <1>2, ChangeEffect
<1>5. /\ l.order = o /\ l.version = Since(orders[o]) /\ l.state = orders[o].state
  BY <1>1
<1>6. w.row.created = orders[o].created /\ s \in StateCodes
  BY <1>3, <1>4 DEF Successor, OrderRow
<1>7. orders[o] # Null /\ w.row # Null
  BY <1>4, NullIsNothing
<1> HIDE DEF l, w
<1>8. SourceOrders' = [SourceOrders EXCEPT ![o].state = s, ![o].changed = d]
  <2>1. SourceOrders'[o] = [state |-> s, created |-> orders[o].created, changed |-> d]
    BY <1>3, <1>4, <1>6, <1>7 DEF SourceOrders, SourceRow
  <2>2. SourceOrders[o] = [state |-> orders[o].state, created |-> orders[o].created,
                           changed |-> orders[o].changed]
    BY <1>4, <1>7 DEF SourceOrders, SourceRow
  <2>3. \A q \in Orders \ {o} : SourceOrders'[q] = SourceOrders[q]
    BY <1>4 DEF SourceOrders, SourceRow
  <2>4. SourceOrders' = [SourceOrders EXCEPT ![o] =
                           [state |-> s, created |-> orders[o].created, changed |-> d]]
    BY <1>4, <2>1, <2>3 DEF SourceOrders
  <2>5. [SourceOrders EXCEPT ![o].state = s, ![o].changed = d]
        = [SourceOrders EXCEPT ![o] =
             [state |-> s, created |-> orders[o].created, changed |-> d]]
    <3>1. PICK F : F = SourceOrders
      OBVIOUS
    <3>2. F = [q \in Orders |-> F[q]] /\ o \in Orders
      BY <1>4, <3>1 DEF SourceOrders
    <3>3. [F EXCEPT ![o].state = s, ![o].changed = d]
          = [F EXCEPT ![o] = [F[o] EXCEPT !.state = s, !.changed = d]]
      BY <3>2
    <3>4. [F[o] EXCEPT !.state = s, !.changed = d]
          = [state |-> s, created |-> orders[o].created, changed |-> d]
      <4>1. F[o] \in [state: StateCodes, created: Dates, changed: Dates \cup {Null}]
        BY <1>4, <2>2, <3>1 DEF OrderRow
      <4>2. F[o].created = orders[o].created
        BY <2>2, <3>1
      <4>3. PICK x : x = [F[o] EXCEPT !.state = s, !.changed = d]
        OBVIOUS
      <4>4. /\ x \in [state: StateCodes, created: Dates, changed: Dates \cup {Null}]
            /\ x.state = s /\ x.created = F[o].created /\ x.changed = d
        BY <1>4, <1>6, <4>1, <4>3
      <4>5. x = [state |-> x.state, created |-> x.created, changed |-> x.changed]
        BY <4>4
      <4> QED BY <4>2, <4>3, <4>4, <4>5
    <3> QED BY <3>1, <3>3, <3>4
  <2> QED BY <2>4, <2>5
<1>9. SourceLog' = SourceLog \cup {[order |-> o, state |-> orders[o].state,
                                    version |-> Since(orders[o])]}
  BY <1>4, <1>5 DEF SourceLog
<1>10. Recorded' = Recorded \cup {d}
  <2>1. \A q \in Present : q \in Orders
    BY DEF Present
  <2>2. Recorded' = {Since(orders'[q]) : q \in Present'} \cup {k.version : k \in log'}
    BY DEF Recorded, Since
  <2>3. {k.version : k \in log'} = {k.version : k \in log} \cup {Since(orders[o])}
    BY <1>4, <1>5
  <2>4. {Since(orders'[q]) : q \in Present'} \cup {Since(orders[o])}
        = {Since(orders[q]) : q \in Present} \cup {d}
    <3>1. \A q \in Present : q # o => Since(orders'[q]) = Since(orders[q])
      BY <1>4, <2>1
    <3>2. Since(orders'[o]) = d
      BY <1>4
    <3> QED BY <1>4, <3>1, <3>2
  <2> QED BY <2>2, <2>3, <2>4 DEF Recorded
<1>11. PICK n : n = NewestOf(Recorded)
  OBVIOUS
<1>12. /\ NewestOf(Recorded)' = IF d > n THEN d ELSE n
       /\ d >= n - MaxDate
  <2>1. Recorded \in SUBSET Dates
    BY RecordedDates
  <2>2. NewestOf(Recorded)' = NewestOf(Recorded \cup {d})
    BY <1>10 DEF NewestOf
  <2>3. n \in 0..MaxDate /\ d \in 1..MaxDate /\ MaxDate \in Nat
    BY <1>4, <1>11, <2>1, NewestExists, StoreAssumption DEF Dates
  <2> QED BY <1>4, <1>11, <2>1, <2>2, <2>3, NewestAfter
<1>13. Source!PatchOrder(o, d, s)
  <2>1. Source!EventDate(d)
    BY <1>11, <1>12 DEF Source!EventDate
  <2>2. Source!Record(d)
    BY <1>11, <1>12 DEF Source!Record
  <2>3. SourceOrders[o] = [state |-> orders[o].state, created |-> orders[o].created,
                           changed |-> orders[o].changed]
    BY <1>4, <1>7 DEF SourceOrders, SourceRow
  <2>4. SourceOrders[o].state = orders[o].state /\ Source!Since(SourceOrders[o]) = Since(orders[o])
    BY <2>3 DEF Source!Since, Since
  <2>5. o \in Source!Present
    <3>1. SourceOrders[o] # Null
      <4>1. SourceOrders[o] \in [state: StateCodes, created: Dates,
                                 changed: Dates \cup {Null}]
        BY <1>4, <2>3 DEF OrderRow
      <4> QED BY <4>1, SourceAssumption DEF Source!OrderRow, Source!Dates, Dates
    <3> QED BY <1>4, <3>1 DEF Source!Present, SourceOrders, SourceRow
  <2> QED BY <1>4, <1>8, <1>9, <2>1, <2>2, <2>4, <2>5
          DEF Source!PatchOrder, SourceOrders, SourceRow, SourceLog
<1> QED BY <1>4, <1>6, <1>13 DEF Source!SrcNext, Source!Dates, Dates

\* Whatever portin-requests does is what the datamart's model of the source
\* allows: an order appears in state 0 without a changing date, and each change
\* carries a later date than the last one and logs exactly the version it
\* replaced (portin_order_repository.go:477, the trigger orders_bru).
THEOREM SourceImplemented == Spec => ImplementsOrdersDB
<1>1. Init => Source!SrcInit
  <2> SUFFICES ASSUME Init PROVE Source!SrcInit
    OBVIOUS
  <2>1. Present = {} /\ log = {} /\ \A o \in Orders : orders[o] = Null
    BY DEF Init, StoreInit, Present
  <2>2. Recorded = {}
    BY <2>1 DEF Recorded
  <2>3. NewestOf(Recorded) = 0
    <3>1. Recorded \in SUBSET Dates
      BY <2>2
    <3> QED BY <2>2, <3>1, NewestExists
  <2> QED BY <2>1, <2>3 DEF Source!SrcInit
<1>2. TypeInv /\ StoreInv /\ [Next]_vars => UNCHANGED <<orders, log>> \/ Source!SrcNext
  BY TableSteps, InsertIsCreate, ChangeIsPatch DEF Still
<1>3. TypeInv /\ StoreInv /\ [Next]_vars
        => [UNCHANGED <<orders, log>> \/ Source!SrcNext]_(Source!srcVars)
  BY <1>2
<1> QED BY <1>1, <1>3, Stored, PTL DEF Spec, ImplementsOrdersDB
=============================================================================
