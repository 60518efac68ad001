------------------------ MODULE PortInRequestsProofs ------------------------
(***************************************************************************)
(* The types of portin-requests and what its creations of orders keep, for *)
(* any requests, consumers, patches and faults.                            *)
(***************************************************************************)
EXTENDS StartupProofs, SequenceTheorems

-----------------------------------------------------------------------------
\* What the handler of a patch computes.

LEMMA LargestIndex ==
  ASSUME NEW T, NEW n \in Nat, T \subseteq 1..n, T # {}
  PROVE  Max(T) \in T
<1>1. T \in SUBSET Nat /\ \A x \in T : x =< n
  OBVIOUS
<1>2. PICK x \in T : \A y \in T : y =< x
  BY <1>1, LargestOf
<1>3. \A y \in T : x >= y
  BY <1>1, <1>2
<1> QED BY <1>3 DEF Max

LEMMA LastEntry ==
  ASSUME NEW nums \in Seq([msisdn: Msisdns, code: NumberStatuses]), NEW n,
         Entries(n, nums) # {}
  PROVE  Max(Entries(n, nums)) \in DOMAIN nums
<1>1. /\ Len(nums) \in Nat /\ DOMAIN nums = 1..Len(nums)
      /\ Entries(n, nums) \subseteq DOMAIN nums
  BY LenProperties DEF Entries
<1>2. Max(Entries(n, nums)) \in Entries(n, nums)
  BY <1>1, LargestIndex
<1> QED BY <1>1, <1>2

LEMMA FirstEntry ==
  ASSUME NEW T, NEW n \in Nat, T \subseteq 1..n, T # {}
  PROVE  Min(T) \in T
<1>1. PICK x \in T : \A y \in T : x =< y
  BY SmallestOf
<1> QED BY <1>1 DEF Min

LEMMA EntryOf ==
  ASSUME NEW nums \in Seq([msisdn: Msisdns, code: NumberStatuses]),
         NEW i \in DOMAIN nums
  PROVE  nums[i].msisdn \in Msisdns /\ nums[i].code \in NumberStatuses
<1>1. DOMAIN nums = 1..Len(nums)
  BY LenProperties
<1>2. nums[i] \in [msisdn: Msisdns, code: NumberStatuses]
  BY <1>1, ElementOfSeq
<1> QED BY <1>2

\* The numbers of an order stay the same; only their states change.
LEMMA NumbersApplied ==
  ASSUME NEW data \in NumberStates,
         NEW nums \in Seq([msisdn: Msisdns, code: NumberStatuses])
  PROVE  LET res == ApplyNumbers(data, nums)
         IN  /\ res.data \in NumberStates /\ DOMAIN res.data = DOMAIN data
             /\ res.changed \in BOOLEAN
             /\ ~res.changed => res.data = data
<1> DEFINE res == ApplyNumbers(data, nums)
<1>1. PICK S \in SUBSET Msisdns : data \in [S -> NumberStatuses \cup {Null}]
  BY DEF NumberStates
<1>2. \A n \in S : Entries(n, nums) # {} =>
        nums[Max(Entries(n, nums))].code \in NumberStatuses
  BY LastEntry, EntryOf
<1>3. res.data \in [S -> NumberStatuses \cup {Null}]
  BY <1>1, <1>2 DEF ApplyNumbers
<1>4. ASSUME ~res.changed PROVE res.data = data
  <2>1. ASSUME NEW n \in S, Entries(n, nums) # {}
        PROVE  nums[Max(Entries(n, nums))].code = data[n]
    <3>1. Max(Entries(n, nums)) \in DOMAIN nums
      BY <2>1, LastEntry
    <3>2. nums[Max(Entries(n, nums))].msisdn = n
      <4>1. /\ Len(nums) \in Nat /\ Entries(n, nums) \subseteq 1..Len(nums)
        BY LenProperties DEF Entries
      <4>2. Max(Entries(n, nums)) \in Entries(n, nums)
        BY <2>1, <4>1, LargestIndex
      <4> QED BY <4>2 DEF Entries
    <3> QED BY <1>1, <1>4, <3>1, <3>2 DEF ApplyNumbers
  <2> QED BY <1>1, <2>1 DEF ApplyNumbers
<1>5. res.changed \in BOOLEAN
  BY DEF ApplyNumbers
<1> QED BY <1>1, <1>3, <1>4, <1>5 DEF NumberStates

LEMMA AggregateKnown ==
  ASSUME StartInv, phase = "serving",
         NEW data, NEW nums \in Seq([msisdn: Msisdns, code: NumberStatuses]),
         Aggregating(data, nums) # {}
  PROVE  \E a \in DOMAIN cfg.aggregate :
           /\ Aggregate(data, nums) = cfg.aggregate[a]
           /\ cfg.aggregate[a].state \in CodeNames
<1>1. /\ Len(nums) \in Nat /\ Aggregating(data, nums) \subseteq 1..Len(nums)
  BY LenProperties DEF Aggregating
<1>2. Min(Aggregating(data, nums)) \in Aggregating(data, nums)
  BY <1>1, FirstEntry
<1> QED BY <1>2 DEF Aggregating, Aggregate, StartInv, Usable, AggregateIsValid

-----------------------------------------------------------------------------
\* What the new version of an order has to do with the one it replaces.

Successor(aggregate, m, w, row) ==
  LET p == PatchOf[m]
  IN  /\ w.row.created = row.created /\ w.row.changed = p.date /\ w.row.by = m
      /\ DOMAIN w.row.data = DOMAIN row.data
      /\ w.row.state # row.state => w.status
      /\ w.row.data # row.data => w.numbers
      /\ w.row.due # row.due => w.due
      /\ w.row.state # row.state =>
           \/ p.state # Null /\ w.row.state = StatusNameToCode[p.state]
           \/ \E a \in DOMAIN aggregate :
                /\ w.row.state = StatusNameToCode[aggregate[a].state]
                /\ \A n \in DOMAIN w.row.data : w.row.data[n] \in aggregate[a].targets

LEMMA FormIsSuccessor ==
  ASSUME StartInv, phase = "serving",
         NEW m \in Patches, NEW o \in Orders, NEW row \in OrderRow,
         ~Unappliable(PatchOf[m], row), ~Panics(PatchOf[m], row)
  PROVE  LET w == Form(m, o, row)
         IN  /\ w \in Work /\ w.patch = m /\ w.order = o /\ w.row \in OrderRow
             /\ Successor(cfg.aggregate, m, w, row)
<1> DEFINE p == PatchOf[m]
           nums == ApplyNumbers(row.data, p.numbers)
           w == Form(m, o, row)
<1>1. /\ p \in PortInPatchMessage
      /\ row.state \in StateCodes /\ row.created \in Dates
      /\ row.due \in Int \cup {Null} /\ row.cdb \in Int \cup {Null}
      /\ row.data \in NumberStates
  BY PatchAssumption DEF OrderRow
<1>2. /\ p.date \in Dates \cup {Null} /\ p.due \in Int \cup {Null}
      /\ p.cdb \in Int \cup {Null, NotANumber}
      /\ p.numbers \in Seq([msisdn: Msisdns, code: NumberStatuses])
  BY <1>1 DEF PortInPatchMessage
<1>3. /\ nums.data \in NumberStates /\ DOMAIN nums.data = DOMAIN row.data
      /\ nums.changed \in BOOLEAN /\ (~nums.changed => nums.data = row.data)
  BY <1>1, <1>2, NumbersApplied
<1>4. /\ p.state # Null => p.state \in CodeNames
      /\ row.cdb = Null => p.cdb \in Int \cup {Null}
  BY <1>2 DEF Unappliable
<1>5. CodeName(row) \in CodeNames /\ StatusNameToCode[CodeName(row)] = row.state
  BY <1>1, NamesAndCodes DEF CodeName
<1>6. Aggregated(p, row) \in BOOLEAN
  BY DEF Aggregated
<1>7. Aggregated(p, row) =>
        \E a \in DOMAIN cfg.aggregate :
          /\ NewState(p, row) = cfg.aggregate[a].state
          /\ cfg.aggregate[a].state \in CodeNames
          /\ \A n \in DOMAIN nums.data : nums.data[n] \in cfg.aggregate[a].targets
  BY <1>2, AggregateKnown DEF Aggregated, AllInTargets, NewState
<1>8. ~Aggregated(p, row) =>
        NewState(p, row) = IF p.state # Null THEN p.state ELSE CodeName(row)
  BY DEF NewState
<1>9. NewState(p, row) \in CodeNames
  BY <1>4, <1>5, <1>7, <1>8
<1>10. StatusNameToCode[NewState(p, row)] \in StateCodes
  BY <1>9, NamesAndCodes
<1> HIDE DEF p, nums
<1>11. /\ w.patch = m /\ w.order = o
       /\ w.row = [row EXCEPT !.state = StatusNameToCode[NewState(p, row)],
                              !.due = IF p.due # Null THEN p.due ELSE row.due,
                              !.cdb = IF row.cdb = Null THEN p.cdb ELSE row.cdb,
                              !.data = nums.data, !.changed = p.date, !.by = m]
       /\ w.status = (Aggregated(p, row) \/ (p.state # Null /\ p.state # CodeName(row)))
       /\ w.numbers = nums.changed
       /\ w.due = ((IF p.due # Null THEN p.due ELSE row.due) # row.due)
       /\ w.cdb \in BOOLEAN
       /\ w = [patch |-> w.patch, order |-> w.order, row |-> w.row,
               status |-> w.status, numbers |-> w.numbers, due |-> w.due, cdb |-> w.cdb]
  BY DEF Form, p, nums
<1> HIDE DEF w
<1>12. /\ w.row.state = StatusNameToCode[NewState(p, row)]
       /\ w.row.due = IF p.due # Null THEN p.due ELSE row.due
       /\ w.row.cdb = IF row.cdb = Null THEN p.cdb ELSE row.cdb
       /\ w.row.data = nums.data /\ w.row.changed = p.date /\ w.row.by = m
       /\ w.row.created = row.created
  BY <1>11 DEF OrderRow
<1>13. w.row \in OrderRow
  BY <1>1, <1>2, <1>3, <1>4, <1>10, <1>11 DEF OrderRow
<1>14. w \in Work
  BY <1>3, <1>6, <1>11, <1>13 DEF Work
<1>15. ASSUME w.row.state # row.state
       PROVE  /\ w.status
              /\ \/ p.state # Null /\ w.row.state = StatusNameToCode[p.state]
                 \/ \E a \in DOMAIN cfg.aggregate :
                      /\ w.row.state = StatusNameToCode[cfg.aggregate[a].state]
                      /\ \A n \in DOMAIN w.row.data :
                           w.row.data[n] \in cfg.aggregate[a].targets
  <2>1. CASE Aggregated(p, row)
    BY <1>7, <1>11, <1>12, <2>1
  <2>2. CASE ~Aggregated(p, row)
    <3>1. w.row.state =
            StatusNameToCode[IF p.state # Null THEN p.state ELSE CodeName(row)]
      BY <1>8, <1>12, <2>2
    <3>2. p.state # Null /\ p.state # CodeName(row)
      BY <1>5, <1>15, <3>1
    <3>3. w.status
      BY <1>11, <3>2
    <3> QED BY <3>1, <3>2, <3>3
  <2> QED BY <2>1, <2>2
<1>16. Successor(cfg.aggregate, m, w, row)
  BY <1>3, <1>11, <1>12, <1>15 DEF Successor, p
<1> QED BY <1>11, <1>13, <1>14, <1>16 DEF w

-----------------------------------------------------------------------------
\* Types.  A consumer that is busy has a patch.

BusyInv == \A c \in Consumers : step[c] # "idle" => work[c].patch \in Patches

TypeInv == StartInv /\ TypeOK /\ BusyInv

LEMMA NullIsNothing ==
  /\ Null \notin Orders /\ Null \notin OrderRow /\ Null \notin Patches
  /\ Null \notin Consumers /\ Null \notin Answers
  /\ NoWork \in Work /\ NoWork.patch = Null
<1>1. NoWork \in Work /\ NoWork.patch = Null
  BY DEF NoWork, Work
<1>2. Null \notin Int \cup OrderRow \cup Patches /\ Orders \subseteq Nat
  BY StoreAssumption
<1>5. Null \notin Int /\ Null \notin OrderRow /\ Null \notin Patches
  BY <1>2
<1>6. Null \notin Orders
  <2>1. \A x \in Nat : x \in Int
    OBVIOUS
  <2> QED BY <1>2, <1>5, <2>1, Zenon
<1>3. Null \notin Consumers
  BY PatchAssumption
<1>4. Null \notin Answers
  BY CreateAssumption
<1> QED BY <1>1, <1>3, <1>4, <1>5, <1>6

LEMMA ValidateAnswers == \A b : Validate(b) \in Answers
  BY DEF Validate, Answers

\* The row that a request inserts has the numbers of the request.
LEMMA EntityType ==
  ASSUME NEW r \in Requests, NEW b \in BodiesOf[r], NEW now \in CreationDates
  PROVE  /\ ToEntity(b, now) \in OrderRow
         /\ ToEntity(b, now).state = 0 /\ ToEntity(b, now).changed = Null
         /\ ToEntity(b, now).created = now /\ ToEntity(b, now).by = Null
         /\ DOMAIN ToEntity(b, now).data = GetMSISDNs(b)
         /\ {Msisdn(b)[i] : i \in DOMAIN Msisdn(b)} = GetMSISDNs(b)
         /\ GetMSISDNs(b) \subseteq Msisdns
<1>1. IsBody(b) /\ now \in Dates
  BY CreateAssumption
<1>2. GetMSISDNs(b) \subseteq Msisdns
  BY <1>1 DEF IsBody, GetMSISDNs
<1> DEFINE data == [n \in GetMSISDNs(b) |->
                      b.numbers[CHOOSE i \in DOMAIN b.numbers :
                                  b.numbers[i].msisdn = n].status]
<1>3. \A n \in GetMSISDNs(b) : data[n] \in NumberStatuses \cup {Null}
  <2> TAKE n \in GetMSISDNs(b)
  <2>1. \E i \in DOMAIN b.numbers : b.numbers[i].msisdn = n
    BY DEF GetMSISDNs
  <2> QED BY <1>1, <2>1 DEF IsBody
<1>4. data \in NumberStates
  <2>1. data \in [GetMSISDNs(b) -> NumberStatuses \cup {Null}]
    BY <1>3
  <2> HIDE DEF data
  <2> QED BY <1>2, <2>1 DEF NumberStates
<1> HIDE DEF data
<1>5. ToEntity(b, now) =
        [state |-> 0, created |-> now, changed |-> Null, due |-> b.due,
         cdb |-> Null, by |-> Null, data |-> data]
  BY NamesAndCodes DEF ToEntity, data
<1>6. 0 \in StateCodes
  BY NamesAndCodes
<1>7. b.due \in Int
  BY <1>1 DEF IsBody
<1>8. DOMAIN data = GetMSISDNs(b)
  BY DEF data
<1>9. {Msisdn(b)[i] : i \in DOMAIN Msisdn(b)} = GetMSISDNs(b)
  BY DEF Msisdn, GetMSISDNs
<1> QED BY <1>1, <1>2, <1>4, <1>5, <1>6, <1>7, <1>8, <1>9 DEF OrderRow

LEMMA CreateType ==
  ASSUME TypeInv, NEW r \in Requests, NEW now \in CreationDates,
         nextId \in Partitioned, Create(ToEntity(body[r], now), Msisdn(body[r]))
  PROVE  /\ orders' \in [Orders -> OrderRow \cup {Null}]
         /\ numbers' \subseteq Orders \X Msisdns /\ nextId' \in Nat
<1>1. body[r] \in BodiesOf[r] /\ nextId \in Orders /\ nextId \in Nat
  BY StoreAssumption DEF TypeInv, TypeOK, CreateTypeOK
<1>2. /\ ToEntity(body[r], now) \in OrderRow
      /\ {Msisdn(body[r])[i] : i \in DOMAIN Msisdn(body[r])} \subseteq Msisdns
  BY <1>1, EntityType
<1> QED BY <1>1, <1>2 DEF Create, TypeInv, TypeOK

LEMMA TypeInit == Init => TypeInv
<1> SUFFICES ASSUME Init PROVE TypeInv
  OBVIOUS
<1>1. StartInv
  BY StartInit
<1>2. nextId \in Nat /\ failures \in 0..MaxFailures
  BY StoreAssumption DEF Init, StoreInit
<1>3. PatchTypeOK
  BY NullIsNothing DEF Init, StoreInit, PatchInit, PatchTypeOK
<1>4. CreateTypeOK
  BY DEF Init, CreateInit, CreateTypeOK
<1>5. BusyInv
  BY DEF Init, PatchInit, BusyInv
<1> QED BY <1>1, <1>2, <1>3, <1>4, <1>5
        DEF TypeInv, TypeOK, StartInv, Init, StoreInit

\* The handlers of requests.
LEMMA ServeType == TypeInv /\ StartInv' /\ Serve => TypeInv'
<1> SUFFICES ASSUME TypeInv, StartInv', phase = "serving", CreateNext,
                    UNCHANGED <<bootVars, patchVars>>
             PROVE  TypeInv'
  BY DEF Serve
<1>1. failures < MaxFailures => failures + 1 \in 0..MaxFailures
  BY StoreAssumption DEF TypeInv, TypeOK
<1>2. nextId \in Nat /\ nextId + 1 \in Nat
  BY DEF TypeInv, TypeOK
<1>3. ASSUME UNCHANGED lock PROVE PatchTypeOK' /\ BusyInv'
  BY <1>3 DEF TypeInv, TypeOK, PatchTypeOK, BusyInv, patchVars
<1>4. ASSUME UNCHANGED <<lock, orders, numbers>>, nextId' \in {nextId, nextId + 1},
             failures' \in {failures, failures + 1}, failures' \in 0..MaxFailures,
             CreateTypeOK'
      PROVE  TypeInv'
  BY <1>2, <1>3, <1>4 DEF TypeInv, TypeOK, StartInv, StartupTypeOK
<1>5. ASSUME NEW r \in Requests, NEW a \in Answers, Answer(r, a),
             UNCHANGED <<body, mine, seen>>
      PROVE  CreateTypeOK'
  BY <1>5, NullIsNothing DEF Answer, Proceed, TypeInv, TypeOK, CreateTypeOK
<1>6. ASSUME NEW r \in Requests, PanicInToModel(r) \/ Invalid(r) \/ CustomerMissing(r)
      PROVE  TypeInv'
  <2>1. CreateTypeOK'
    BY <1>5, <1>6, ValidateAnswers
       DEF PanicInToModel, Invalid, CustomerMissing, Answers
  <2> QED BY <1>4, <1>6, <2>1 DEF PanicInToModel, Invalid, CustomerMissing, storeVars,
                                  tableVars, TypeInv, TypeOK
<1>7. ASSUME NEW r \in Requests, CheckDocumentAccess(r) PROVE TypeInv'
  <2>1. CreateTypeOK'
    BY <1>5, <1>7, NullIsNothing
       DEF CheckDocumentAccess, Proceed, Answers, TypeInv, TypeOK, CreateTypeOK
  <2> QED BY <1>4, <1>7, <2>1 DEF CheckDocumentAccess, storeVars, tableVars, TypeInv,
                                  TypeOK
<1>8. ASSUME NEW r \in Requests, CheckExistingOrders(r) PROVE TypeInv'
  <2>1. seen' \in [Requests -> SUBSET Orders]
    BY <1>8 DEF CheckExistingOrders, TypeInv, TypeOK, CreateTypeOK, Present
  <2>2. CASE Proceed(r, "insert") /\ UNCHANGED answer
    <3>1. CreateTypeOK'
      BY <1>8, <2>1, <2>2, NullIsNothing
         DEF CheckExistingOrders, Proceed, TypeInv, TypeOK, CreateTypeOK
    <3> QED BY <1>4, <1>8, <3>1 DEF CheckExistingOrders, storeVars, tableVars, TypeInv,
                                    TypeOK
  <2>3. CASE Answer(r, ErrPortationRequestExists)
    <3>1. ErrPortationRequestExists \in Answers
      BY DEF Answers
    <3>2. CreateTypeOK'
      BY <1>8, <2>1, <2>3, <3>1, NullIsNothing
         DEF CheckExistingOrders, Answer, Proceed, TypeInv, TypeOK, CreateTypeOK
    <3> QED BY <1>4, <1>8, <3>2 DEF CheckExistingOrders, storeVars, tableVars, TypeInv,
                                    TypeOK
  <2> QED BY <1>8, <2>2, <2>3 DEF CheckExistingOrders
<1>9. ASSUME NEW r \in Requests, NEW now \in CreationDates, nextId \in Partitioned,
             Create(ToEntity(body[r], now), Msisdn(body[r])), UNCHANGED lock,
             failures' \in 0..MaxFailures, CreateTypeOK'
      PROVE  TypeInv'
  <2>1. /\ orders' \in [Orders -> OrderRow \cup {Null}]
        /\ numbers' \subseteq Orders \X Msisdns /\ nextId' \in Nat
    BY <1>9, CreateType
  <2>2. PatchTypeOK' /\ BusyInv'
    BY <1>3, <1>9
  <2> QED BY <1>9, <2>1, <2>2 DEF TypeInv, TypeOK, StartInv
<1>10. ASSUME NEW r \in Requests, CreateOrderInDB(r) PROVE TypeInv'
  <2>1. nextId \in Partitioned
    BY <1>10 DEF CreateOrderInDB, CanInsert
  <2>2. CreateTypeOK'
    BY <1>10, <2>1, NullIsNothing
       DEF CreateOrderInDB, Proceed, TypeInv, TypeOK, CreateTypeOK
  <2> QED BY <1>9, <1>10, <2>1, <2>2 DEF CreateOrderInDB, TypeInv, TypeOK
<1>11. ASSUME NEW r \in Requests, InsertRefused(r) PROVE TypeInv'
  <2>1. CreateTypeOK'
    BY <1>5, <1>11 DEF InsertRefused, Answers
  <2> QED BY <1>4, <1>11, <2>1 DEF InsertRefused, CreateFails, TypeInv, TypeOK
<1>12. ASSUME NEW r \in Requests, PublishCreated(r) PROVE TypeInv'
  <2>1. CreateTypeOK'
    BY <1>5, <1>12 DEF PublishCreated, Answers
  <2> QED BY <1>4, <1>12, <2>1 DEF PublishCreated, tableVars, TypeInv, TypeOK
<1>13. ASSUME NEW r \in Requests, QueryFails(r) \/ Die(r) PROVE TypeInv'
  <2>1. CreateTypeOK'
    BY <1>5, <1>13 DEF QueryFails, Die, Answers
  <2>2. UNCHANGED <<lock, orders, numbers>> /\ nextId' \in {nextId, nextId + 1}
    BY <1>13 DEF QueryFails, Die, RolledBack, tableVars, CreateFails
  <2>3. failures' = failures + 1 /\ failures' \in 0..MaxFailures
    BY <1>1, <1>13 DEF QueryFails, Die, Disturbed
  <2> QED BY <1>4, <2>1, <2>2, <2>3
<1>14. ASSUME NEW r \in Requests, CreateUnanswered(r) PROVE TypeInv'
  <2>1. nextId \in Partitioned
    BY <1>14 DEF CreateUnanswered, CanInsert
  <2>2. CreateTypeOK'
    BY <1>14, <2>1, NullIsNothing
       DEF CreateUnanswered, Answer, Proceed, Answers, TypeInv, TypeOK, CreateTypeOK
  <2>3. failures' \in 0..MaxFailures
    BY <1>1, <1>14 DEF CreateUnanswered, Disturbed
  <2> QED BY <1>9, <1>14, <2>1, <2>2, <2>3 DEF CreateUnanswered
<1>15. ASSUME NEW r \in Requests, PublishCreatedFails(r) PROVE TypeInv'
  <2>1. CreateTypeOK'
    BY <1>5, <1>15 DEF PublishCreatedFails, Answers
  <2>2. failures' = failures + 1 /\ failures' \in 0..MaxFailures
    BY <1>1, <1>15 DEF PublishCreatedFails, Disturbed
  <2> QED BY <1>4, <1>15, <2>1, <2>2 DEF PublishCreatedFails, tableVars
<1> QED BY <1>6, <1>7, <1>8, <1>10, <1>11, <1>12, <1>13, <1>14, <1>15 DEF CreateNext

\* The consumers of patches: one moves on, with what it works on.
LEMMA ConsumeType == TypeInv /\ StartInv' /\ Consume => TypeInv'
<1> SUFFICES ASSUME TypeInv, StartInv', phase = "serving", PatchNext,
                    UNCHANGED <<bootVars, createVars>>
             PROVE  TypeInv'
  BY DEF Consume
<1>1. failures < MaxFailures => failures + 1 \in 0..MaxFailures
  BY StoreAssumption DEF TypeInv, TypeOK
<1>2. \A c \in Consumers :
        /\ work[c] \in Work /\ (step[c] # "idle" => work[c].patch \in Patches)
        /\ step[c] = "idle" => work[c] = NoWork
        /\ NoWork \in Work /\ NoWork.patch \notin Patches
  BY NullIsNothing DEF TypeInv, TypeOK, PatchTypeOK, BusyInv
\* The consumer c goes to a busy step with work w, or to idle without any.
<1> DEFINE Moves(c, w) ==
      /\ work' = [work EXCEPT ![c] = w]
      /\ \/ /\ w \in Work /\ w.patch \in Patches
            /\ \E to \in {"get", "commit", "status", "duedate", "reject", "return"} :
                 step' = [step EXCEPT ![c] = to]
         \/ w = NoWork /\ step' = [step EXCEPT ![c] = "idle"]
<1>3. ASSUME NEW c \in Consumers, NEW w, Moves(c, w),
             acked' \cup rejected' \cup noops' \subseteq Patches,
             lock' \in [Orders -> Consumers \cup {Null}],
             orders' \in [Orders -> OrderRow \cup {Null}],
             failures' \in 0..MaxFailures, UNCHANGED <<numbers, nextId>>
      PROVE  TypeInv'
  <2>1. CreateTypeOK'
    BY DEF TypeInv, TypeOK, CreateTypeOK, createVars
  <2>2. PatchTypeOK' /\ BusyInv'
    <3>1. CASE w = NoWork /\ step' = [step EXCEPT ![c] = "idle"]
      BY <1>2, <1>3, <3>1 DEF TypeInv, TypeOK, PatchTypeOK, BusyInv
    <3>2. CASE /\ w \in Work /\ w.patch \in Patches
               /\ \E to \in {"get", "commit", "status", "duedate", "reject", "return"} :
                    step' = [step EXCEPT ![c] = to]
      <4>1. w # NoWork
        BY <1>2, <3>2
      <4> QED BY <1>2, <1>3, <3>2, <4>1 DEF TypeInv, TypeOK, PatchTypeOK, BusyInv
    <3> QED BY <1>3, <3>1, <3>2
  <2> QED BY <1>3, <2>1, <2>2 DEF TypeInv, TypeOK, StartInv
<1>4. \A c \in Consumers : step[c] # "idle" => work[c] \in Work /\ work[c].patch \in Patches
  BY <1>2
<1>5. \A c \in Consumers : Release(c) => lock' \in [Orders -> Consumers \cup {Null}]
  BY DEF Release, TypeInv, TypeOK, PatchTypeOK
<1>6. /\ acked \cup rejected \cup noops \subseteq Patches
      /\ lock \in [Orders -> Consumers \cup {Null}]
      /\ orders \in [Orders -> OrderRow \cup {Null}]
      /\ failures \in 0..MaxFailures
      /\ work \in [Consumers -> Work]
  BY DEF TypeInv, TypeOK, PatchTypeOK
<1>7. \A c \in Consumers : work' = work => work' = [work EXCEPT ![c] = work[c]]
  BY <1>6
<1> HIDE DEF Moves
<1>8. \A c \in Consumers :
        /\ UNCHANGED work /\ step[c] # "idle"
        /\ \E to \in {"get", "commit", "status", "duedate", "reject", "return"} : Goto(c, to)
        => Moves(c, work[c])
  BY <1>4, <1>7 DEF Moves, Goto
<1>9. \A c \in Consumers :
        work' = [work EXCEPT ![c] = NoWork] /\ Goto(c, "idle") => Moves(c, NoWork)
  BY DEF Moves, Goto
<1>10. ASSUME NEW c \in Consumers, NEW m \in Patches, Receive(c, m) \/ ReceiveAgain(c, m)
       PROVE  TypeInv'
  <2> DEFINE w == [NoWork EXCEPT !.patch = m]
  <2>1. w \in Work /\ w.patch = m
    BY DEF NoWork, Work
  <2>2. work' = [work EXCEPT ![c] = w]
    BY <1>2, <1>10 DEF Receive, ReceiveAgain
  <2>3. Goto(c, "get") \/ Goto(c, "reject")
    BY <1>10 DEF Receive, ReceiveAgain
  <2> HIDE DEF w
  <2>4. Moves(c, w)
    BY <2>1, <2>2, <2>3 DEF Moves, Goto
  <2>5. failures' \in 0..MaxFailures /\ UNCHANGED <<tableVars, lock, acked, rejected, noops>>
    BY <1>1, <1>6, <1>10 DEF Receive, ReceiveAgain, Fault, storeVars
  <2> QED BY <1>3, <1>6, <2>4, <2>5 DEF tableVars
<1>11. ASSUME NEW c \in Consumers, NotFound(c) \/ \E o \in Orders : Refuse(c, o)
       PROVE  TypeInv'
  <2>1. /\ step[c] = "get" /\ UNCHANGED work /\ Goto(c, "reject")
        /\ UNCHANGED <<storeVars, acked, rejected, noops>>
    BY <1>11 DEF NotFound, Refuse, Got
  <2>2. Moves(c, work[c])
    BY <1>8, <2>1
  <2> QED BY <1>3, <1>6, <2>1, <2>2 DEF storeVars, tableVars
<1>12. ASSUME NEW c \in Consumers, NEW o \in Orders, Panic(c, o) PROVE TypeInv'
  BY <1>3, <1>6, <1>9, <1>12 DEF Panic, storeVars, tableVars
<1>13. ASSUME NEW c \in Consumers, NEW o \in Orders, Apply(c, o) PROVE TypeInv'
  <2> DEFINE w == Form(work[c].patch, o, orders[o])
  <2>1. /\ step[c] = "get" /\ o \in Present
        /\ ~Unappliable(PatchOf[work[c].patch], orders[o])
        /\ ~Panics(PatchOf[work[c].patch], orders[o])
    BY <1>13 DEF Apply, Got, Targets, GetByID, GetByCDBProcessID
  <2>2. orders[o] \in OrderRow /\ work[c].patch \in Patches
    BY <1>4, <1>6, <2>1 DEF Present
  <2>3. w \in Work /\ w.patch = work[c].patch
    BY <2>1, <2>2, FormIsSuccessor DEF TypeInv
  <2>4. Moves(c, w)
    BY <1>13, <2>2, <2>3 DEF Moves, Goto, Apply
  <2>5. lock' \in [Orders -> Consumers \cup {Null}]
    BY <1>6, <1>13 DEF Apply
  <2> QED BY <1>3, <1>6, <1>13, <2>4, <2>5 DEF Apply, tableVars
<1>14. ASSUME NEW c \in Consumers, CommitChange(c) \/ CommitUnanswered(c) PROVE TypeInv'
  <2>1. /\ step[c] = "commit" /\ UNCHANGED <<work, acked, rejected, noops>>
        /\ UpdateOrderPatch(work[c].order, work[c].row) /\ Release(c)
        /\ Goto(c, "status") \/ Goto(c, "reject")
    BY <1>14 DEF CommitChange, CommitUnanswered
  <2>2. work[c].row \in OrderRow \cup {Null}
    BY <1>2 DEF Work
  <2>3. orders' \in [Orders -> OrderRow \cup {Null}] /\ UNCHANGED <<numbers, nextId>>
    BY <1>6, <2>1, <2>2 DEF UpdateOrderPatch
  <2>4. failures' \in 0..MaxFailures
    BY <1>1, <1>6, <1>14 DEF CommitChange, CommitUnanswered, Fault
  <2>5. Moves(c, work[c])
    BY <1>8, <2>1
  <2> QED BY <1>3, <1>5, <1>6, <2>1, <2>3, <2>4, <2>5
<1>15. ASSUME NEW c \in Consumers, CommitNothing(c) \/ StatementFails(c) \/ PublishFails(c)
       PROVE  TypeInv'
  <2>1. /\ step[c] # "idle" /\ UNCHANGED <<tableVars, work, acked, rejected>>
        /\ Release(c) \/ UNCHANGED lock
        /\ Goto(c, "return") \/ Goto(c, "reject")
        /\ noops' \subseteq noops \cup {work[c].patch}
    BY <1>15 DEF CommitNothing, StatementFails, PublishFails
  <2>2. failures' \in 0..MaxFailures
    BY <1>1, <1>6, <1>15 DEF CommitNothing, StatementFails, PublishFails, Fault
  <2>3. Moves(c, work[c])
    BY <1>8, <2>1
  <2>4. acked' \cup rejected' \cup noops' \subseteq Patches
    BY <1>4, <1>6, <2>1
  <2>5. lock' \in [Orders -> Consumers \cup {Null}]
    BY <1>5, <1>6, <2>1
  <2> QED BY <1>3, <1>6, <2>1, <2>2, <2>3, <2>4, <2>5 DEF tableVars
<1>16. ASSUME NEW c \in Consumers, PublishStatus(c) \/ PublishDueDate(c) PROVE TypeInv'
  <2>1. /\ step[c] # "idle" /\ UNCHANGED <<tableVars, lock, failures, work, acked, rejected, noops>>
        /\ Goto(c, "duedate") \/ Goto(c, "return")
    BY <1>16 DEF PublishStatus, PublishDueDate
  <2>2. Moves(c, work[c])
    BY <1>8, <2>1
  <2> QED BY <1>3, <1>6, <2>1, <2>2 DEF tableVars
<1>17. ASSUME NEW c \in Consumers, Reject(c) PROVE TypeInv'
  <2>1. Moves(c, work[c])
    BY <1>8, <1>17 DEF Reject
  <2>2. acked' \cup rejected' \cup noops' \subseteq Patches
    BY <1>4, <1>6, <1>17 DEF Reject
  <2> QED BY <1>3, <1>6, <1>17, <2>1, <2>2 DEF Reject, storeVars, tableVars
<1>18. ASSUME NEW c \in Consumers, Acknowledge(c) PROVE TypeInv'
  <2>1. Moves(c, NoWork)
    BY <1>9, <1>18 DEF Acknowledge
  <2>2. acked' \cup rejected' \cup noops' \subseteq Patches
    BY <1>4, <1>6, <1>18 DEF Acknowledge
  <2> QED BY <1>3, <1>6, <1>18, <2>1, <2>2 DEF Acknowledge, storeVars, tableVars
<1>19. ASSUME NEW c \in Consumers, RejectFails(c) \/ Crash(c) PROVE TypeInv'
  <2>1. /\ UNCHANGED <<tableVars, acked, rejected, noops>>
        /\ Release(c) \/ UNCHANGED lock
        /\ work' = [work EXCEPT ![c] = NoWork] /\ Goto(c, "idle")
    BY <1>19 DEF RejectFails, Crash
  <2>2. failures' \in 0..MaxFailures
    BY <1>1, <1>19 DEF RejectFails, Crash, Fault
  <2> QED BY <1>3, <1>5, <1>6, <1>9, <2>1, <2>2 DEF tableVars
<1> QED BY <1>10, <1>11, <1>12, <1>13, <1>14, <1>15, <1>16, <1>17, <1>18, <1>19
        DEF PatchNext, Handle, GoWrong

LEMMA TypeStep == TypeInv /\ [Next]_vars => TypeInv'
<1> SUFFICES ASSUME TypeInv, [Next]_vars PROVE TypeInv'
  OBVIOUS
<1>1. StartInv'
  BY StartStep DEF TypeInv
<1>2. CASE Boot \/ UNCHANGED vars
  <2>1. UNCHANGED <<storeVars, patchVars, createVars>>
    BY <1>2 DEF Boot, vars
  <2>2. PatchTypeOK' /\ CreateTypeOK' /\ BusyInv'
    BY <2>1 DEF TypeInv, TypeOK, PatchTypeOK, CreateTypeOK, BusyInv, storeVars, patchVars,
                createVars
  <2> QED BY <1>1, <2>1, <2>2 DEF TypeInv, TypeOK, StartInv, storeVars, tableVars
<1> QED BY <1>1, <1>2, ServeType, ConsumeType DEF Next

LEMMA Typed == Spec => []TypeInv
  BY TypeInit, TypeStep, PTL DEF Spec

\* Every variable of the service stays in its type, whatever is requested and
\* delivered: what a patch makes of a row is a row again.
THEOREM TypesCorrect == Spec => []TypeOK
  BY Typed, PTL DEF TypeInv

-----------------------------------------------------------------------------
\* The tables change in two ways only: a request inserts its order with its
\* numbers, or a consumer that holds the lock of a row replaces it.

LogRow ==
  [order: Orders, version: Dates, state: StateCodes, due: Int \cup {Null},
   data: NumberStates, by: Patches \cup {Null}]

CommitInv ==
  \A c \in Consumers : step[c] = "commit" =>
    LET w == work[c]
        p == PatchOf[w.patch]
    IN  /\ w.order \in Present /\ w.row \in OrderRow /\ lock[w.order] = c
        /\ p.date \in Dates /\ p.date > Since(orders[w.order])
        /\ Successor(cfg.aggregate, w.patch, w, orders[w.order])

StoreInv ==
  /\ phase # "serving" => Present = {}
  /\ \A o \in Present : o < nextId
  /\ log \subseteq LogRow
  /\ \A l \in log : l.order \in Present
  /\ \A row \in numbers : row[1] \in Present
  /\ \A c \in Consumers :
       step[c] \in {"get", "commit"} => PatchOf[work[c].patch].date \in Dates
  /\ CommitInv

Still == UNCHANGED <<orders, log, numbers>> /\ nextId' \in {nextId, nextId + 1}

Inserts(r) ==
  /\ phase = "serving" /\ at[r] = "insert" /\ nextId \in Partitioned
  /\ \E now \in CreationDates : Create(ToEntity(body[r], now), Msisdn(body[r]))
  /\ mine' = [mine EXCEPT ![r] = nextId]
  /\ \/ Proceed(r, "publish") /\ UNCHANGED answer
     \/ Answer(r, InternalError)
  /\ UNCHANGED <<bootVars, patchVars, lock, events, body, seen>>

Changes(c) ==
  /\ phase = "serving" /\ step[c] = "commit" /\ AnyChange(work[c])
  /\ UpdateOrderPatch(work[c].order, work[c].row) /\ Release(c)
  /\ Goto(c, "status") \/ Goto(c, "reject")
  /\ UNCHANGED <<bootVars, createVars, events, work, acked, rejected, noops>>

LEMMA TableSteps ==
  ASSUME [Next]_vars
  PROVE  Still \/ (\E r \in Requests : Inserts(r)) \/ (\E c \in Consumers : Changes(c))
<1>1. CASE Boot \/ UNCHANGED vars
  BY <1>1 DEF Boot, vars, storeVars, tableVars, Still
<1>2. CASE Consume
  <2>1. PICK c \in Consumers :
          (\E m \in Patches : Receive(c, m) \/ ReceiveAgain(c, m)) \/ Handle(c) \/ GoWrong(c)
    BY <1>2 DEF Consume, PatchNext
  <2>2. CASE CommitChange(c) \/ CommitUnanswered(c)
    BY <1>2, <2>2 DEF Consume, CommitChange, CommitUnanswered, Changes
  <2>3. CASE ~(CommitChange(c) \/ CommitUnanswered(c))
    <3>1. CASE \E m \in Patches : Receive(c, m) \/ ReceiveAgain(c, m)
      BY <3>1 DEF Receive, ReceiveAgain, storeVars, tableVars, Still
    <3>2. CASE Handle(c)
      BY <2>3, <3>2 DEF Handle, NotFound, Refuse, Panic, Apply, CommitNothing, PublishStatus,
                 PublishDueDate, Reject, Acknowledge, storeVars, tableVars, Still
    <3>3. CASE GoWrong(c)
      BY <2>3, <3>3 DEF GoWrong, StatementFails, PublishFails, RejectFails, Crash,
                 tableVars, Still
    <3> QED BY <2>1, <3>1, <3>2, <3>3
  <2> QED BY <2>2, <2>3
<1>3. CASE Serve
  <2>1. PICK r \in Requests :
          \/ PanicInToModel(r) \/ Invalid(r) \/ CheckDocumentAccess(r)
          \/ CheckExistingOrders(r) \/ CreateOrderInDB(r) \/ CustomerMissing(r)
          \/ InsertRefused(r) \/ PublishCreated(r) \/ QueryFails(r)
          \/ CreateUnanswered(r) \/ PublishCreatedFails(r) \/ Die(r)
    BY <1>3 DEF Serve, CreateNext
  <2>2. CASE CreateOrderInDB(r) \/ CreateUnanswered(r)
    BY <1>3, <2>2 DEF Serve, CreateOrderInDB, CreateUnanswered, CanInsert, Inserts, patchVars
  <2>3. CASE InsertRefused(r) \/ QueryFails(r) \/ Die(r)
    BY <2>3 DEF InsertRefused, QueryFails, Die, RolledBack, CreateFails, tableVars, Still
  <2>4. CASE \/ PanicInToModel(r) \/ Invalid(r) \/ CheckDocumentAccess(r)
             \/ CheckExistingOrders(r) \/ CustomerMissing(r)
             \/ PublishCreated(r) \/ PublishCreatedFails(r)
    BY <2>4 DEF PanicInToModel, Invalid, CheckDocumentAccess, CheckExistingOrders,
                CustomerMissing, PublishCreated, PublishCreatedFails, storeVars, tableVars,
                Still
  <2> QED BY <2>1, <2>2, <2>3, <2>4
<1> QED BY <1>1, <1>2, <1>3 DEF Next

LEMMA InsertEffect ==
  ASSUME TypeInv, StoreInv, NEW r \in Requests, Inserts(r)
  PROVE  /\ nextId \in Orders /\ nextId \notin Present /\ nextId' = nextId + 1
         /\ Present' = Present \cup {nextId}
         /\ \A o \in Orders \ {nextId} : orders'[o] = orders[o]
         /\ \E now \in CreationDates : orders'[nextId] = ToEntity(body[r], now)
         /\ orders'[nextId] \in OrderRow
         /\ numbers' = numbers \cup ({nextId} \X GetMSISDNs(body[r]))
         /\ UNCHANGED log
<1>1. /\ body[r] \in BodiesOf[r] /\ nextId \in Orders /\ nextId \in Nat
      /\ orders \in [Orders -> OrderRow \cup {Null}]
  BY StoreAssumption DEF Inserts, TypeInv, TypeOK, CreateTypeOK
<1>2. PICK now \in CreationDates : Create(ToEntity(body[r], now), Msisdn(body[r]))
  BY DEF Inserts
<1>3. /\ ToEntity(body[r], now) \in OrderRow /\ ToEntity(body[r], now) # Null
      /\ {Msisdn(body[r])[i] : i \in DOMAIN Msisdn(body[r])} = GetMSISDNs(body[r])
  BY <1>1, EntityType, NullIsNothing
<1>4. nextId \notin Present
  BY <1>1 DEF StoreInv
<1>5. /\ orders' = [orders EXCEPT ![nextId] = ToEntity(body[r], now)]
      /\ nextId' = nextId + 1 /\ UNCHANGED log
      /\ numbers' = numbers \cup ({nextId} \X GetMSISDNs(body[r]))
  BY <1>2, <1>3 DEF Create
<1>6. /\ \A o \in Orders \ {nextId} : orders'[o] = orders[o]
      /\ orders'[nextId] = ToEntity(body[r], now)
  BY <1>1, <1>5
<1>7. Present' = Present \cup {nextId}
  BY <1>1, <1>3, <1>6 DEF Present
<1> QED BY <1>1, <1>3, <1>4, <1>5, <1>6, <1>7

LEMMA ChangeEffect ==
  ASSUME TypeInv, StoreInv, NEW c \in Consumers, Changes(c)
  PROVE  LET w == work[c]
             o == work[c].order
             p == PatchOf[w.patch]
         IN  /\ o \in Orders /\ o \in Present /\ Present' = Present
             /\ orders[o] \in OrderRow /\ orders'[o] = w.row /\ w.row \in OrderRow
             /\ \A q \in Orders \ {o} : orders'[q] = orders[q]
             /\ log' = log \cup {[order |-> o, version |-> Since(orders[o]),
                                  state |-> orders[o].state, due |-> orders[o].due,
                                  data |-> orders[o].data, by |-> orders[o].by]}
             /\ UNCHANGED <<numbers, nextId, cfg>>
             /\ w.patch \in Patches /\ lock[o] = c
             /\ p.date \in Dates /\ p.date > Since(orders[o])
             /\ w.row.changed = p.date /\ Since(w.row) = p.date
             /\ Successor(cfg.aggregate, w.patch, w, orders[o])
<1> DEFINE o == work[c].order
<1>1. /\ o \in Present /\ work[c].row \in OrderRow /\ lock[o] = c
      /\ PatchOf[work[c].patch].date \in Dates
      /\ PatchOf[work[c].patch].date > Since(orders[o])
      /\ Successor(cfg.aggregate, work[c].patch, work[c], orders[o])
  BY DEF Changes, StoreInv, CommitInv
<1>2. o \in Orders /\ orders[o] \in OrderRow /\ work[c].patch \in Patches
  BY <1>1 DEF Changes, Present, TypeInv, TypeOK, BusyInv
<1>3. UpdateOrderPatch(o, work[c].row) /\ UNCHANGED cfg
  BY DEF Changes, bootVars
<1>4. orders'[o] = work[c].row /\ \A q \in Orders \ {o} : orders'[q] = orders[q]
  BY <1>2, <1>3 DEF UpdateOrderPatch, TypeInv, TypeOK
<1>5. work[c].row # Null
  BY <1>1, NullIsNothing
<1>6. Present' = Present
  BY <1>1, <1>2, <1>4, <1>5 DEF Present
<1>7. work[c].row.changed = PatchOf[work[c].patch].date
  BY <1>1 DEF Successor
<1>8. PatchOf[work[c].patch].date # Null
  BY <1>1, StoreAssumption DEF Dates
<1>9. Since(work[c].row) = PatchOf[work[c].patch].date
  BY <1>7, <1>8 DEF Since
<1> QED BY <1>1, <1>2, <1>3, <1>4, <1>6, <1>7, <1>9 DEF UpdateOrderPatch

\* One consumer moves in a step; the others keep what they do and their locks.

Turn(c) ==
  \/ \E m \in Patches : Receive(c, m) \/ ReceiveAgain(c, m)
  \/ Handle(c) \/ GoWrong(c)

Rests(c) ==
  /\ step'[c] = step[c] /\ work'[c] = work[c]
  /\ \A o \in Orders : lock[o] = c => lock'[o] = c

LEMMA Turns ==
  ASSUME TypeInv, [Next]_vars, NEW c \in Consumers
  PROVE  \/ Rests(c)
         \/ phase = "serving" /\ Turn(c) /\ UNCHANGED <<bootVars, createVars>>
<1>1. CASE Boot \/ Serve \/ UNCHANGED vars
  <2>1. UNCHANGED <<patchVars, lock>>
    <3>1. CASE Boot \/ UNCHANGED vars
      BY <3>1 DEF Boot, vars, storeVars
    <3>2. CASE Serve
      BY <3>2 DEF Serve, CreateNext, PanicInToModel, Invalid, CheckDocumentAccess,
                  CheckExistingOrders, CreateOrderInDB, CustomerMissing, InsertRefused,
                  PublishCreated, QueryFails, CreateUnanswered, PublishCreatedFails, Die,
                  storeVars
    <3> QED BY <1>1, <3>1, <3>2
  <2> QED BY <2>1 DEF patchVars, Rests
<1>2. CASE Consume
  <2>1. PICK d \in Consumers : Turn(d)
    BY <1>2 DEF Consume, PatchNext, Turn
  <2>2. CASE d = c
    BY <1>2, <2>1, <2>2 DEF Consume
  <2>3. CASE d # c
    <3>1. /\ step \in [Consumers -> {"idle", "get", "commit", "status", "duedate",
                                     "reject", "return"}]
          /\ work \in [Consumers -> Work]
          /\ lock \in [Orders -> Consumers \cup {Null}]
          /\ c # Null
      BY NullIsNothing DEF TypeInv, TypeOK, PatchTypeOK
    <3>2. ASSUME NEW to, Goto(d, to) PROVE step'[c] = step[c]
      BY <2>3, <3>1, <3>2 DEF Goto
    <3>3. ASSUME Release(d) PROVE \A o \in Orders : lock[o] = c => lock'[o] = c
      BY <2>3, <3>1, <3>3 DEF Release
    <3>4. CASE \E m \in Patches : Receive(d, m) \/ ReceiveAgain(d, m)
      BY <2>3, <3>1, <3>2, <3>4 DEF Receive, ReceiveAgain, storeVars, Rests
    <3>5. CASE \E o \in Orders : Apply(d, o)
      BY <2>3, <3>1, <3>2, <3>5 DEF Apply, Got, Rests
    <3>6. CASE /\ ~\E o \in Orders : Apply(d, o)
               /\ Handle(d) \/ GoWrong(d)
      <4>1. \/ Release(d) \/ UNCHANGED lock
        BY <3>6 DEF Handle, NotFound, Refuse, Panic, CommitChange, CommitNothing,
                    PublishStatus, PublishDueDate, Reject, Acknowledge, GoWrong,
                    CommitUnanswered, StatementFails, PublishFails, RejectFails, Crash,
                    storeVars
      <4>2. UNCHANGED work \/ work' = [work EXCEPT ![d] = NoWork]
        BY <3>6 DEF Handle, NotFound, Refuse, Panic, CommitChange, CommitNothing,
                    PublishStatus, PublishDueDate, Reject, Acknowledge, GoWrong,
                    CommitUnanswered, StatementFails, PublishFails, RejectFails, Crash
      <4>3. \E to : Goto(d, to)
        BY <3>6 DEF Handle, NotFound, Refuse, Panic, CommitChange, CommitNothing,
                    PublishStatus, PublishDueDate, Reject, Acknowledge, GoWrong,
                    CommitUnanswered, StatementFails, PublishFails, RejectFails, Crash
      <4>4. step'[c] = step[c]
        BY <3>2, <4>3
      <4>5. work'[c] = work[c]
        BY <2>3, <3>1, <4>2
      <4> QED BY <3>3, <4>1, <4>4, <4>5 DEF Rests
    <3> QED BY <2>1, <3>4, <3>5, <3>6 DEF Turn, Handle
  <2> QED BY <2>2, <2>3
<1> QED BY <1>1, <1>2 DEF Next

\* A handler that holds a valid patch got it when it was received.
LEMMA DatesStay ==
  ASSUME TypeInv, StoreInv, [Next]_vars, NEW c \in Consumers,
         step'[c] \in {"get", "commit"}
  PROVE  PatchOf[work'[c].patch].date \in Dates
<1>1. CASE Rests(c)
  BY <1>1 DEF Rests, StoreInv
<1>2. CASE phase = "serving" /\ Turn(c)
  <2>1. /\ step \in [Consumers -> {"idle", "get", "commit", "status", "duedate",
                                   "reject", "return"}]
        /\ work \in [Consumers -> Work]
    BY DEF TypeInv, TypeOK, PatchTypeOK
  <2>2. ASSUME NEW m \in Patches, Receive(c, m) \/ ReceiveAgain(c, m)
        PROVE  PatchOf[work'[c].patch].date \in Dates
    <3>1. work'[c].patch = m
      BY <2>1, <2>2 DEF Receive, ReceiveAgain, Work
    <3>2. IsValid(PatchOf[m])
      BY <2>1, <2>2 DEF Receive, ReceiveAgain, Goto
    <3>3. PatchOf[m].date \in Dates \cup {Null}
      BY PatchAssumption DEF PortInPatchMessage
    <3> QED BY <3>1, <3>2, <3>3 DEF IsValid
  <2>3. CASE \E o \in Orders : Apply(c, o)
    <3>1. PICK o \in Orders : Apply(c, o)
      BY <2>3
    <3>2. step[c] = "get" /\ work'[c].patch = work[c].patch
      BY <2>1, <3>1 DEF Apply, Got, Form
    <3> QED BY <3>2 DEF StoreInv
  <2>4. CASE (Handle(c) \/ GoWrong(c)) /\ ~\E o \in Orders : Apply(c, o)
    <3>1. \E to \in {"idle", "status", "duedate", "reject", "return"} : Goto(c, to)
      BY <2>4 DEF Handle, NotFound, Refuse, Panic, CommitChange, CommitNothing,
                  PublishStatus, PublishDueDate, Reject, Acknowledge, GoWrong,
                  CommitUnanswered, StatementFails, PublishFails, RejectFails, Crash
    <3> QED BY <2>1, <3>1 DEF Goto
  <2> QED BY <1>2, <2>2, <2>3, <2>4 DEF Turn
<1> QED BY <1>1, <1>2, Turns

\* Between SELECT FOR UPDATE and COMMIT the row stays what it was.
LEMMA CommitStays ==
  ASSUME TypeInv, TypeInv', StoreInv, [Next]_vars PROVE CommitInv'
<1> SUFFICES ASSUME NEW c \in Consumers, step'[c] = "commit"
             PROVE  LET w == work'[c]
                        p == PatchOf[w.patch]
                    IN  /\ w.order \in Present' /\ w.row \in OrderRow
                        /\ lock'[w.order] = c
                        /\ p.date \in Dates /\ p.date > Since(orders'[w.order])
                        /\ Successor(cfg'.aggregate, w.patch, w, orders'[w.order])
  BY DEF CommitInv
<1>0. work'[c].patch \in Patches
  BY DEF TypeInv, BusyInv
<1>1. CASE Rests(c)
  <2> DEFINE o == work[c].order
  <2>1. /\ step[c] = "commit" /\ work'[c] = work[c]
        /\ o \in Present /\ work[c].row \in OrderRow /\ lock[o] = c
        /\ PatchOf[work[c].patch].date \in Dates
        /\ PatchOf[work[c].patch].date > Since(orders[o])
        /\ Successor(cfg.aggregate, work[c].patch, work[c], orders[o])
    BY <1>1 DEF Rests, StoreInv, CommitInv
  <2>2. o \in Orders /\ lock'[o] = c
    BY <1>1, <2>1 DEF Rests, Present
  <2>3. phase = "serving"
    BY <2>1 DEF StoreInv
  <2>4. cfg' = cfg
    BY <2>3, ServingStays
  <2>5. orders'[o] = orders[o]
    <3>1. CASE Still
      BY <3>1 DEF Still
    <3>2. ASSUME NEW r \in Requests, Inserts(r) PROVE orders'[o] = orders[o]
      BY <2>1, <2>2, <3>2, InsertEffect
    <3>3. ASSUME NEW d \in Consumers, Changes(d) PROVE orders'[o] = orders[o]
      <4>1. d # c
        BY <1>1, <2>1, <3>3 DEF Changes, Goto, Rests, TypeInv, TypeOK, PatchTypeOK
      <4>2. work[d].order # o
        BY <2>1, <3>3, <4>1, ChangeEffect
      <4> QED BY <2>2, <3>3, <4>2, ChangeEffect
    <3> QED BY <3>1, <3>2, <3>3, TableSteps
  <2>6. o \in Present'
    BY <2>1, <2>2, <2>5 DEF Present
  <2> QED BY <2>1, <2>2, <2>4, <2>5, <2>6
<1>2. CASE phase = "serving" /\ Turn(c)
  <2>1. /\ step \in [Consumers -> {"idle", "get", "commit", "status", "duedate",
                                   "reject", "return"}]
        /\ work \in [Consumers -> Work]
        /\ lock \in [Orders -> Consumers \cup {Null}]
        /\ orders \in [Orders -> OrderRow \cup {Null}]
    BY DEF TypeInv, TypeOK, PatchTypeOK
  <2>2. \E o \in Orders : Apply(c, o)
    <3>1. CASE \E m \in Patches : Receive(c, m) \/ ReceiveAgain(c, m)
      BY <2>1, <3>1 DEF Receive, ReceiveAgain, Goto
    <3>2. CASE (Handle(c) \/ GoWrong(c)) /\ ~\E o \in Orders : Apply(c, o)
      <4>1. \E to \in {"idle", "status", "duedate", "reject", "return"} : Goto(c, to)
        BY <3>2 DEF Handle, NotFound, Refuse, Panic, CommitChange, CommitNothing,
                    PublishStatus, PublishDueDate, Reject, Acknowledge, GoWrong,
                    CommitUnanswered, StatementFails, PublishFails, RejectFails, Crash
      <4> QED BY <2>1, <4>1 DEF Goto
    <3> QED BY <1>2, <3>1, <3>2 DEF Turn
  <2>3. PICK o \in Orders : Apply(c, o)
    BY <2>2
  <2> DEFINE w == Form(work[c].patch, o, orders[o])
  <2>4. /\ step[c] = "get" /\ o \in Present /\ UNCHANGED orders
        /\ IsNewer(PatchOf[work[c].patch], orders[o])
        /\ ~Unappliable(PatchOf[work[c].patch], orders[o])
        /\ ~Panics(PatchOf[work[c].patch], orders[o])
        /\ lock' = [lock EXCEPT ![o] = c] /\ work' = [work EXCEPT ![c] = w]
    BY <2>3 DEF Apply, Got, Targets, GetByID, GetByCDBProcessID, tableVars
  <2>5. orders[o] \in OrderRow /\ work[c].patch \in Patches
    BY <2>1, <2>4 DEF Present, TypeInv, BusyInv
  <2>6. /\ w.patch = work[c].patch /\ w.order = o /\ w.row \in OrderRow
        /\ Successor(cfg.aggregate, work[c].patch, w, orders[o])
    BY <1>2, <2>4, <2>5, FormIsSuccessor DEF TypeInv
  <2> HIDE DEF w
  <2>7. work'[c] = w /\ lock'[o] = c /\ orders'[o] = orders[o] /\ Present' = Present
    BY <2>1, <2>4 DEF Present
  <2>8. PatchOf[work[c].patch].date \in Dates
    BY <2>4 DEF StoreInv
  <2>9. cfg' = cfg
    BY <1>2, ServingStays
  <2> QED BY <2>4, <2>6, <2>7, <2>8, <2>9 DEF IsNewer
<1> QED BY <1>1, <1>2, Turns

LEMMA SinceIsDate == \A row \in OrderRow : Since(row) \in Dates
  BY DEF OrderRow, Since

LEMMA StoreInvInit == Init => StoreInv
<1> SUFFICES ASSUME Init PROVE StoreInv
  OBVIOUS
<1>1. Present = {} /\ log = {} /\ numbers = {} /\ \A c \in Consumers : step[c] = "idle"
  BY DEF Init, StoreInit, PatchInit, Present
<1> QED BY <1>1 DEF StoreInv, CommitInv

LEMMA StoreInvStep == TypeInv /\ TypeInv' /\ StoreInv /\ [Next]_vars => StoreInv'
<1> SUFFICES ASSUME TypeInv, TypeInv', StoreInv, [Next]_vars PROVE StoreInv'
  OBVIOUS
<1>1. CommitInv'
  BY CommitStays
<1>2. \A c \in Consumers :
        step'[c] \in {"get", "commit"} => PatchOf[work'[c].patch].date \in Dates
  BY DatesStay
<1>3. phase' # "serving" => Present' = {}
  <2> SUFFICES ASSUME phase' # "serving" PROVE Present' = {}
    OBVIOUS
  <2>1. phase # "serving"
    BY ServingStays
  <2>2. UNCHANGED orders
    BY <2>1 DEF Next, Boot, Consume, Serve, vars, storeVars, tableVars
  <2> QED BY <2>1, <2>2 DEF StoreInv, Present
<1> DEFINE Tables == /\ \A o \in Present : o < nextId
                     /\ log \subseteq LogRow
                     /\ \A l \in log : l.order \in Present
                     /\ \A row \in numbers : row[1] \in Present
<1>4. Tables'
  <2>1. nextId \in Nat /\ Present \subseteq Nat
    BY StoreAssumption DEF TypeInv, TypeOK, Present
  <2>2. CASE Still
    BY <2>1, <2>2 DEF Still, StoreInv, Present
  <2>3. ASSUME NEW r \in Requests, Inserts(r) PROVE Tables'
    <3>1. /\ nextId' = nextId + 1 /\ Present' = Present \cup {nextId} /\ UNCHANGED log
          /\ numbers' = numbers \cup ({nextId} \X GetMSISDNs(body[r]))
      BY <2>3, InsertEffect
    <3>2. \A o \in Present' : o < nextId'
      BY <2>1, <3>1 DEF StoreInv
    <3>3. \A row \in numbers' : row[1] \in Present'
      BY <3>1 DEF StoreInv
    <3> QED BY <3>1, <3>2, <3>3 DEF StoreInv
  <2>4. ASSUME NEW c \in Consumers, Changes(c) PROVE Tables'
    <3> DEFINE o == work[c].order
               l == [order |-> o, version |-> Since(orders[o]),
                     state |-> orders[o].state, due |-> orders[o].due,
                     data |-> orders[o].data, by |-> orders[o].by]
    <3>1. /\ o \in Orders /\ o \in Present /\ Present' = Present
          /\ orders[o] \in OrderRow /\ log' = log \cup {l}
          /\ UNCHANGED <<numbers, nextId>>
      BY <2>4, ChangeEffect
    <3>2. l \in LogRow /\ l.order = o
      BY <3>1, SinceIsDate DEF OrderRow, LogRow
    <3> HIDE DEF l
    <3> QED BY <3>1, <3>2 DEF StoreInv
  <2> QED BY <2>2, <2>3, <2>4, TableSteps
<1> QED BY <1>1, <1>2, <1>3, <1>4 DEF StoreInv

LEMMA Stored == Spec => [](TypeInv /\ StoreInv)
  BY TypeInit, TypeStep, StoreInvInit, StoreInvStep, PTL DEF Spec

-----------------------------------------------------------------------------
\* Creations.

\* Each request inserts at most one order, and knows it until it is done.
MineInv ==
  /\ \A r \in Requests : at[r] \in {"new", "check", "insert"} => mine[r] = Null
  /\ \A r \in Requests : mine[r] # Null => mine[r] \in Present
  /\ \A r \in Requests : at[r] = "publish" => mine[r] # Null
  /\ \A r, s \in Requests : r # s /\ mine[r] # Null => mine[r] # mine[s]

\* An order that is not announced waits for the request that inserted it, or
\* that request was answered otherwise.
AnnouncedInv ==
  /\ \A r \in Requests :
       answer[r] = OK => mine[r] \in Present /\ CreatedEvent(mine[r]) \in events
  /\ \A o \in Present :
       CreatedEvent(o) \notin events =>
         \E r \in Requests :
           mine[r] = o /\ (at[r] = "publish" \/ answer[r] \in {InternalError, NoAnswer})

\* The numbers in order_data are those of portation_numbers.
NumbersInv ==
  \A o \in Present : DOMAIN orders[o].data = {n \in Msisdns : <<o, n>> \in numbers}

\* What a request saw when it looked stood in the way neither then nor, unless
\* it was closed in between, later.
SeenInv ==
  /\ \A r \in Requests : seen[r] \subseteq Present
  /\ \A r \in Requests : \A o \in seen[r] :
       /\ ~cfg.disable /\ (at[r] = "insert" \/ mine[r] # Null)
       /\ \E n \in GetMSISDNs(body[r]) : <<o, n>> \in numbers
       => orders[o].state \in cfg.allowed \/ WasClosed(o)

\* One request moves in a step; the others keep what they have.
Serves(r) ==
  /\ phase = "serving"
  /\ \/ PanicInToModel(r) \/ Invalid(r) \/ CheckDocumentAccess(r)
     \/ CheckExistingOrders(r) \/ CreateOrderInDB(r) \/ CustomerMissing(r)
     \/ InsertRefused(r) \/ PublishCreated(r) \/ QueryFails(r)
     \/ CreateUnanswered(r) \/ PublishCreatedFails(r) \/ Die(r)

LEMMA NumbersStay ==
  TypeInv /\ StoreInv /\ NumbersInv /\ [Next]_vars => NumbersInv'
<1> SUFFICES ASSUME TypeInv, StoreInv, NumbersInv, [Next]_vars, NEW q \in Present'
             PROVE  DOMAIN orders'[q].data = {n \in Msisdns : <<q, n>> \in numbers'}
  BY DEF NumbersInv
<1>1. CASE Still
  BY <1>1 DEF Still, Present, NumbersInv
<1>2. ASSUME NEW r \in Requests, Inserts(r)
      PROVE  DOMAIN orders'[q].data = {n \in Msisdns : <<q, n>> \in numbers'}
  <2>1. /\ nextId \notin Present /\ Present' = Present \cup {nextId}
        /\ \A o \in Orders \ {nextId} : orders'[o] = orders[o]
        /\ numbers' = numbers \cup ({nextId} \X GetMSISDNs(body[r]))
    BY <1>2, InsertEffect
  <2>2. CASE q = nextId
    <3>1. PICK now \in CreationDates : orders'[nextId] = ToEntity(body[r], now)
      BY <1>2, InsertEffect
    <3>2. body[r] \in BodiesOf[r]
      BY DEF TypeInv, TypeOK, CreateTypeOK
    <3>3. /\ DOMAIN orders'[q].data = GetMSISDNs(body[r])
          /\ GetMSISDNs(body[r]) \subseteq Msisdns
      BY <2>2, <3>1, <3>2, EntityType
    <3>4. \A n : <<nextId, n>> \notin numbers
      BY <2>1 DEF StoreInv
    <3> QED BY <2>1, <2>2, <3>3, <3>4
  <2>3. CASE q # nextId
    <3>1. q \in Present /\ q \in Orders
      BY <2>1, <2>3 DEF Present
    <3> QED BY <2>1, <2>3, <3>1 DEF NumbersInv
  <2> QED BY <2>2, <2>3
<1>3. ASSUME NEW c \in Consumers, Changes(c)
      PROVE  DOMAIN orders'[q].data = {n \in Msisdns : <<q, n>> \in numbers'}
  <2> DEFINE o == work[c].order
  <2>1. /\ Present' = Present /\ orders'[o] = work[c].row /\ o \in Present
        /\ \A p \in Orders \ {o} : orders'[p] = orders[p]
        /\ UNCHANGED numbers
        /\ Successor(cfg.aggregate, work[c].patch, work[c], orders[o])
    BY <1>3, ChangeEffect
  <2>2. DOMAIN work[c].row.data = DOMAIN orders[o].data
    BY <2>1 DEF Successor
  <2>3. q \in Present /\ q \in Orders
    BY <2>1 DEF Present
  <2>4. CASE q = o
    BY <2>1, <2>2, <2>3, <2>4 DEF NumbersInv
  <2>5. CASE q # o
    BY <2>1, <2>3, <2>5 DEF NumbersInv
  <2> QED BY <2>4, <2>5
<1> QED BY <1>1, <1>2, <1>3, TableSteps

LEMMA TablesGrow ==
  ASSUME TypeInv, StoreInv, [Next]_vars
  PROVE  Present \subseteq Present' /\ log \subseteq log' /\ events \subseteq events'
<1>1. Present \subseteq Present' /\ log \subseteq log'
  <2>1. CASE Still
    BY <2>1 DEF Still, Present
  <2>2. ASSUME NEW r \in Requests, Inserts(r)
        PROVE  Present \subseteq Present' /\ log \subseteq log'
    BY <2>2, InsertEffect
  <2>3. ASSUME NEW c \in Consumers, Changes(c)
        PROVE  Present \subseteq Present' /\ log \subseteq log'
    BY <2>3, ChangeEffect
  <2> QED BY <2>1, <2>2, <2>3, TableSteps
<1>2. events \subseteq events'
  <2>1. CASE Boot \/ UNCHANGED vars
    BY <2>1 DEF Boot, vars, storeVars
  <2>2. CASE Serve
    BY <2>2 DEF Serve, CreateNext, PanicInToModel, Invalid, CheckDocumentAccess,
                CheckExistingOrders, CreateOrderInDB, CustomerMissing, InsertRefused,
                PublishCreated, QueryFails, CreateUnanswered, PublishCreatedFails, Die,
                storeVars
  <2>3. CASE Consume
    BY <2>3 DEF Consume, PatchNext, Receive, ReceiveAgain, Handle, NotFound, Refuse, Panic,
                Apply, CommitChange, CommitNothing, PublishStatus, PublishDueDate, Reject,
                Acknowledge, GoWrong, CommitUnanswered, StatementFails, PublishFails,
                RejectFails, Crash, storeVars
  <2> QED BY <2>1, <2>2, <2>3 DEF Next
<1> QED BY <1>1, <1>2

LEMMA Servings ==
  ASSUME TypeInv, StoreInv, [Next]_vars
  PROVE  \/ UNCHANGED createVars /\ Present' = Present
         \/ \E r \in Requests : Serves(r)
<1>1. CASE Serve
  BY <1>1 DEF Serve, CreateNext, Serves
<1>2. CASE Boot \/ Consume \/ UNCHANGED vars
  <2>1. UNCHANGED createVars
    BY <1>2 DEF Boot, Consume, vars
  <2>2. CASE Still
    BY <2>1, <2>2 DEF Still, Present
  <2>3. ASSUME NEW r \in Requests, Inserts(r) PROVE FALSE
    <3>1. at[r] = "insert" /\ (at' = [at EXCEPT ![r] = "publish"]
                              \/ at' = [at EXCEPT ![r] = "done"])
      BY <2>3 DEF Inserts, Proceed, Answer
    <3>2. at' = at /\ at \in [Requests -> {"new", "check", "insert", "publish", "done"}]
      BY <2>1 DEF createVars, TypeInv, TypeOK, CreateTypeOK
    <3> QED BY <3>1, <3>2
  <2>4. ASSUME NEW c \in Consumers, Changes(c) PROVE Present' = Present
    BY <2>4, ChangeEffect
  <2> QED BY <2>1, <2>2, <2>3, <2>4, TableSteps
<1> QED BY <1>1, <1>2 DEF Next

LEMMA ErrorsAreNotOK ==
  {InternalError, NoAnswer, Recovered, ErrInvalidParameterValue, ErrDocNotAllowed,
   ErrPortationRequestExists} \subseteq Answers \ {OK}
<1>1. OK.status = 200
  BY DEF OK
<1>2. /\ InternalError.status # 200 /\ NoAnswer.status # 200 /\ Recovered.status # 200
      /\ ErrInvalidParameterValue.status # 200 /\ ErrDocNotAllowed.status # 200
      /\ ErrPortationRequestExists.status # 200
  BY DEF InternalError, NoAnswer, Recovered, ErrInvalidParameterValue, ErrDocNotAllowed,
         ErrPortationRequestExists
<1> QED BY <1>1, <1>2 DEF Answers

\* What a step of the handler of r does to r.

LEMMA ServesInserts ==
  ASSUME TypeInv, StoreInv, [Next]_vars, NEW r \in Requests,
         Serves(r), CreateOrderInDB(r) \/ CreateUnanswered(r)
  PROVE  /\ at[r] = "insert" /\ nextId \notin Present /\ Present' = Present \cup {nextId}
         /\ mine' = [mine EXCEPT ![r] = nextId]
         /\ \/ Proceed(r, "publish") /\ UNCHANGED answer
            \/ Answer(r, InternalError)
         /\ UNCHANGED <<body, seen>>
<1>1. /\ at[r] = "insert" /\ CanInsert(Temps(body[r]), Msisdn(body[r]))
      /\ \E now \in CreationDates : Create(ToEntity(body[r], now), Msisdn(body[r]))
      /\ mine' = [mine EXCEPT ![r] = nextId]
      /\ \/ Proceed(r, "publish") /\ UNCHANGED answer
         \/ Answer(r, InternalError)
      /\ UNCHANGED <<body, seen>>
  BY DEF CreateOrderInDB, CreateUnanswered
<1>2. /\ body[r] \in BodiesOf[r] /\ nextId \in Partitioned /\ nextId \in Orders
      /\ nextId \in Nat /\ orders \in [Orders -> OrderRow \cup {Null}]
  BY <1>1, StoreAssumption DEF CanInsert, TypeInv, TypeOK, CreateTypeOK
<1>3. PICK now \in CreationDates : Create(ToEntity(body[r], now), Msisdn(body[r]))
  BY <1>1
<1>4. ToEntity(body[r], now) \in OrderRow /\ ToEntity(body[r], now) # Null
  BY <1>2, EntityType, NullIsNothing
<1>5. nextId \notin Present
  BY <1>2 DEF StoreInv
<1>6. Present' = Present \cup {nextId}
  BY <1>2, <1>3, <1>4 DEF Create, Present
<1> QED BY <1>1, <1>5, <1>6

LEMMA ServesOtherwise ==
  ASSUME TypeInv, StoreInv, [Next]_vars, NEW r \in Requests,
         Serves(r), ~(CreateOrderInDB(r) \/ CreateUnanswered(r))
  PROVE  /\ UNCHANGED <<body, mine>> /\ Present' = Present
         /\ \/ at[r] = "new" /\ Proceed(r, "check") /\ UNCHANGED <<answer, seen>>
            \/ at[r] = "check" /\ Proceed(r, "insert") /\ UNCHANGED answer
               /\ CheckExistingOrders(r)
            \/ at[r] = "check" /\ Answer(r, ErrPortationRequestExists)
               /\ CheckExistingOrders(r)
            \/ at[r] = "publish" /\ Answer(r, OK) /\ UNCHANGED seen
               /\ CreatedEvent(mine[r]) \in events'
            \/ /\ at[r] # "done" /\ UNCHANGED seen
               /\ \E a \in Answers \ {OK} :
                    /\ Answer(r, a)
                    /\ at[r] = "publish" => a \in {InternalError, NoAnswer}
<1>1. UNCHANGED <<body, mine>>
  BY DEF Serves, PanicInToModel, Invalid, CheckDocumentAccess, CheckExistingOrders,
         CustomerMissing, InsertRefused, PublishCreated, QueryFails, PublishCreatedFails, Die
<1>2. Present' = Present
  BY DEF Serves, PanicInToModel, Invalid, CheckDocumentAccess, CheckExistingOrders,
         CustomerMissing, InsertRefused, PublishCreated, QueryFails, PublishCreatedFails,
         Die, storeVars, tableVars, RolledBack, CreateFails, Present
<1>3. CASE CheckDocumentAccess(r) /\ Proceed(r, "check") /\ UNCHANGED answer
  BY <1>1, <1>2, <1>3 DEF CheckDocumentAccess
<1>4. CASE CheckExistingOrders(r)
  BY <1>1, <1>2, <1>4 DEF CheckExistingOrders
<1>5. CASE PublishCreated(r)
  BY <1>1, <1>2, <1>5 DEF PublishCreated
<1>6. CASE /\ ~CheckExistingOrders(r) /\ ~PublishCreated(r)
           /\ ~(CheckDocumentAccess(r) /\ Proceed(r, "check") /\ UNCHANGED answer)
  <2>1. {InternalError, NoAnswer, Recovered, ErrInvalidParameterValue, ErrDocNotAllowed}
          \subseteq Answers \ {OK}
    BY ErrorsAreNotOK
  <2>2. CASE Invalid(r)
    <3>1. /\ at[r] = "new" /\ UNCHANGED seen
          /\ \/ Validate(body[r]) # OK /\ Answer(r, Validate(body[r]))
             \/ Answer(r, ErrInvalidParameterValue)
      BY <2>2 DEF Invalid
    <3> QED BY <1>1, <1>2, <2>1, <3>1, ValidateAnswers
  <2>3. CASE PanicInToModel(r)
    <3>1. at[r] = "new" /\ UNCHANGED seen /\ Answer(r, Recovered)
      BY <2>3 DEF PanicInToModel
    <3> QED BY <1>1, <1>2, <2>1, <3>1
  <2>4. CASE CheckDocumentAccess(r)
    <3>1. at[r] = "new" /\ UNCHANGED seen /\ Answer(r, ErrDocNotAllowed)
      BY <1>6, <2>4 DEF CheckDocumentAccess
    <3> QED BY <1>1, <1>2, <2>1, <3>1
  <2>5. CASE CustomerMissing(r) \/ InsertRefused(r) \/ QueryFails(r)
             \/ PublishCreatedFails(r) \/ Die(r)
    <3>1. /\ at[r] \in {"check", "insert", "publish"} /\ UNCHANGED seen
          /\ Answer(r, InternalError) \/ Answer(r, NoAnswer)
      BY <2>5 DEF CustomerMissing, InsertRefused, QueryFails, PublishCreatedFails, Die
    <3> QED BY <1>1, <1>2, <2>1, <3>1
  <2> QED BY <1>6, <2>2, <2>3, <2>4, <2>5 DEF Serves
<1> QED BY <1>3, <1>4, <1>5, <1>6

LEMMA MineStays ==
  TypeInv /\ StoreInv /\ MineInv /\ [Next]_vars => MineInv'
<1> SUFFICES ASSUME TypeInv, StoreInv, MineInv, [Next]_vars PROVE MineInv'
  OBVIOUS
<1>1. /\ at \in [Requests -> {"new", "check", "insert", "publish", "done"}]
      /\ mine \in [Requests -> Partitioned \cup {Null}]
      /\ nextId # Null /\ Present \subseteq Present'
  <2>1. nextId \in Nat /\ Null \notin Int
    BY StoreAssumption DEF TypeInv, TypeOK
  <2>2. nextId # Null
    <3>1. \A x \in Nat : x \in Int
      OBVIOUS
    <3> QED BY <2>1, <3>1, Zenon
  <2> QED BY <2>2, TablesGrow DEF TypeInv, TypeOK, CreateTypeOK
<1>2. CASE UNCHANGED createVars
  BY <1>1, <1>2 DEF createVars, MineInv
<1>3. ASSUME NEW r \in Requests, Serves(r), CreateOrderInDB(r) \/ CreateUnanswered(r)
      PROVE  MineInv'
  <2>1. /\ nextId \notin Present /\ Present' = Present \cup {nextId}
        /\ mine' = [mine EXCEPT ![r] = nextId]
        /\ at' = [at EXCEPT ![r] = "publish"] \/ at' = [at EXCEPT ![r] = "done"]
    BY <1>3, ServesInserts DEF Proceed, Answer
  <2> QED BY <1>1, <2>1 DEF MineInv
<1>4. ASSUME NEW r \in Requests, Serves(r), ~(CreateOrderInDB(r) \/ CreateUnanswered(r))
      PROVE  MineInv'
  <2>1. /\ UNCHANGED mine
        /\ \/ at' = [at EXCEPT ![r] = "done"]
           \/ at[r] = "new" /\ at' = [at EXCEPT ![r] = "check"]
           \/ at[r] = "check" /\ at' = [at EXCEPT ![r] = "insert"]
    BY <1>4, ServesOtherwise DEF Proceed, Answer
  <2> QED BY <1>1, <2>1 DEF MineInv
<1> QED BY <1>2, <1>3, <1>4, Servings

LEMMA AnnouncedStays ==
  TypeInv /\ StoreInv /\ MineInv /\ AnnouncedInv /\ [Next]_vars => AnnouncedInv'
<1> SUFFICES ASSUME TypeInv, StoreInv, MineInv, AnnouncedInv, [Next]_vars
             PROVE  AnnouncedInv'
  OBVIOUS
<1>1. /\ at \in [Requests -> {"new", "check", "insert", "publish", "done"}]
      /\ mine \in [Requests -> Partitioned \cup {Null}]
      /\ answer \in [Requests -> Answers \cup {Null}]
      /\ \A r \in Requests : at[r] = "done" <=> answer[r] # Null
      /\ Present \subseteq Present' /\ events \subseteq events'
      /\ \A o : CreatedEvent(o)' = CreatedEvent(o)
  BY TablesGrow DEF TypeInv, TypeOK, CreateTypeOK, CreatedEvent
<1>2. OK # InternalError /\ OK # NoAnswer /\ Null \notin {OK, InternalError, NoAnswer}
      /\ OK # ErrPortationRequestExists
  <2>1. {OK, InternalError, NoAnswer} \subseteq Answers
    BY DEF Answers
  <2> QED BY <2>1, NullIsNothing, ErrorsAreNotOK
<1> DEFINE Told(r) == mine[r] \in Present /\ CreatedEvent(mine[r]) \in events
           Owes(r) == at[r] = "publish" \/ answer[r] \in {InternalError, NoAnswer}
<1>3. CASE UNCHANGED createVars /\ Present' = Present
  BY <1>1, <1>3 DEF createVars, AnnouncedInv
<1>4. ASSUME NEW r \in Requests, Serves(r), CreateOrderInDB(r) \/ CreateUnanswered(r)
      PROVE  AnnouncedInv'
  <2>1. /\ at[r] = "insert"
        /\ Present' = Present \cup {nextId}
        /\ mine' = [mine EXCEPT ![r] = nextId]
        /\ \/ at' = [at EXCEPT ![r] = "publish"] /\ UNCHANGED answer
           \/ at' = [at EXCEPT ![r] = "done"]
              /\ answer' = [answer EXCEPT ![r] = InternalError]
    BY <1>4, ServesInserts DEF Proceed, Answer
  <2>2. answer[r] = Null /\ mine[r] = Null
    BY <1>1, <2>1 DEF MineInv
  <2>3. ASSUME NEW s \in Requests, answer'[s] = OK
        PROVE  mine'[s] \in Present' /\ CreatedEvent(mine'[s]) \in events'
    <3>1. s # r /\ answer[s] = OK /\ mine'[s] = mine[s]
      BY <1>1, <1>2, <2>1, <2>2, <2>3
    <3> QED BY <1>1, <3>1 DEF AnnouncedInv
  <2>4. ASSUME NEW o \in Present', CreatedEvent(o) \notin events'
        PROVE  \E s \in Requests : mine'[s] = o /\ Owes(s)'
    <3>1. CASE o = nextId
      BY <1>1, <2>1, <3>1
    <3>2. CASE o # nextId
      <4>1. PICK s \in Requests : mine[s] = o /\ Owes(s)
        BY <1>1, <2>1, <2>4, <3>2 DEF AnnouncedInv
      <4>2. s # r
        BY <1>2, <2>1, <2>2, <4>1
      <4> QED BY <1>1, <2>1, <4>1, <4>2
    <3> QED BY <3>1, <3>2
  <2> QED BY <1>1, <2>3, <2>4 DEF AnnouncedInv
<1>5. ASSUME NEW r \in Requests, Serves(r), ~(CreateOrderInDB(r) \/ CreateUnanswered(r))
      PROVE  AnnouncedInv'
  <2>1. UNCHANGED mine /\ Present' = Present
    BY <1>5, ServesOtherwise
  <2>2. \/ at[r] \in {"new", "check"} /\ UNCHANGED answer
           /\ \E to \in {"check", "insert"} : at' = [at EXCEPT ![r] = to]
        \/ /\ at[r] = "publish" /\ CreatedEvent(mine[r]) \in events'
           /\ at' = [at EXCEPT ![r] = "done"] /\ answer' = [answer EXCEPT ![r] = OK]
        \/ /\ at[r] # "done" /\ at' = [at EXCEPT ![r] = "done"]
           /\ \E a : /\ a # OK /\ answer' = [answer EXCEPT ![r] = a]
                     /\ at[r] = "publish" => a \in {InternalError, NoAnswer}
    BY <1>2, <1>5, ServesOtherwise DEF Proceed, Answer
  <2>3. ASSUME NEW s \in Requests, answer'[s] = OK
        PROVE  mine'[s] \in Present' /\ CreatedEvent(mine'[s]) \in events'
    <3>1. answer[s] = OK \/ (s = r /\ at[r] = "publish" /\ CreatedEvent(mine[r]) \in events')
      BY <1>1, <2>2, <2>3
    <3> QED BY <1>1, <2>1, <3>1 DEF AnnouncedInv, MineInv
  <2>4. ASSUME NEW o \in Present', CreatedEvent(o) \notin events'
        PROVE  \E s \in Requests : mine'[s] = o /\ Owes(s)'
    <3>1. PICK s \in Requests : mine[s] = o /\ Owes(s)
      BY <1>1, <2>1, <2>4 DEF AnnouncedInv
    <3>2. CASE s # r
      BY <1>1, <2>1, <2>2, <3>1, <3>2
    <3>3. CASE s = r
      <4>1. at[r] = "publish"
        BY <1>1, <1>2, <2>2, <3>1, <3>3
      <4> QED BY <1>1, <2>1, <2>2, <2>4, <3>1, <3>3, <4>1
    <3> QED BY <3>2, <3>3
  <2> QED BY <1>1, <2>3, <2>4 DEF AnnouncedInv
<1> QED BY <1>3, <1>4, <1>5, Servings

\* An order that lets new ones in stays so, or has been so.
LEMMA ClosedStays ==
  ASSUME TypeInv, StoreInv, [Next]_vars, NEW o \in Present,
         orders[o].state \in cfg.allowed \/ WasClosed(o)
  PROVE  orders'[o].state \in cfg'.allowed \/ WasClosed(o)'
<1>1. phase = "serving" /\ o \in Orders
  BY DEF StoreInv, Present
<1>2. cfg' = cfg /\ log \subseteq log'
  BY <1>1, ServingStays, TablesGrow
<1>3. CASE WasClosed(o)
  BY <1>2, <1>3 DEF WasClosed
<1>4. CASE orders'[o] = orders[o]
  BY <1>2, <1>3, <1>4
<1>5. CASE orders'[o] # orders[o]
  <2>1. CASE Still
    BY <1>5, <2>1 DEF Still
  <2>2. ASSUME NEW r \in Requests, Inserts(r) PROVE FALSE
    BY <1>1, <1>5, <2>2, InsertEffect
  <2>3. ASSUME NEW c \in Consumers, Changes(c), orders[o].state \in cfg.allowed
        PROVE  WasClosed(o)'
    <3> DEFINE l == [order |-> o, version |-> Since(orders[o]),
                     state |-> orders[o].state, due |-> orders[o].due,
                     data |-> orders[o].data, by |-> orders[o].by]
    <3>1. l \in log'
      BY <1>1, <1>5, <2>3, ChangeEffect
    <3>2. l.order = o /\ l.state \in cfg'.allowed
      BY <1>2, <2>3
    <3> QED BY <3>1, <3>2 DEF WasClosed
  <2> QED BY <1>3, <2>1, <2>2, <2>3, TableSteps
<1> QED BY <1>4, <1>5

\* An order gets no numbers after it was inserted.
LEMMA NumbersFixed ==
  ASSUME TypeInv, StoreInv, [Next]_vars, NEW o \in Present, NEW n, <<o, n>> \in numbers'
  PROVE  <<o, n>> \in numbers
<1>1. CASE Still
  BY <1>1 DEF Still
<1>2. ASSUME NEW r \in Requests, Inserts(r) PROVE <<o, n>> \in numbers
  BY <1>2, InsertEffect
<1>3. ASSUME NEW c \in Consumers, Changes(c) PROVE <<o, n>> \in numbers
  BY <1>3, ChangeEffect
<1> QED BY <1>1, <1>2, <1>3, TableSteps

LEMMA SeenStays ==
  TypeInv /\ StoreInv /\ MineInv /\ SeenInv /\ [Next]_vars => SeenInv'
<1> SUFFICES ASSUME TypeInv, StoreInv, MineInv, SeenInv, [Next]_vars PROVE SeenInv'
  OBVIOUS
<1>1. /\ at \in [Requests -> {"new", "check", "insert", "publish", "done"}]
      /\ mine \in [Requests -> Partitioned \cup {Null}]
      /\ seen \in [Requests -> SUBSET Orders]
      /\ Present \subseteq Present'
  BY TablesGrow DEF TypeInv, TypeOK, CreateTypeOK
<1> DEFINE Stands(s, o) ==
             /\ ~cfg.disable /\ (at[s] = "insert" \/ mine[s] # Null)
             /\ \E n \in GetMSISDNs(body[s]) : <<o, n>> \in numbers
\* A request that looked before this step.
<1>2. ASSUME NEW s \in Requests, seen'[s] = seen[s], body' = body,
             at'[s] = "insert" \/ mine'[s] # Null => at[s] = "insert" \/ mine[s] # Null,
             NEW o \in seen'[s], Stands(s, o)'
      PROVE  orders'[o].state \in cfg'.allowed \/ WasClosed(o)'
  <2>1. o \in seen[s] /\ o \in Present /\ phase = "serving"
    BY <1>2 DEF SeenInv, StoreInv
  <2>2. cfg' = cfg
    BY <2>1, ServingStays
  <2>3. Stands(s, o)
    BY <1>2, <2>1, <2>2, NumbersFixed
  <2> QED BY <2>1, <2>3, ClosedStays DEF SeenInv
<1> HIDE DEF Stands
<1>3. ASSUME \A s \in Requests : seen'[s] \subseteq Present',
             \A s \in Requests : \A o \in seen'[s] :
               Stands(s, o)' => orders'[o].state \in cfg'.allowed \/ WasClosed(o)'
      PROVE  SeenInv'
  BY <1>3 DEF SeenInv, Stands
<1>4. CASE UNCHANGED createVars
  <2>1. \A s \in Requests : seen'[s] \subseteq Present'
    BY <1>1, <1>4 DEF createVars, SeenInv
  <2>2. \A s \in Requests : \A o \in seen'[s] :
          Stands(s, o)' => orders'[o].state \in cfg'.allowed \/ WasClosed(o)'
    BY <1>2, <1>4 DEF createVars
  <2> QED BY <1>3, <2>1, <2>2
<1>5. ASSUME NEW r \in Requests, Serves(r), CreateOrderInDB(r) \/ CreateUnanswered(r)
      PROVE  SeenInv'
  <2>1. /\ at[r] = "insert" /\ mine' = [mine EXCEPT ![r] = nextId]
        /\ at' = [at EXCEPT ![r] = "publish"] \/ at' = [at EXCEPT ![r] = "done"]
        /\ UNCHANGED <<body, seen>>
    BY <1>5, ServesInserts DEF Proceed, Answer
  <2>2. \A s \in Requests :
          at'[s] = "insert" \/ mine'[s] # Null => at[s] = "insert" \/ mine[s] # Null
    BY <1>1, <2>1
  <2>3. \A s \in Requests : seen'[s] \subseteq Present'
    BY <1>1, <2>1 DEF SeenInv
  <2>4. \A s \in Requests : \A o \in seen'[s] :
          Stands(s, o)' => orders'[o].state \in cfg'.allowed \/ WasClosed(o)'
    BY <1>2, <2>1, <2>2
  <2> QED BY <1>3, <2>3, <2>4
<1>6. ASSUME NEW r \in Requests, Serves(r), ~(CreateOrderInDB(r) \/ CreateUnanswered(r)),
             ~CheckExistingOrders(r)
      PROVE  SeenInv'
  <2>1. /\ UNCHANGED <<body, mine, seen>>
        /\ at' = [at EXCEPT ![r] = "check"] \/ at' = [at EXCEPT ![r] = "done"]
    BY <1>6, ServesOtherwise DEF Proceed, Answer
  <2>2. \A s \in Requests :
          at'[s] = "insert" \/ mine'[s] # Null => at[s] = "insert" \/ mine[s] # Null
    BY <1>1, <2>1
  <2>3. \A s \in Requests : seen'[s] \subseteq Present'
    BY <1>1, <2>1 DEF SeenInv
  <2>4. \A s \in Requests : \A o \in seen'[s] :
          Stands(s, o)' => orders'[o].state \in cfg'.allowed \/ WasClosed(o)'
    BY <1>2, <2>1, <2>2
  <2> QED BY <1>3, <2>3, <2>4
<1>7. ASSUME NEW r \in Requests, Serves(r), CheckExistingOrders(r) PROVE SeenInv'
  <2>1. /\ at[r] = "check" /\ mine[r] = Null
        /\ seen' = [seen EXCEPT ![r] = Present] /\ UNCHANGED <<storeVars, body, mine>>
    BY <1>7 DEF CheckExistingOrders, MineInv
  <2>2. cfg' = cfg /\ Present' = Present /\ UNCHANGED <<orders, log, numbers>>
    BY <1>7, <2>1, ServingStays DEF Serves, storeVars, tableVars, Present
  <2>3. \A s \in Requests \ {r} : at'[s] = at[s] /\ seen'[s] = seen[s]
    BY <1>1, <1>7, <2>1 DEF CheckExistingOrders, Proceed, Answer
  <2>4. \A s \in Requests : seen'[s] \subseteq Present'
    BY <1>1, <2>1, <2>2, <2>3 DEF SeenInv
  <2>5. ASSUME NEW o \in seen'[r], Stands(r, o)'
        PROVE  orders'[o].state \in cfg'.allowed
    <3>1. o \in Present /\ mine'[r] = Null
      BY <1>1, <2>1, <2>5
    <3>2. ~cfg.disable /\ at'[r] = "insert" /\ \E n \in GetMSISDNs(body[r]) : <<o, n>> \in numbers
      BY <2>1, <2>2, <2>5, <3>1 DEF Stands
    <3>3. FindOpenOrdersByMSISDN(GetMSISDNs(body[r]), cfg.allowed) = {}
      BY <1>1, <1>7, <3>2 DEF CheckExistingOrders, Answer, Proceed
    <3> QED BY <2>2, <3>1, <3>2, <3>3 DEF FindOpenOrdersByMSISDN
  <2>6. ASSUME NEW s \in Requests, s # r, NEW o \in seen'[s], Stands(s, o)'
        PROVE  orders'[o].state \in cfg'.allowed \/ WasClosed(o)'
    BY <1>2, <2>1, <2>3, <2>6
  <2> QED BY <1>3, <2>4, <2>5, <2>6
<1> QED BY <1>4, <1>5, <1>6, <1>7, Servings

CreationInv == MineInv /\ AnnouncedInv /\ NumbersInv /\ SeenInv

LEMMA CreationInvInit == Init => CreationInv
<1> SUFFICES ASSUME Init PROVE CreationInv
  OBVIOUS
<1>1. /\ Present = {}
      /\ \A r \in Requests :
           at[r] = "new" /\ mine[r] = Null /\ seen[r] = {} /\ answer[r] = Null
  BY DEF Init, StoreInit, CreateInit, Present
<1>2. Null # OK
  BY NullIsNothing DEF Answers
<1> QED BY <1>1, <1>2 DEF CreationInv, MineInv, AnnouncedInv, NumbersInv, SeenInv

LEMMA CreationInvStep ==
  TypeInv /\ StoreInv /\ CreationInv /\ [Next]_vars => CreationInv'
  BY MineStays, AnnouncedStays, NumbersStay, SeenStays DEF CreationInv

LEMMA Created == Spec => []CreationInv
  BY Stored, CreationInvInit, CreationInvStep, PTL DEF Spec

\* A caller that got 200 has an order of its own that was announced, and an
\* order nobody announced belongs to a request on its way or answered otherwise,
\* for any number of requests and any ids the sequence gives
\* (portin_create_order.go:34-49).
THEOREM ConfirmationsHold == Spec => []ConfirmedIsAnnounced
<1>1. CreationInv => ConfirmedIsAnnounced
  BY DEF CreationInv, MineInv, AnnouncedInv, ConfirmedIsAnnounced
<1> QED BY <1>1, Created, PTL

\* Two open orders have a number in common only when the second was looked for
\* before the first was inserted, or the first was closed and opened again
\* (portin_create_order.go:29-34).
THEOREM OnlyRacesDuplicate == Spec => []DuplicatesAreRaces
<1>1. CreationInv => DuplicatesAreRaces
  BY DEF CreationInv, SeenInv, IsOpen, DuplicatesAreRaces
<1> QED BY <1>1, Created, PTL

\* An order is stored with all of its numbers or not at all, and is found by
\* each of them, whatever patches made of it
\* (portin_order_repository.go:75-107, 357-362).
THEOREM OrdersStoredWhole == Spec => []OrdersAreWhole
<1>1. ASSUME TypeInv, CreationInv PROVE OrdersAreWhole
  <2> SUFFICES ASSUME NEW o \in Present, NEW resp \in GetPortInOrder(o)
               PROVE  /\ \A n \in DOMAIN resp.portationNumbers :
                           [resp EXCEPT !.cdbProcessId = Null] \in GetPortInOrders(n, Null)
                      /\ resp.cdbProcessId # Null =>
                           [resp EXCEPT !.cdbProcessId = Null]
                             \in GetPortInOrders(Null, resp.cdbProcessId)
    BY <1>1 DEF OrdersAreWhole, CreationInv, NumbersInv
  <2> DEFINE row == orders[o]
             found == [id |-> o, row |-> [row EXCEPT !.cdb = Null]]
  <2>1. row \in OrderRow /\ DOMAIN row.data = {n \in Msisdns : <<o, n>> \in numbers}
    BY <1>1 DEF TypeInv, TypeOK, Present, CreationInv, NumbersInv
  <2>2. resp = Response(o, row)
    BY DEF GetPortInOrder, GetByID
  <2>3. [resp EXCEPT !.cdbProcessId = Null] = Response(found.id, found.row)
    BY <2>1, <2>2 DEF Response, OrderRow
  <2>4. resp.portationNumbers = row.data /\ resp.cdbProcessId = row.cdb
    BY <2>2 DEF Response
  <2>5. ASSUME NEW n \in DOMAIN row.data
        PROVE  [resp EXCEPT !.cdbProcessId = Null] \in GetPortInOrders(n, Null)
    <3>1. found \in Search(n, Null)
      BY <2>1, <2>5 DEF Search
    <3> HIDE DEF found
    <3> QED BY <2>3, <3>1 DEF GetPortInOrders
  <2>6. ASSUME row.cdb # Null
        PROVE  [resp EXCEPT !.cdbProcessId = Null] \in GetPortInOrders(Null, row.cdb)
    <3>1. found \in Search(Null, row.cdb)
      BY DEF Search
    <3> HIDE DEF found
    <3> QED BY <2>3, <3>1 DEF GetPortInOrders
  <2> QED BY <2>4, <2>5, <2>6
<1> QED BY <1>1, Typed, Created, PTL
=============================================================================
