-------------------------- MODULE SessionLockProofs --------------------------
(***************************************************************************)
(* What SessionLock guarantees for any replicas, jobs, users of the pools,  *)
(* pool sizes and losses: its types; that replicas exclude each other       *)
(* unless one of them lost its lock; that a run is refused only because of  *)
(* another in progress or of an unlock that missed its session; and that    *)
(* the lock implements JobMutex.                                            *)
(***************************************************************************)
EXTENDS SessionLock, FiniteSetTheorems, SequenceTheorems, TLAPS

-----------------------------------------------------------------------------
\* The pool.

LEMMA LendEffect ==
  ASSUME TypeOK, NEW u \in Users, Lend(u)
  PROVE  /\ conn'[u] \in Sessions
         /\ conn' = [conn EXCEPT ![u] = conn'[u]]
         /\ free' \in [Replicas -> Seq(Sessions)]
         /\ \A p \in Replicas \ {ReplicaOf[u]} : free'[p] = free[p]
         /\ \/ /\ Len(free[ReplicaOf[u]]) = 0
               /\ free' = free
               /\ conn'[u] \in Unopened(ReplicaOf[u])
            \/ /\ Len(free[ReplicaOf[u]]) > 0
               /\ Len(free'[ReplicaOf[u]]) = Len(free[ReplicaOf[u]]) - 1
               /\ conn'[u] = free[ReplicaOf[u]][Len(free[ReplicaOf[u]])]
               /\ \A i \in 1..Len(free'[ReplicaOf[u]]) :
                    free'[ReplicaOf[u]][i] = free[ReplicaOf[u]][i]
<1> DEFINE p == ReplicaOf[u]
           n == Len(free[p])
<1>1. p \in Replicas /\ free[p] \in Seq(Sessions)
  BY LockAssumption DEF TypeOK
<1>2. n \in Nat /\ \A i \in 1..n : free[p][i] \in Sessions
  BY <1>1, LenProperties, ElementOfSeq
<1>3. conn \in [Users -> Sessions \cup {NoSession}]
  BY DEF TypeOK
<1>4. CASE /\ n > 0
           /\ conn' = [conn EXCEPT ![u] = free[p][n]]
           /\ free' = [free EXCEPT ![p] = SubSeq(free[p], 1, n - 1)]
  <2> DEFINE t == SubSeq(free[p], 1, n - 1)
  <2>1. /\ t \in Seq(Sessions) /\ Len(t) = n - 1
        /\ \A i \in 1..(n - 1) : t[i] = free[p][i]
    BY <1>2, <1>4, SubSeqProperties
  <2>2. free'[p] = t /\ free' \in [Replicas -> Seq(Sessions)]
    BY <1>1, <1>4, <2>1 DEF TypeOK
  <2>3. \A q \in Replicas \ {p} : free'[q] = free[q]
    BY <1>4 DEF TypeOK
  <2>4. conn'[u] = free[p][n] /\ free[p][n] \in Sessions
    BY <1>2, <1>3, <1>4
  <2> QED BY <1>2, <1>4, <2>1, <2>2, <2>3, <2>4
<1>5. CASE /\ n = 0 /\ Unopened(p) # {}
           /\ conn' = [conn EXCEPT ![u] = CHOOSE s \in Unopened(p) : TRUE]
           /\ UNCHANGED free
  <2>1. PICK s \in Unopened(p) : conn' = [conn EXCEPT ![u] = s]
    BY <1>5
  <2>2. s \in Sessions /\ conn'[u] = s
    BY <1>1, <1>3, <2>1 DEF Unopened, Sessions
  <2> QED BY <1>5, <2>1, <2>2 DEF TypeOK
<1> QED BY <1>4, <1>5 DEF Lend

\* The effect of TakeBack but for the histories: the connection is idle in the
\* pool with its locks, or it is closed.
LEMMA TakeBackEffect ==
  ASSUME TypeOK, NEW u \in Users, conn[u] \in Sessions,
         NEW locks \in [Jobs -> 0..MaxHeld], NEW to, TakeBack(u, locks, to)
  PROVE  /\ conn' = [conn EXCEPT ![u] = NoSession]
         /\ pc' = [pc EXCEPT ![u] = to]
         /\ UNCHANGED failures
         /\ free' \in [Replicas -> Seq(Sessions)]
         /\ held' \in [Sessions -> [Jobs -> 0..MaxHeld]]
         /\ \A s \in Sessions \ {conn[u]} : held'[s] = held[s]
         /\ \A p \in Replicas \ {ReplicaOf[u]} : free'[p] = free[p]
         /\ \/ /\ held'[conn[u]] = locks
               /\ DropLocks(conn[u], NoLocks)
               /\ free'[ReplicaOf[u]] = Append(free[ReplicaOf[u]], conn[u])
            \/ /\ held'[conn[u]] = NoLocks
               /\ DropLocks(conn[u], locks)
               /\ UNCHANGED free
<1> DEFINE p == ReplicaOf[u]
           n == Len(free[p])
<1>1. p \in Replicas /\ free[p] \in Seq(Sessions)
  BY LockAssumption DEF TypeOK
<1>2. NoLocks \in [Jobs -> 0..MaxHeld]
  BY LockAssumption DEF NoLocks
<1>3. /\ conn' = [conn EXCEPT ![u] = NoSession]
      /\ pc' = [pc EXCEPT ![u] = to] /\ UNCHANGED failures
      /\ IF n < MaxIdle
           THEN /\ free' = [free EXCEPT ![p] = Append(free[p], conn[u])]
                /\ held' = [held EXCEPT ![conn[u]] = locks]
                /\ DropLocks(conn[u], NoLocks)
           ELSE /\ held' = [held EXCEPT ![conn[u]] = NoLocks]
                /\ DropLocks(conn[u], locks) /\ UNCHANGED free
  BY DEF TakeBack, Goto
<1>4. CASE n < MaxIdle
  <2>1. Append(free[p], conn[u]) \in Seq(Sessions)
    BY <1>1, AppendProperties
  <2>2. /\ free'[p] = Append(free[p], conn[u])
        /\ free' \in [Replicas -> Seq(Sessions)]
        /\ \A q \in Replicas \ {p} : free'[q] = free[q]
    BY <1>1, <1>3, <1>4, <2>1 DEF TypeOK
  <2>3. /\ held'[conn[u]] = locks /\ held' \in [Sessions -> [Jobs -> 0..MaxHeld]]
        /\ \A s \in Sessions \ {conn[u]} : held'[s] = held[s]
    BY <1>3, <1>4 DEF TypeOK
  <2> QED BY <1>3, <1>4, <2>2, <2>3
<1>5. CASE ~(n < MaxIdle)
  <2>1. /\ held'[conn[u]] = NoLocks /\ held' \in [Sessions -> [Jobs -> 0..MaxHeld]]
        /\ \A s \in Sessions \ {conn[u]} : held'[s] = held[s]
    BY <1>2, <1>3, <1>5 DEF TypeOK
  <2>2. UNCHANGED free
    BY <1>3, <1>5
  <2> QED BY <1>3, <1>5, <2>1, <2>2 DEF TypeOK
<1> QED BY <1>4, <1>5

\* The locks that a session holds after a statement of the user u.
LocksAfter(u) ==
  IF pc[u] = "locking" /\ ~LockedElsewhere(conn[u], JobOf[u])
    THEN [held[conn[u]] EXCEPT ![JobOf[u]] = IF @ < MaxHeld THEN @ + 1 ELSE @]
    ELSE IF pc[u] = "unlocking"
      THEN [held[conn[u]] EXCEPT ![JobOf[u]] = IF @ > 0 THEN @ - 1 ELSE 0]
      ELSE held[conn[u]]

\* Where u is after the statement, and the pair whose lock it misses.
PlaceAfter(u) ==
  IF pc[u] = "locking" /\ ~LockedElsewhere(conn[u], JobOf[u]) THEN "locked"
    ELSE IF pc[u] = "reading" THEN "read"
      ELSE IF pc[u] = "tx" THEN "ending" ELSE "idle"

MissedBy(u) ==
  IF pc[u] = "unlocking" /\ held[conn[u]][JobOf[u]] = 0
    THEN {<<ReplicaOf[u], JobOf[u]>>} ELSE {}

LEMMA LocksAfterType ==
  ASSUME TypeOK, NEW u \in Users, conn[u] \in Sessions,
         pc[u] \in {"locking", "unlocking"} => u \in Runs
  PROVE  LocksAfter(u) \in [Jobs -> 0..MaxHeld]
<1>1. held[conn[u]] \in [Jobs -> 0..MaxHeld]
  BY DEF TypeOK
<1>2. u \in Runs => held[conn[u]][JobOf[u]] \in 0..MaxHeld
  BY <1>1, LockAssumption
<1> QED BY <1>1, <1>2, LockAssumption DEF LocksAfter

\* Every step of a user but a failure sends a statement, is answered one, or is
\* a source error of a run.
Sends(u) ==
  \/ pc[u] = "idle" /\ u \in Runs /\ Send(u, "locking")
  \/ pc[u] = "idle" /\ u \in Probes /\ Send(u, "pinging")
  \/ pc[u] = "locked" /\ u \in Runs /\ Send(u, "reading")
  \/ pc[u] = "read" /\ u \in Runs /\ Send(u, "tx")
  \/ pc[u] = "ending" /\ u \in Runs /\ Send(u, "unlocking")

Returns(u) ==
  /\ \/ pc[u] \in {"locking", "reading", "tx", "unlocking"} /\ u \in Runs
     \/ pc[u] = "pinging" /\ u \in Probes
  /\ TakeBack(u, LocksAfter(u), PlaceAfter(u)) /\ LeakLocks(MissedBy(u))

LEMMA Steps ==
  ASSUME [Next]_vars
  PROVE  \/ UNCHANGED vars
         \/ \E u \in Users : Sends(u) \/ Returns(u) \/ Lose(u)
         \/ \E r \in Runs : SourceError(r)
         \/ \E p \in Replicas : LoseIdle(p) \/ Restart(p)
<1>1. ASSUME NEW r \in Runs, AskLock(r) \/ GoOn(r)
      PROVE  Sends(r) \/ Returns(r) \/ SourceError(r)
  <2>1. CASE AskLock(r) \/ AskDepth(r) \/ BeginTx(r) \/ AskUnlock(r)
    BY <2>1 DEF AskLock, AskDepth, BeginTx, AskUnlock, Sends
  <2>2. CASE Granted(r)
    BY <2>2 DEF Granted, Returns, LocksAfter, PlaceAfter, MissedBy
  <2>3. CASE Refused(r)
    BY <2>3 DEF Refused, Returns, LocksAfter, PlaceAfter, MissedBy
  <2>4. CASE GotDepth(r) \/ EndTx(r)
    BY <2>4 DEF GotDepth, EndTx, Returns, LocksAfter, PlaceAfter, MissedBy
  <2>5. CASE Unlocked(r)
    <3>1. LocksAfter(r) =
            [held[conn[r]] EXCEPT ![JobOf[r]] = IF @ > 0 THEN @ - 1 ELSE 0]
      BY <2>5 DEF Unlocked, LocksAfter
    <3>2. pc[r] = "unlocking" /\ PlaceAfter(r) = "idle"
      BY <2>5 DEF Unlocked, PlaceAfter
    <3>3. MissedBy(r) = IF held[conn[r]][JobOf[r]] = 0
                          THEN {<<ReplicaOf[r], JobOf[r]>>} ELSE {}
      BY <3>2 DEF MissedBy
    <3> QED BY <2>5, <3>1, <3>2, <3>3 DEF Unlocked, Returns
  <2> QED BY <1>1, <2>1, <2>2, <2>3, <2>4, <2>5 DEF GoOn
<1>2. ASSUME NEW u \in Probes, Ping(u) \/ Ponged(u)
      PROVE  Sends(u) \/ Returns(u)
  BY <1>2 DEF Ping, Ponged, Sends, Returns, LocksAfter, PlaceAfter, MissedBy
<1> QED BY <1>1, <1>2 DEF Next, Users

-----------------------------------------------------------------------------
\* Type correctness.

\* The histories are of pairs of a replica and a job.
LEMMA DroppedType ==
  ASSUME TypeOK, NEW s \in Sessions, NEW locks, DropLocks(s, locks)
  PROVE  dropped' \subseteq Replicas \X Jobs
<1>1. s[1] \in Replicas
  BY DEF Sessions
<1> QED BY <1>1 DEF DropLocks, TypeOK

LEMMA LeakedType ==
  ASSUME TypeOK, NEW L \in SUBSET (Replicas \X Jobs), LeakLocks(L)
  PROVE  leaked' \subseteq Replicas \X Jobs
BY DEF LeakLocks, TypeOK

Places ==
  {"idle", "locking", "locked", "reading", "read", "tx", "ending", "unlocking",
   "pinging"}

LEMMA TypeInit == Init => TypeOK
<1> SUFFICES ASSUME Init PROVE TypeOK
  OBVIOUS
<1>1. \A p \in Replicas : << >> \in Seq(Sessions)
  BY EmptySeq
<1>2. free \in [Replicas -> Seq(Sessions)]
  BY <1>1 DEF Init
<1>3. \A u \in Users : conn[u] = NoSession /\ pc[u] = "idle"
  BY DEF Init
<1>4. \A u \in Probes : pc[u] = "idle"
  BY <1>3 DEF Users
<1>5. /\ conn \in [Users -> Sessions \cup {NoSession}]
      /\ held \in [Sessions -> [Jobs -> 0..MaxHeld]]
      /\ pc \in [Users -> Places] /\ failures \in 0..MaxFailures
      /\ dropped = {} /\ leaked = {}
  BY LockAssumption DEF Init, Places
<1> QED BY <1>2, <1>3, <1>4, <1>5 DEF TypeOK, Places

LEMMA TypeStep == TypeOK /\ [Next]_vars => TypeOK'
<1> SUFFICES ASSUME TypeOK, [Next]_vars PROVE TypeOK'
  OBVIOUS
<1>1. CASE UNCHANGED vars
  BY <1>1 DEF TypeOK, vars
<1>2. ASSUME NEW u \in Users, Sends(u) PROVE TypeOK'
  <2>1. PICK to \in {"locking", "pinging", "reading", "tx", "unlocking"} : Send(u, to)
    BY <1>2 DEF Sends
  <2>2. /\ conn' = [conn EXCEPT ![u] = conn'[u]] /\ conn'[u] \in Sessions
        /\ free' \in [Replicas -> Seq(Sessions)]
        /\ UNCHANGED <<held, failures, dropped, leaked>>
    BY <2>1, LendEffect DEF Send
  <2>3. pc' = [pc EXCEPT ![u] = to] /\ conn'[u] # NoSession
    BY <2>1, <2>2, LockAssumption DEF Send, Goto
  <2>4. \A v \in Probes : pc'[v] \in {"idle", "pinging"}
    <3>1. u \in Probes => to = "pinging"
      BY <1>2, <2>3, LockAssumption DEF Sends, Send, Goto, TypeOK
    <3> QED BY <2>3, <3>1 DEF TypeOK, Users
  <2> QED BY <2>2, <2>3, <2>4 DEF TypeOK
<1>3. ASSUME NEW u \in Users, Returns(u) PROVE TypeOK'
  <2>1. conn[u] \in Sessions
    BY <1>3 DEF Returns, TypeOK
  <2>2. LocksAfter(u) \in [Jobs -> 0..MaxHeld]
    BY <1>3, <2>1, LocksAfterType DEF Returns
  <2>3. PlaceAfter(u) \in {"idle", "locked", "read", "ending"}
    BY DEF PlaceAfter
  <2>4. /\ conn' = [conn EXCEPT ![u] = NoSession]
        /\ pc' = [pc EXCEPT ![u] = PlaceAfter(u)]
        /\ free' \in [Replicas -> Seq(Sessions)]
        /\ held' \in [Sessions -> [Jobs -> 0..MaxHeld]]
        /\ UNCHANGED failures
    BY <1>3, <2>1, <2>2, TakeBackEffect DEF Returns
  <2>5. dropped' \subseteq Replicas \X Jobs
    <3>1. DropLocks(conn[u], NoLocks) \/ DropLocks(conn[u], LocksAfter(u))
      BY <1>3 DEF Returns, TakeBack
    <3> QED BY <2>1, <3>1, DroppedType, LeakedType
  <2>6. leaked' \subseteq Replicas \X Jobs
    <3>1. MissedBy(u) \in SUBSET (Replicas \X Jobs)
      BY <1>3, LockAssumption DEF Returns, MissedBy
    <3> QED BY <1>3, <3>1, DroppedType, LeakedType DEF Returns
  <2>7. \A v \in Probes : pc'[v] \in {"idle", "pinging"}
    <3>1. u \in Probes => PlaceAfter(u) = "idle"
      BY <1>3, LockAssumption DEF Returns, PlaceAfter
    <3> QED BY <2>4, <3>1 DEF TypeOK, Users
  <2> QED BY <2>3, <2>4, <2>5, <2>6, <2>7 DEF TypeOK
<1>4. ASSUME NEW r \in Runs, SourceError(r) PROVE TypeOK'
  BY <1>4 DEF SourceError, Goto, TypeOK, Users
<1>5. NoLocks \in [Jobs -> 0..MaxHeld]
  BY LockAssumption DEF NoLocks
<1>6. failures < MaxFailures => failures + 1 \in 0..MaxFailures
  BY LockAssumption DEF TypeOK
<1>7. ASSUME NEW u \in Users, Lose(u) PROVE TypeOK'
  <2>1. PICK to \in {"idle", "ending"} : pc' = [pc EXCEPT ![u] = to]
    BY <1>7 DEF Lose, Goto
  <2>2. conn[u] \in Sessions
    BY <1>7 DEF Lose, TypeOK
  <2>3. dropped' \subseteq Replicas \X Jobs
    BY <1>7, <2>2, DroppedType, LeakedType DEF Lose
  <2>4. leaked' \subseteq Replicas \X Jobs
    <3>1. pc[u] = "unlocking" => <<ReplicaOf[u], JobOf[u]>> \in Replicas \X Jobs
      BY LockAssumption DEF TypeOK, Users
    <3> DEFINE L == IF pc[u] = "unlocking" THEN {<<ReplicaOf[u], JobOf[u]>>} ELSE {}
    <3>2. L \in SUBSET (Replicas \X Jobs) /\ LeakLocks(L)
      BY <1>7, <3>1 DEF Lose
    <3> QED BY <3>2, DroppedType, LeakedType
  <2>5. \A v \in Probes : pc'[v] \in {"idle", "pinging"}
    <3>1. u \in Probes => to = "idle"
      BY <1>7, <2>1, LockAssumption DEF Lose, Goto, TypeOK
    <3> QED BY <2>1, <3>1 DEF TypeOK, Users
  <2> QED BY <1>5, <1>6, <1>7, <2>1, <2>3, <2>4, <2>5 DEF Lose, TypeOK
<1>8. ASSUME NEW p \in Replicas, LoseIdle(p) PROVE TypeOK'
  <2>1. PICK i \in 1..Len(free[p]) :
          /\ free' = [free EXCEPT ![p] = SubSeq(free[p], 1, i - 1)
                                           \o SubSeq(free[p], i + 1, Len(free[p]))]
          /\ held' = [held EXCEPT ![free[p][i]] = NoLocks]
          /\ DropLocks(free[p][i], held[free[p][i]])
    BY <1>8 DEF LoseIdle
  <2>2. free[p] \in Seq(Sessions)
    BY DEF TypeOK
  <2>3. Len(free[p]) \in Nat /\ \A k \in 1..Len(free[p]) : free[p][k] \in Sessions
    BY <2>2, LenProperties, ElementOfSeq
  <2>4. SubSeq(free[p], 1, i - 1) \in Seq(Sessions)
    BY <2>3, SubSeqProperties
  <2>5. SubSeq(free[p], i + 1, Len(free[p])) \in Seq(Sessions)
    BY <2>3, SubSeqProperties
  <2>6. free' \in [Replicas -> Seq(Sessions)]
    BY <2>1, <2>4, <2>5, ConcatProperties DEF TypeOK
  <2>7. held' \in [Sessions -> [Jobs -> 0..MaxHeld]]
    BY <1>5, <2>1 DEF TypeOK
  <2>8. dropped' \subseteq Replicas \X Jobs
    BY <2>1, <2>3, DroppedType, LeakedType
  <2>9. leaked' \subseteq Replicas \X Jobs
    <3>1. {} \in SUBSET (Replicas \X Jobs) /\ LeakLocks({})
      BY <1>8 DEF LoseIdle
    <3> QED BY <3>1, DroppedType, LeakedType
  <2> QED BY <1>6, <1>8, <2>6, <2>7, <2>8, <2>9 DEF LoseIdle, TypeOK
<1>9. ASSUME NEW p \in Replicas, Restart(p) PROVE TypeOK'
  <2>1. << >> \in Seq(Sessions)
    BY EmptySeq
  <2>2. free' \in [Replicas -> Seq(Sessions)]
    BY <1>9, <2>1 DEF Restart, TypeOK
  <2>3. /\ conn' \in [Users -> Sessions \cup {NoSession}]
        /\ held' \in [Sessions -> [Jobs -> 0..MaxHeld]]
        /\ pc' \in [Users -> Places]
    BY <1>5, <1>9 DEF Restart, TypeOK, Places
  <2>4. \A u \in Users :
          conn'[u] # NoSession <=>
            pc'[u] \in {"locking", "reading", "tx", "unlocking", "pinging"}
    BY <1>9 DEF Restart, TypeOK
  <2>5. \A u \in Probes : pc'[u] \in {"idle", "pinging"}
    BY <1>9 DEF Restart, TypeOK, Users
  <2> QED BY <1>6, <1>9, <2>2, <2>3, <2>4, <2>5 DEF Restart, TypeOK, Places
<1> QED BY <1>1, <1>2, <1>3, <1>4, <1>7, <1>8, <1>9, Steps

\* Every variable stays in its type and no user keeps a connection outside its
\* statements, whatever connections and replicas are lost.
THEOREM TypeCorrect == Spec => []TypeOK
BY TypeInit, TypeStep, PTL DEF Spec

-----------------------------------------------------------------------------
\* Accounting: what the session that holds a lock holds, and the runs.

\* A session is idle in the pool of its replica or lent to one of its users.
PoolInv ==
  /\ \A u \in Users : conn[u] # NoSession => conn[u][1] = ReplicaOf[u]
  /\ \A p \in Replicas : \A i \in 1..Len(free[p]) : free[p][i][1] = p

\* How many runs of a job are in progress in a replica.
Count(p, j) == Cardinality(InProgress(p, j))

\* No two sessions hold a lock.
SoleHolder ==
  \A s, t \in Sessions, j \in Jobs : held[s][j] > 0 /\ held[t][j] > 0 => s = t

\* The runs of a job in progress in a replica have a session that holds the lock
\* as often as there are runs, or the lock was dropped.
Guarded ==
  \A p \in Replicas, j \in Jobs :
    \/ InProgress(p, j) = {} \/ <<p, j>> \in dropped
    \/ \E s \in Sessions : s[1] = p /\ held[s][j] >= Count(p, j)

\* A session holds a lock no more often than there are runs, or it was leaked.
Accounted ==
  \A s \in Sessions, j \in Jobs :
    held[s][j] > 0 => <<s[1], j>> \in leaked \/ held[s][j] =< Count(s[1], j)

HeldInv == SoleHolder /\ Guarded /\ Accounted

LockInv == TypeOK /\ PoolInv /\ HeldInv

LEMMA CountType ==
  ASSUME NEW p \in Replicas, NEW j \in Jobs
  PROVE  /\ IsFiniteSet(InProgress(p, j)) /\ Count(p, j) \in Nat
         /\ Count(p, j) < MaxHeld
         /\ Count(p, j) = 0 <=> InProgress(p, j) = {}
<1>1. IsFiniteSet(Runs) /\ RunsOf(p, j) \subseteq Runs
  BY LockAssumption DEF RunsOf
<1>2. IsFiniteSet(RunsOf(p, j)) /\ InProgress(p, j) \subseteq RunsOf(p, j)
  BY <1>1, FS_Subset DEF InProgress
<1>3. /\ IsFiniteSet(InProgress(p, j)) /\ Count(p, j) \in Nat
      /\ Cardinality(RunsOf(p, j)) \in Nat
      /\ Count(p, j) =< Cardinality(RunsOf(p, j))
  BY <1>2, FS_Subset, FS_CardinalityType DEF Count
<1>4. Cardinality(RunsOf(p, j)) < MaxHeld
  BY LockAssumption
<1>5. Count(p, j) = 0 <=> InProgress(p, j) = {}
  BY <1>3, FS_EmptySet DEF Count
<1> QED BY <1>3, <1>4, <1>5, LockAssumption

\* The same after a step; a set of runs does not depend on the state otherwise.
LEMMA CountTypeNext ==
  ASSUME NEW p \in Replicas, NEW j \in Jobs
  PROVE  /\ Count(p, j)' \in Nat /\ Count(p, j)' < MaxHeld
         /\ Count(p, j)' = 0 <=> InProgress(p, j)' = {}
<1>1. IsFiniteSet(Runs) /\ RunsOf(p, j) \subseteq Runs
  BY LockAssumption DEF RunsOf
<1>2. IsFiniteSet(RunsOf(p, j)) /\ InProgress(p, j)' \subseteq RunsOf(p, j)
  BY <1>1, FS_Subset DEF InProgress, RunsOf
<1>3. /\ IsFiniteSet(InProgress(p, j)') /\ Count(p, j)' \in Nat
      /\ Cardinality(RunsOf(p, j)) \in Nat
      /\ Count(p, j)' =< Cardinality(RunsOf(p, j))
  BY <1>2, FS_Subset, FS_CardinalityType DEF Count
<1>4. Cardinality(RunsOf(p, j)) < MaxHeld
  BY LockAssumption
<1>5. Count(p, j)' = 0 <=> InProgress(p, j)' = {}
  BY <1>3, FS_EmptySet DEF Count
<1> QED BY <1>3, <1>4, <1>5, LockAssumption

\* A run that goes on or does not, among those of a replica and a job.
LEMMA Joins ==
  ASSUME NEW u \in Runs, ~Running(u),
         \A r \in Runs : Running(r)' <=> r = u \/ Running(r),
         NEW p \in Replicas, NEW j \in Jobs
  PROVE  IF ReplicaOf[u] = p /\ JobOf[u] = j
           THEN Count(p, j)' = Count(p, j) + 1
           ELSE InProgress(p, j)' = InProgress(p, j)
<1>1. CASE ReplicaOf[u] = p /\ JobOf[u] = j
  <2>1. InProgress(p, j)' = InProgress(p, j) \cup {u} /\ u \notin InProgress(p, j)
    BY <1>1 DEF InProgress, RunsOf
  <2> QED BY <1>1, <2>1, CountType, FS_AddElement DEF Count
<1>2. CASE ~(ReplicaOf[u] = p /\ JobOf[u] = j)
  BY <1>2 DEF InProgress, RunsOf
<1> QED BY <1>1, <1>2

LEMMA Leaves ==
  ASSUME NEW u \in Runs, Running(u),
         \A r \in Runs : Running(r)' <=> r # u /\ Running(r),
         NEW p \in Replicas, NEW j \in Jobs
  PROVE  IF ReplicaOf[u] = p /\ JobOf[u] = j
           THEN Count(p, j) = Count(p, j)' + 1
           ELSE InProgress(p, j)' = InProgress(p, j)
<1>1. CASE ReplicaOf[u] = p /\ JobOf[u] = j
  <2>1. InProgress(p, j)' = InProgress(p, j) \ {u} /\ u \in InProgress(p, j)
    BY <1>1 DEF InProgress, RunsOf
  <2>2. Count(p, j)' = Count(p, j) - 1
    BY <2>1, CountType, FS_RemoveElement DEF Count
  <2> QED BY <1>1, <2>2, CountType
<1>2. CASE ~(ReplicaOf[u] = p /\ JobOf[u] = j)
  BY <1>2 DEF InProgress, RunsOf
<1> QED BY <1>1, <1>2

LEMMA Same ==
  ASSUME \A r \in Runs : Running(r)' <=> Running(r),
         NEW p, NEW j
  PROVE  InProgress(p, j)' = InProgress(p, j)
BY DEF InProgress, RunsOf

\* What a statement on the session c does to the lock j and its runs: nothing,
\* a grant, an unlock that reaches the lock or one that misses it.
Kept(c, j, locks) ==
  locks[j] = held[c][j] /\ InProgress(c[1], j)' = InProgress(c[1], j)

Gained(c, j, locks) ==
  /\ ~LockedElsewhere(c, j) /\ Count(c[1], j)' = Count(c[1], j) + 1
  /\ locks[j] = IF held[c][j] < MaxHeld THEN held[c][j] + 1 ELSE held[c][j]

GaveBack(c, j, locks) ==
  /\ held[c][j] > 0 /\ locks[j] = held[c][j] - 1
  /\ Count(c[1], j) = Count(c[1], j)' + 1

Missed(c, j, locks, L) ==
  /\ locks[j] = held[c][j] /\ (held[c][j] = 0 \/ held'[c] = NoLocks)
  /\ <<c[1], j>> \in L /\ Count(c[1], j) = Count(c[1], j)' + 1

\* One session changes: it keeps what it holds after its statement, or it ends.
Changes(c, locks, L) ==
  /\ \A s \in Sessions \ {c} : held'[s] = held[s]
  /\ \/ held'[c] = locks /\ DropLocks(c, NoLocks)
     \/ held'[c] = NoLocks /\ DropLocks(c, locks)
  /\ LeakLocks(L)
  /\ \A p \in Replicas \ {c[1]}, j \in Jobs : InProgress(p, j)' = InProgress(p, j)
  /\ \A j \in Jobs : \/ Kept(c, j, locks) \/ Gained(c, j, locks)
                     \/ GaveBack(c, j, locks) \/ Missed(c, j, locks, L)

LEMMA ChangedCount ==
  ASSUME NEW p, NEW j, InProgress(p, j)' = InProgress(p, j)
  PROVE  Count(p, j)' = Count(p, j)
BY DEF Count

LEMMA Accounts ==
  ASSUME TypeOK, TypeOK', HeldInv,
         NEW c \in Sessions, NEW locks \in [Jobs -> 0..MaxHeld], NEW L,
         Changes(c, locks, L)
  PROVE  HeldInv'
<1>1. /\ c[1] \in Replicas /\ \A s \in Sessions : s[1] \in Replicas
      /\ MaxHeld \in Nat \ {0}
  BY LockAssumption DEF Sessions
<1>2. \A s \in Sessions, j \in Jobs :
        /\ held[s][j] \in 0..MaxHeld /\ held'[s][j] \in 0..MaxHeld
        /\ locks[j] \in 0..MaxHeld
  BY DEF TypeOK
<1>3. \A p \in Replicas, j \in Jobs :
        /\ Count(p, j) \in Nat /\ Count(p, j) < MaxHeld
        /\ Count(p, j) = 0 <=> InProgress(p, j) = {}
  BY CountType
<1>4. \A p \in Replicas, j \in Jobs :
        /\ Count(p, j)' \in Nat /\ Count(p, j)' < MaxHeld
        /\ Count(p, j)' = 0 <=> InProgress(p, j)' = {}
  BY CountTypeNext
<1>5. \A j \in Jobs :
        \/ Kept(c, j, locks) \/ Gained(c, j, locks)
        \/ GaveBack(c, j, locks) \/ Missed(c, j, locks, L)
  BY DEF Changes
<1>6. \A s \in Sessions \ {c} : held'[s] = held[s]
  BY DEF Changes
<1>7. \A j \in Jobs : held'[c][j] = locks[j] \/ held'[c][j] = 0
  BY DEF Changes, NoLocks
<1>8. \A j \in Jobs : held'[c][j] > 0 =>
        held[c][j] > 0 \/ (Gained(c, j, locks) /\ ~LockedElsewhere(c, j))
  <2> SUFFICES ASSUME NEW j \in Jobs, held'[c][j] > 0
               PROVE  held[c][j] > 0 \/ (Gained(c, j, locks) /\ ~LockedElsewhere(c, j))
    OBVIOUS
  <2>1. held'[c][j] = locks[j]
    BY <1>7
  <2>2. CASE Kept(c, j, locks) \/ Missed(c, j, locks, L)
    BY <2>1, <2>2 DEF Kept, Missed
  <2>3. CASE Gained(c, j, locks)
    BY <2>3 DEF Gained
  <2>4. CASE GaveBack(c, j, locks)
    BY <2>4 DEF GaveBack
  <2> QED BY <1>5, <2>2, <2>3, <2>4
<1>9. SoleHolder'
  <2> SUFFICES ASSUME NEW s \in Sessions, NEW t \in Sessions, NEW j \in Jobs,
                      held'[s][j] > 0, held'[t][j] > 0
               PROVE  s = t
    BY DEF SoleHolder
  <2>1. CASE s # c /\ t # c
    BY <1>6, <2>1 DEF HeldInv, SoleHolder
  <2>2. CASE s = c /\ t # c
    BY <1>6, <1>8, <2>2 DEF HeldInv, SoleHolder, LockedElsewhere
  <2>3. CASE s # c /\ t = c
    BY <1>6, <1>8, <2>3 DEF HeldInv, SoleHolder, LockedElsewhere
  <2> QED BY <2>1, <2>2, <2>3
<1>10. \A d \in dropped : InProgress(d[1], d[2])' # {} => d \in dropped'
  BY DEF Changes, DropLocks
<1>11. \A d \in leaked \cup L :
         (\E s \in Sessions : s[1] = d[1] /\ held'[s][d[2]] > 0) => d \in leaked'
  BY DEF Changes, LeakLocks
<1>12. Guarded'
  <2> SUFFICES ASSUME NEW p \in Replicas, NEW j \in Jobs,
                      InProgress(p, j)' # {}, <<p, j>> \notin dropped'
               PROVE  \E s \in Sessions : s[1] = p /\ held'[s][j] >= Count(p, j)'
    BY DEF Guarded
  <2>1. <<p, j>> \notin dropped
    BY <1>10
  <2>2. \/ InProgress(p, j) = {}
        \/ \E s \in Sessions : s[1] = p /\ held[s][j] >= Count(p, j)
    BY <2>1 DEF HeldInv, Guarded
  <2>3. CASE p # c[1]
    <3>1. InProgress(p, j)' = InProgress(p, j)
      BY <2>3 DEF Changes
    <3>2. Count(p, j)' = Count(p, j)
      BY <3>1, ChangedCount
    <3>3. PICK s \in Sessions : s[1] = p /\ held[s][j] >= Count(p, j)
      BY <2>2, <3>1
    <3> QED BY <1>6, <2>3, <3>2, <3>3
  <2>4. CASE p = c[1]
    <3>1. held'[c][j] = locks[j]
      <4>1. CASE held'[c] = locks
        BY <4>1
      <4>2. CASE held'[c] = NoLocks /\ DropLocks(c, locks)
        <5>1. ~(locks[j] > 0)
          BY <2>4, <4>2 DEF DropLocks
        <5> QED BY <1>2, <4>2, <5>1 DEF NoLocks
      <4> QED BY <4>1, <4>2 DEF Changes
    <3>2. CASE Gained(c, j, locks)
      <4>1. CASE InProgress(p, j) = {}
        BY <1>2, <1>3, <1>1, <2>4, <3>1, <3>2, <4>1 DEF Gained
      <4>2. CASE InProgress(p, j) # {}
        <5>1. PICK s \in Sessions : s[1] = p /\ held[s][j] >= Count(p, j)
          BY <2>2, <4>2
        <5>2. Count(p, j) > 0 /\ held[s][j] > 0
          BY <1>2, <1>3, <4>2, <5>1
        <5>3. s = c
          BY <3>2, <5>2 DEF Gained, LockedElsewhere
        <5> QED BY <1>1, <1>2, <1>3, <1>4, <2>4, <3>1, <3>2, <5>1, <5>3 DEF Gained
      <4> QED BY <4>1, <4>2
    <3>3. CASE ~Gained(c, j, locks)
      <4>1. Count(p, j)' =< Count(p, j) /\ InProgress(p, j) # {}
        <5>1. CASE Kept(c, j, locks)
          BY <1>3, <2>4, <5>1, ChangedCount DEF Kept
        <5>2. CASE GaveBack(c, j, locks) \/ Missed(c, j, locks, L)
          BY <1>3, <1>4, <2>4, <5>2 DEF GaveBack, Missed
        <5> QED BY <1>5, <3>3, <5>1, <5>2
      <4>2. PICK s \in Sessions : s[1] = p /\ held[s][j] >= Count(p, j)
        BY <2>2, <4>1
      <4>3. held[s][j] > 0
        BY <1>2, <1>3, <4>1, <4>2
      <4>4. CASE s # c
        BY <1>2, <1>3, <1>4, <1>6, <4>1, <4>2, <4>4
      <4>5. CASE s = c
        <5>1. CASE Kept(c, j, locks) \/ Missed(c, j, locks, L)
          BY <1>2, <1>3, <1>4, <3>1, <4>1, <4>2, <4>5, <5>1 DEF Kept, Missed
        <5>2. CASE GaveBack(c, j, locks)
          BY <1>2, <1>3, <1>4, <2>4, <3>1, <4>2, <4>5, <5>2 DEF GaveBack
        <5> QED BY <1>5, <3>3, <5>1, <5>2
      <4> QED BY <4>4, <4>5
    <3> QED BY <3>2, <3>3
  <2> QED BY <2>3, <2>4
<1>13. Accounted'
  <2> SUFFICES ASSUME NEW s \in Sessions, NEW j \in Jobs, held'[s][j] > 0,
                      <<s[1], j>> \notin leaked'
               PROVE  held'[s][j] =< Count(s[1], j)'
    BY DEF Accounted
  <2>1. <<s[1], j>> \notin leaked \cup L
    BY <1>11
  <2>2. held[s][j] > 0 => held[s][j] =< Count(s[1], j)
    BY <2>1 DEF HeldInv, Accounted
  <2>3. CASE s[1] # c[1]
    <3>1. Count(s[1], j)' = Count(s[1], j)
      BY <1>1, <2>3, ChangedCount DEF Changes
    <3> QED BY <1>6, <2>2, <2>3, <3>1
  <2>4. CASE s # c /\ s[1] = c[1]
    <3>1. held[s][j] > 0 /\ held'[s][j] = held[s][j]
      BY <1>6, <2>4
    <3>2. ~(held[c][j] > 0) /\ LockedElsewhere(c, j)
      BY <2>4, <3>1 DEF HeldInv, SoleHolder, LockedElsewhere
    <3>3. Kept(c, j, locks)
      BY <1>5, <2>1, <2>4, <3>2 DEF Gained, GaveBack, Missed
    <3>4. Count(s[1], j)' = Count(s[1], j)
      BY <2>4, <3>3, ChangedCount DEF Kept
    <3> QED BY <2>2, <3>1, <3>4
  <2>5. CASE s = c
    <3>1. held'[c][j] = locks[j]
      BY <1>7, <2>5
    <3>2. CASE Kept(c, j, locks)
      BY <2>2, <2>5, <3>1, <3>2, ChangedCount DEF Kept
    <3>3. CASE Gained(c, j, locks)
      BY <1>1, <1>2, <1>3, <1>4, <2>2, <2>5, <3>1, <3>3 DEF Gained
    <3>4. CASE GaveBack(c, j, locks)
      BY <1>1, <1>2, <1>3, <1>4, <2>2, <2>5, <3>1, <3>4 DEF GaveBack
    <3>5. ~Missed(c, j, locks, L)
      BY <2>1, <2>5 DEF Missed
    <3> QED BY <1>5, <3>2, <3>3, <3>4, <3>5
  <2> QED BY <2>3, <2>4, <2>5
<1> QED BY <1>9, <1>12, <1>13 DEF HeldInv

-----------------------------------------------------------------------------
\* Every step keeps the account.

LEMMA PoolStep == TypeOK /\ TypeOK' /\ PoolInv /\ [Next]_vars => PoolInv'
<1> SUFFICES ASSUME TypeOK, TypeOK', PoolInv, [Next]_vars PROVE PoolInv'
  OBVIOUS
<1>1. CASE UNCHANGED <<free, conn>>
  BY <1>1 DEF PoolInv
<1>2. ASSUME NEW u \in Users, Sends(u) PROVE PoolInv'
  <2> DEFINE p == ReplicaOf[u]
             n == Len(free[p])
  <2>1. p \in Replicas /\ free[p] \in Seq(Sessions) /\ n \in Nat
    BY LockAssumption, LenProperties DEF TypeOK
  <2>2. Lend(u)
    BY <1>2 DEF Sends, Send
  <2>3. /\ conn' = [conn EXCEPT ![u] = conn'[u]]
        /\ \A q \in Replicas \ {p} : free'[q] = free[q]
        /\ \/ n = 0 /\ free' = free /\ conn'[u] \in Unopened(p)
           \/ /\ n > 0 /\ Len(free'[p]) = n - 1 /\ conn'[u] = free[p][n]
              /\ \A i \in 1..(n - 1) : free'[p][i] = free[p][i]
    BY <2>1, <2>2, LendEffect
  <2>4. conn'[u][1] = p /\ \A i \in 1..Len(free'[p]) : free'[p][i][1] = p
    <3>1. CASE n = 0 /\ free' = free /\ conn'[u] \in Unopened(p)
      BY <2>1, <3>1 DEF Unopened, PoolInv
    <3>2. CASE /\ n > 0 /\ Len(free'[p]) = n - 1 /\ conn'[u] = free[p][n]
               /\ \A i \in 1..(n - 1) : free'[p][i] = free[p][i]
      <4>1. n \in 1..n /\ \A i \in 1..(n - 1) : i \in 1..n
        BY <2>1, <3>2
      <4> QED BY <2>1, <3>2, <4>1 DEF PoolInv
    <3> QED BY <2>3, <3>1, <3>2
  <2>5. \A v \in Users \ {u} : conn'[v] = conn[v]
    BY <2>3 DEF TypeOK
  <2> QED BY <2>3, <2>4, <2>5 DEF PoolInv
<1>3. ASSUME NEW u \in Users, Returns(u) PROVE PoolInv'
  <2> DEFINE p == ReplicaOf[u]
  <2>1. p \in Replicas /\ free[p] \in Seq(Sessions) /\ Len(free[p]) \in Nat
    BY LockAssumption, LenProperties DEF TypeOK
  <2>2. conn[u] \in Sessions /\ conn[u] # NoSession /\ conn[u][1] = p
    BY <1>3, LockAssumption DEF Returns, TypeOK, PoolInv
  <2>3. LocksAfter(u) \in [Jobs -> 0..MaxHeld]
    BY <1>3, <2>2, LocksAfterType DEF Returns
  <2>4. /\ conn' = [conn EXCEPT ![u] = NoSession]
        /\ \A q \in Replicas \ {p} : free'[q] = free[q]
        /\ free'[p] = Append(free[p], conn[u]) \/ free'[p] = free[p]
    BY <1>3, <2>2, <2>3, TakeBackEffect DEF Returns
  <2>5. \A i \in 1..Len(free'[p]) : free'[p][i][1] = p
    <3>1. CASE free'[p] = Append(free[p], conn[u])
      <4>1. /\ Len(free'[p]) = Len(free[p]) + 1
            /\ free'[p][Len(free[p]) + 1] = conn[u]
            /\ \A i \in 1..Len(free[p]) : free'[p][i] = free[p][i]
        BY <2>1, <2>2, <3>1, AppendProperties
      <4>2. \A i \in 1..Len(free'[p]) : i = Len(free[p]) + 1 \/ i \in 1..Len(free[p])
        BY <2>1, <4>1
      <4> QED BY <2>1, <2>2, <4>1, <4>2 DEF PoolInv
    <3>2. CASE free'[p] = free[p]
      BY <2>1, <3>2 DEF PoolInv
    <3> QED BY <2>4, <3>1, <3>2
  <2> QED BY <2>4, <2>5 DEF PoolInv, TypeOK
<1>4. ASSUME NEW r \in Runs, SourceError(r) PROVE PoolInv'
  BY <1>1, <1>4 DEF SourceError
<1>5. ASSUME NEW u \in Users, Lose(u) PROVE PoolInv'
  BY <1>5 DEF Lose, PoolInv, TypeOK
<1>6. ASSUME NEW p \in Replicas, LoseIdle(p) PROVE PoolInv'
  <2>1. PICK i \in 1..Len(free[p]) :
          free' = [free EXCEPT ![p] = SubSeq(free[p], 1, i - 1)
                                        \o SubSeq(free[p], i + 1, Len(free[p]))]
    BY <1>6 DEF LoseIdle
  <2> DEFINE n == Len(free[p])
             a == SubSeq(free[p], 1, i - 1)
             b == SubSeq(free[p], i + 1, n)
  <2>2. free[p] \in Seq(Sessions) /\ n \in Nat
    BY LenProperties DEF TypeOK
  <2>3. \A k \in 1..n : free[p][k] \in Sessions
    BY <2>2, ElementOfSeq
  <2>4. /\ a \in Seq(Sessions) /\ Len(a) = i - 1
        /\ \A k \in 1..(i - 1) : a[k] = free[p][k]
    BY <2>2, <2>3, SubSeqProperties
  <2>5. /\ b \in Seq(Sessions) /\ Len(b) = n - i
        /\ \A k \in 1..(n - i) : b[k] = free[p][i + k]
    <3>1. /\ b \in Seq(Sessions)
          /\ Len(b) = IF i + 1 =< n THEN n - (i + 1) + 1 ELSE 0
          /\ \A k \in 1..(n - (i + 1) + 1) : b[k] = free[p][(i + 1) + k - 1]
      BY <2>2, <2>3, SubSeqProperties
    <3>2. n - (i + 1) + 1 = n - i /\ \A k \in 1..(n - i) : (i + 1) + k - 1 = i + k
      BY <2>2
    <3> QED BY <2>2, <3>1, <3>2
  <2>6. /\ free'[p] = a \o b /\ \A q \in Replicas \ {p} : free'[q] = free[q]
    BY <2>1 DEF TypeOK
  <2>7. ASSUME NEW k \in 1..Len(free'[p]) PROVE free'[p][k][1] = p
    <3>1. /\ Len(free'[p]) = n - 1
          /\ free'[p][k] = IF k =< Len(a) THEN a[k] ELSE b[k - Len(a)]
      <4>1. /\ Len(a \o b) = Len(a) + Len(b)
            /\ \A m \in 1..(Len(a) + Len(b)) :
                 (a \o b)[m] = IF m =< Len(a) THEN a[m] ELSE b[m - Len(a)]
        BY <2>4, <2>5, ConcatProperties
      <4>2. (i - 1) + (n - i) = n - 1
        BY <2>2
      <4> HIDE DEF a, b
      <4>3. Len(a \o b) = n - 1 /\ Len(a) + Len(b) = n - 1
        BY <2>4, <2>5, <4>1, <4>2
      <4> QED BY <2>6, <4>1, <4>3
    <3>2. CASE k =< i - 1
      <4>1. k \in 1..(i - 1) /\ k \in 1..n
        BY <2>2, <3>1, <3>2
      <4> QED BY <2>4, <3>1, <3>2, <4>1 DEF PoolInv
    <3>3. CASE ~(k =< i - 1)
      <4>1. k - (i - 1) \in 1..(n - i) /\ i + (k - (i - 1)) \in 1..n
        BY <2>2, <3>1, <3>3
      <4> QED BY <2>4, <2>5, <3>1, <3>3, <4>1 DEF PoolInv
    <3> QED BY <3>2, <3>3
  <2>8. UNCHANGED conn
    BY <1>6 DEF LoseIdle
  <2> QED BY <2>6, <2>7, <2>8 DEF PoolInv
<1>7. ASSUME NEW p \in Replicas, Restart(p) PROVE PoolInv'
  <2>1. Len(<< >>) = 0
    BY EmptySeq
  <2>2. free'[p] = << >> /\ \A q \in Replicas \ {p} : free'[q] = free[q]
    BY <1>7 DEF Restart, TypeOK
  <2>3. \A i \in 1..Len(free'[p]) : FALSE
    BY <2>1, <2>2
  <2>4. \A u \in Users : conn'[u] = NoSession \/ conn'[u] = conn[u]
    BY <1>7 DEF Restart
  <2> QED BY <2>2, <2>3, <2>4 DEF PoolInv
<1>8. CASE UNCHANGED vars
  BY <1>1, <1>8 DEF vars
<1> QED BY <1>2, <1>3, <1>4, <1>5, <1>6, <1>7, <1>8, Steps

\* Steps that change neither what is held nor which runs are in progress.
LEMMA Idling ==
  ASSUME HeldInv, UNCHANGED <<held, dropped, leaked>>,
         \A r \in Runs : Running(r)' <=> Running(r)
  PROVE  HeldInv'
<1>1. \A p \in Replicas, j \in Jobs :
        InProgress(p, j)' = InProgress(p, j) /\ Count(p, j)' = Count(p, j)
  BY Same, ChangedCount
<1>2. \A s \in Sessions : s[1] \in Replicas
  BY DEF Sessions
<1> QED BY <1>1, <1>2 DEF HeldInv, SoleHolder, Guarded, Accounted

\* The statement of u changes the account of its session as it should.
LEMMA ReturnChanges ==
  ASSUME TypeOK, PoolInv, NEW u \in Users, Returns(u)
  PROVE  /\ LocksAfter(u) \in [Jobs -> 0..MaxHeld]
         /\ \E c \in Sessions : Changes(c, LocksAfter(u), MissedBy(u))
<1>0. PICK c \in Sessions : c = conn[u]
  BY DEF Returns, TypeOK
<1>1. c = conn[u] /\ c # NoSession /\ c[1] = ReplicaOf[u] /\ c[1] \in Replicas
  BY <1>0, LockAssumption DEF Returns, TypeOK, PoolInv
<1>2. LocksAfter(u) \in [Jobs -> 0..MaxHeld]
  BY <1>1, LocksAfterType DEF Returns
<1>3. /\ \A s \in Sessions \ {c} : held'[s] = held[s]
      /\ \/ held'[c] = LocksAfter(u) /\ DropLocks(c, NoLocks)
         \/ held'[c] = NoLocks /\ DropLocks(c, LocksAfter(u))
      /\ pc' = [pc EXCEPT ![u] = PlaceAfter(u)] /\ LeakLocks(MissedBy(u))
  BY <1>1, <1>2, TakeBackEffect DEF Returns
<1>4. held[c] \in [Jobs -> 0..MaxHeld]
  BY <1>1 DEF TypeOK
<1>5. CASE pc[u] = "locking" /\ ~LockedElsewhere(c, JobOf[u])
  <2>1. u \in Runs /\ ~Running(u) /\ JobOf[u] \in Jobs
    BY <1>5, LockAssumption DEF Returns, Running
  <2>2. \A r \in Runs : Running(r)' <=> r = u \/ Running(r)
    BY <1>1, <1>3, <1>5, <2>1 DEF PlaceAfter, Running, TypeOK, Users
  <2>3. \A p \in Replicas, j \in Jobs :
          IF ReplicaOf[u] = p /\ JobOf[u] = j
            THEN Count(p, j)' = Count(p, j) + 1
            ELSE InProgress(p, j)' = InProgress(p, j)
    BY <2>1, <2>2, Joins
  <2>4. LocksAfter(u) = [held[c] EXCEPT ![JobOf[u]] =
                           IF @ < MaxHeld THEN @ + 1 ELSE @]
    BY <1>1, <1>5 DEF LocksAfter
  <2>5. \A j \in Jobs : Kept(c, j, LocksAfter(u)) \/ Gained(c, j, LocksAfter(u))
    BY <1>1, <1>4, <1>5, <2>3, <2>4 DEF Kept, Gained
  <2> QED BY <1>1, <1>2, <1>3, <2>3, <2>5 DEF Changes
<1>6. CASE pc[u] = "unlocking"
  <2>1. u \in Runs /\ Running(u) /\ JobOf[u] \in Jobs
    BY <1>6, LockAssumption DEF Returns, Running
  <2>2. \A r \in Runs : Running(r)' <=> r # u /\ Running(r)
    BY <1>3, <1>6, <2>1 DEF PlaceAfter, Running, TypeOK, Users
  <2>3. \A p \in Replicas, j \in Jobs :
          IF ReplicaOf[u] = p /\ JobOf[u] = j
            THEN Count(p, j) = Count(p, j)' + 1
            ELSE InProgress(p, j)' = InProgress(p, j)
    BY <2>1, <2>2, Leaves
  <2>4. LocksAfter(u) = [held[c] EXCEPT ![JobOf[u]] = IF @ > 0 THEN @ - 1 ELSE 0]
    BY <1>1, <1>6 DEF LocksAfter
  <2>5. held[c][JobOf[u]] = 0 => <<c[1], JobOf[u]>> \in MissedBy(u)
    BY <1>1, <1>6 DEF MissedBy
  <2>6. \A j \in Jobs : \/ Kept(c, j, LocksAfter(u)) \/ GaveBack(c, j, LocksAfter(u))
                        \/ Missed(c, j, LocksAfter(u), MissedBy(u))
    BY <1>1, <1>4, <2>3, <2>4, <2>5 DEF Kept, GaveBack, Missed
  <2> QED BY <1>1, <1>2, <1>3, <2>3, <2>6 DEF Changes
<1>7. CASE ~(pc[u] = "locking" /\ ~LockedElsewhere(c, JobOf[u])) /\ pc[u] # "unlocking"
  <2>1. LocksAfter(u) = held[c]
    BY <1>1, <1>7 DEF LocksAfter
  <2>2. \A r \in Runs : Running(r)' <=> Running(r)
    <3>1. u \in Runs => (Running(u)' <=> Running(u))
      BY <1>1, <1>3, <1>7 DEF Returns, PlaceAfter, Running, TypeOK
    <3> QED BY <1>3, <3>1 DEF Running, TypeOK, Users
  <2>3. \A p, j : InProgress(p, j)' = InProgress(p, j)
    BY <2>2, Same
  <2>4. \A j \in Jobs : Kept(c, j, LocksAfter(u))
    BY <2>1, <2>3 DEF Kept
  <2> QED BY <1>1, <1>2, <1>3, <2>3, <2>4 DEF Changes
<1> QED BY <1>5, <1>6, <1>7

\* A statement that is sent changes no lock and no run.
LEMMA SendsKeep ==
  ASSUME TypeOK, NEW u \in Users, Sends(u)
  PROVE  /\ UNCHANGED <<held, dropped, leaked>>
         /\ \A r \in Runs : Running(r)' <=> Running(r)
<1>1. PICK to : Send(u, to) /\ (u \in Runs =>
        (to \in {"reading", "tx", "unlocking"} <=> Running(u)) /\
        to \in {"locking", "reading", "tx", "unlocking"})
  <2>1. u \in Runs => u \notin Probes
    BY LockAssumption
  <2> QED BY <2>1 DEF Sends, Running
<1>2. pc' = [pc EXCEPT ![u] = to] /\ UNCHANGED <<held, dropped, leaked>>
  BY <1>1 DEF Send, Goto
<1>3. \A r \in Runs : Running(r)' <=> Running(r)
  BY <1>1, <1>2 DEF Running, TypeOK, Users
<1> QED BY <1>2, <1>3

LEMMA HeldStep ==
  TypeOK /\ TypeOK' /\ PoolInv /\ HeldInv /\ [Next]_vars => HeldInv'
<1> SUFFICES ASSUME TypeOK, TypeOK', PoolInv, HeldInv, [Next]_vars PROVE HeldInv'
  OBVIOUS
<1>1. CASE UNCHANGED vars
  <2>1. \A r \in Runs : Running(r)' <=> Running(r)
    BY <1>1 DEF vars, Running
  <2> QED BY <1>1, <2>1, Idling DEF vars
<1>2. ASSUME NEW u \in Users, Sends(u) PROVE HeldInv'
  BY <1>2, SendsKeep, Idling
<1>3. ASSUME NEW u \in Users, Returns(u) PROVE HeldInv'
  BY <1>3, ReturnChanges, Accounts
<1>4. ASSUME NEW r \in Runs, SourceError(r) PROVE HeldInv'
  <2>1. \A q \in Runs : Running(q)' <=> Running(q)
    BY <1>4 DEF SourceError, Goto, Running, TypeOK, Users
  <2> QED BY <1>4, <2>1, Idling DEF SourceError
<1>5. ASSUME NEW u \in Users, Lose(u) PROVE HeldInv'
  <2> DEFINE L == IF pc[u] = "unlocking" THEN {<<ReplicaOf[u], JobOf[u]>>} ELSE {}
  <2>0. PICK c \in Sessions : c = conn[u]
    BY <1>5 DEF Lose, TypeOK
  <2>1. c = conn[u] /\ c # NoSession /\ c[1] = ReplicaOf[u] /\ c[1] \in Replicas
    BY <1>5, <2>0, LockAssumption DEF Lose, TypeOK, PoolInv
  <2>2. /\ \A s \in Sessions \ {c} : held'[s] = held[s]
        /\ held'[c] = NoLocks /\ DropLocks(c, held[c]) /\ LeakLocks(L)
        /\ pc' = [pc EXCEPT ![u] =
                    IF pc[u] \in {"reading", "tx"} THEN "ending" ELSE "idle"]
    BY <1>5, <2>1 DEF Lose, Goto, TypeOK
  <2>3. held[c] \in [Jobs -> 0..MaxHeld]
    BY <2>1 DEF TypeOK
  <2>4. CASE pc[u] = "unlocking"
    <3>1. u \in Runs /\ Running(u) /\ JobOf[u] \in Jobs
      BY <2>4, LockAssumption DEF TypeOK, Users, Running
    <3>2. \A r \in Runs : Running(r)' <=> r # u /\ Running(r)
      BY <2>2, <2>4, <3>1 DEF Running, TypeOK, Users
    <3>3. \A p \in Replicas, j \in Jobs :
            IF ReplicaOf[u] = p /\ JobOf[u] = j
              THEN Count(p, j) = Count(p, j)' + 1
              ELSE InProgress(p, j)' = InProgress(p, j)
      BY <3>1, <3>2, Leaves
    <3>4. <<c[1], JobOf[u]>> \in L
      BY <2>1, <2>4
    <3> HIDE DEF L
    <3>5. \A j \in Jobs : Kept(c, j, held[c]) \/ Missed(c, j, held[c], L)
      BY <2>1, <2>2, <3>3, <3>4 DEF Kept, Missed
    <3>6. \A p \in Replicas \ {c[1]}, j \in Jobs : InProgress(p, j)' = InProgress(p, j)
      BY <2>1, <3>3
    <3>7. Changes(c, held[c], L)
      BY <2>2, <3>5, <3>6 DEF Changes
    <3> QED BY <2>1, <2>3, <3>7, Accounts
  <2>5. CASE pc[u] # "unlocking"
    <3>1. \A r \in Runs : Running(r)' <=> Running(r)
      <4>1. u \in Runs => (Running(u)' <=> Running(u))
        BY <1>5, <2>2, <2>5 DEF Lose, Running, TypeOK
      <4> QED BY <2>2, <4>1 DEF Running, TypeOK, Users
    <3>2. \A p, j : InProgress(p, j)' = InProgress(p, j)
      BY <3>1, Same
    <3>3. \A j \in Jobs : Kept(c, j, held[c])
      BY <3>2 DEF Kept
    <3>4. Changes(c, held[c], L)
      BY <2>2, <3>2, <3>3 DEF Changes
    <3> QED BY <2>1, <2>3, <3>4, Accounts
  <2> QED BY <2>4, <2>5
<1>6. ASSUME NEW p \in Replicas, LoseIdle(p) PROVE HeldInv'
  <2>1. PICK i \in 1..Len(free[p]) :
          /\ held' = [held EXCEPT ![free[p][i]] = NoLocks]
          /\ DropLocks(free[p][i], held[free[p][i]])
    BY <1>6 DEF LoseIdle
  <2>2. PICK c \in Sessions : c = free[p][i]
    BY ElementOfSeq DEF TypeOK
  <2>3. /\ \A s \in Sessions \ {c} : held'[s] = held[s]
        /\ held'[c] = NoLocks /\ DropLocks(c, held[c]) /\ LeakLocks({})
        /\ UNCHANGED pc
    BY <1>6, <2>1, <2>2 DEF LoseIdle, TypeOK
  <2>4. held[c] \in [Jobs -> 0..MaxHeld]
    BY <2>2 DEF TypeOK
  <2>5. \A r \in Runs : Running(r)' <=> Running(r)
    BY <2>3 DEF Running
  <2>6. \A q, j : InProgress(q, j)' = InProgress(q, j)
    BY <2>5, Same
  <2>7. \A j \in Jobs : Kept(c, j, held[c])
    BY <2>6 DEF Kept
  <2>8. Changes(c, held[c], {})
    BY <2>3, <2>6, <2>7 DEF Changes
  <2> QED BY <2>2, <2>4, <2>8, Accounts
<1>7. ASSUME NEW p \in Replicas, Restart(p) PROVE HeldInv'
  <2>1. \A s \in Sessions, j \in Jobs :
          IF s[1] = p THEN held'[s][j] = 0 ELSE held'[s][j] = held[s][j]
    BY <1>7 DEF Restart, NoLocks
  <2>2. \A q \in Replicas, j \in Jobs :
          IF q = p THEN InProgress(q, j)' = {}
                   ELSE InProgress(q, j)' = InProgress(q, j)
    BY <1>7 DEF Restart, InProgress, RunsOf, Running, Users
  <2>3. \A q \in Replicas \ {p}, j \in Jobs : Count(q, j)' = Count(q, j)
    BY <2>2, ChangedCount
  <2>4. /\ \A d \in dropped : d[1] # p => d \in dropped'
        /\ \A d \in leaked : d[1] # p => d \in leaked'
    BY <1>7 DEF Restart
  <2>5. \A s \in Sessions : s[1] \in Replicas
    BY DEF Sessions
  <2>6. SoleHolder'
    BY <2>1 DEF HeldInv, SoleHolder
  <2>7. Guarded'
    <3> SUFFICES ASSUME NEW q \in Replicas, NEW j \in Jobs,
                        InProgress(q, j)' # {}, <<q, j>> \notin dropped'
                 PROVE  \E s \in Sessions : s[1] = q /\ held'[s][j] >= Count(q, j)'
      BY DEF Guarded
    <3>1. q # p /\ InProgress(q, j) # {} /\ <<q, j>> \notin dropped
      BY <2>2, <2>4
    <3> QED BY <2>1, <2>3, <3>1 DEF HeldInv, Guarded
  <2>8. Accounted'
    <3> SUFFICES ASSUME NEW s \in Sessions, NEW j \in Jobs, held'[s][j] > 0,
                        <<s[1], j>> \notin leaked'
                 PROVE  held'[s][j] =< Count(s[1], j)'
      BY DEF Accounted
    <3>1. s[1] # p
      BY <2>1
    <3> QED BY <2>1, <2>3, <2>4, <2>5, <3>1 DEF HeldInv, Accounted
  <2> QED BY <2>6, <2>7, <2>8 DEF HeldInv
<1> QED BY <1>1, <1>2, <1>3, <1>4, <1>5, <1>6, <1>7, Steps

LEMMA LockInit == Init => LockInv
<1> SUFFICES ASSUME Init PROVE LockInv
  OBVIOUS
<1>1. \A p \in Replicas : Len(free[p]) = 0
  BY EmptySeq DEF Init
<1>2. PoolInv
  BY <1>1 DEF Init, PoolInv
<1>3. \A s \in Sessions, j \in Jobs : ~(held[s][j] > 0)
  BY DEF Init
<1>4. \A p \in Replicas, j \in Jobs : InProgress(p, j) = {}
  BY DEF Init, InProgress, RunsOf, Running, Users
<1> QED BY <1>2, <1>3, <1>4, TypeInit
        DEF LockInv, HeldInv, SoleHolder, Guarded, Accounted

LEMMA LockStep == LockInv /\ [Next]_vars => LockInv'
BY TypeStep, PoolStep, HeldStep DEF LockInv

-----------------------------------------------------------------------------
\* Exclusion.

\* While a job is in progress in a replica that has not lost its lock, one of the
\* replica's sessions holds it.
LEMMA Holder ==
  ASSUME LockInv, NEW p \in Replicas, NEW j \in Jobs,
         InProgress(p, j) # {}, <<p, j>> \notin dropped
  PROVE  \E s \in Sessions : s[1] = p /\ held[s][j] > 0
<1>1. PICK s \in Sessions : s[1] = p /\ held[s][j] >= Count(p, j)
  BY DEF LockInv, HeldInv, Guarded
<1>2. Count(p, j) \in Nat /\ Count(p, j) # 0
  BY CountType
<1>3. held[s][j] \in 0..MaxHeld
  BY DEF LockInv, TypeOK
<1> QED BY <1>1, <1>2, <1>3, LockAssumption

\* Whatever the replicas, their pools and their callers: runs of one job in two
\* replicas are in progress together only when one of them lost its lock, by
\* the pool closing the session or by its end (job.go:46-54, store.go:48-58).
THEOREM RunsExclude == Spec => []ReplicasExclude
<1>1. LockInv => ReplicasExclude
  <2> SUFFICES ASSUME LockInv, NEW j \in Jobs, NEW p \in Replicas, NEW q \in Replicas,
                      p # q, InProgress(p, j) # {}, InProgress(q, j) # {},
                      <<p, j>> \notin dropped, <<q, j>> \notin dropped
               PROVE  FALSE
    BY DEF ReplicasExclude
  <2>1. PICK s \in Sessions : s[1] = p /\ held[s][j] > 0
    BY Holder
  <2>2. PICK t \in Sessions : t[1] = q /\ held[t][j] > 0
    BY Holder
  <2> QED BY <2>1, <2>2 DEF LockInv, HeldInv, SoleHolder
<1> QED BY <1>1, LockInit, LockStep, PTL DEF Spec

\* A run is told "job already running" only when that is so or when an unlock
\* has missed the session of the lock: no run that fails, is broken off or loses
\* a connection leaves its lock behind otherwise (job.go:51-54, store.go:57).
THEOREM RefusalsHaveCause == Spec => []RefusedForCause
<1>1. LockInv => RefusedForCause
  <2> SUFFICES ASSUME LockInv, NEW r \in Runs, LockedElsewhere(conn[r], JobOf[r])
               PROVE  \E p \in Replicas : \/ InProgress(p, JobOf[r]) # {}
                                          \/ <<p, JobOf[r]>> \in leaked
    BY DEF RefusedForCause
  <2>1. PICK t \in Sessions : held[t][JobOf[r]] > 0
    BY DEF LockedElsewhere
  <2>2. JobOf[r] \in Jobs /\ t[1] \in Replicas
    BY LockAssumption DEF Sessions
  <2>3. \/ <<t[1], JobOf[r]>> \in leaked
        \/ held[t][JobOf[r]] =< Count(t[1], JobOf[r])
    BY <2>1, <2>2 DEF LockInv, HeldInv, Accounted
  <2>4. held[t][JobOf[r]] \in 0..MaxHeld /\ Count(t[1], JobOf[r]) \in Nat
    BY <2>2, CountType DEF LockInv, TypeOK
  <2>5. \/ <<t[1], JobOf[r]>> \in leaked \/ Count(t[1], JobOf[r]) # 0
    BY <2>1, <2>3, <2>4
  <2> QED BY <2>2, <2>5, CountType
<1> QED BY <1>1, LockInit, LockStep, PTL DEF Spec

-----------------------------------------------------------------------------
\* The lock implements the mutex.

\* Only a job in progress can be without its lock.
DroppedRuns == \A d \in dropped : InProgress(d[1], d[2]) # {}

LEMMA DroppedStep ==
  ASSUME TypeOK, DroppedRuns, [Next]_vars
  PROVE  DroppedRuns'
<1>1. ASSUME UNCHANGED dropped, \A r \in Runs : Running(r)' <=> Running(r)
      PROVE  DroppedRuns'
  BY <1>1, Same DEF DroppedRuns
<1>2. ASSUME NEW s, NEW locks, DropLocks(s, locks) PROVE DroppedRuns'
  BY <1>2 DEF DropLocks, DroppedRuns
<1>3. CASE UNCHANGED vars
  BY <1>1, <1>3 DEF vars, Running
<1>4. ASSUME NEW u \in Users, Sends(u) PROVE DroppedRuns'
  BY <1>1, <1>4, SendsKeep
<1>5. ASSUME NEW u \in Users, Returns(u) PROVE DroppedRuns'
  <2>1. DropLocks(conn[u], NoLocks) \/ DropLocks(conn[u], LocksAfter(u))
    BY <1>5 DEF Returns, TakeBack
  <2> QED BY <1>2, <2>1
<1>6. ASSUME NEW r \in Runs, SourceError(r) PROVE DroppedRuns'
  <2>1. \A q \in Runs : Running(q)' <=> Running(q)
    BY <1>6 DEF SourceError, Goto, Running, TypeOK, Users
  <2> QED BY <1>1, <1>6, <2>1 DEF SourceError
<1>7. ASSUME NEW u \in Users, Lose(u) PROVE DroppedRuns'
  BY <1>2, <1>7 DEF Lose
<1>8. ASSUME NEW p \in Replicas, LoseIdle(p) PROVE DroppedRuns'
  BY <1>2, <1>8 DEF LoseIdle
<1>9. ASSUME NEW p \in Replicas, Restart(p) PROVE DroppedRuns'
  <2>1. \A q, j : q # p => InProgress(q, j)' = InProgress(q, j)
    BY <1>9 DEF Restart, InProgress, RunsOf, Running, Users
  <2>2. \A d \in dropped' : d \in dropped /\ d[1] # p
    BY <1>9 DEF Restart
  <2> QED BY <2>1, <2>2 DEF DroppedRuns
<1> QED BY <1>3, <1>4, <1>5, <1>6, <1>7, <1>8, <1>9, Steps

Active == {r \in Runs : Running(r)}

\* DropLocks is what the mutex allows: a pair stays dropped while it is in
\* progress.
LEMMA DropAllowed ==
  ASSUME TypeOK', DroppedRuns',
         \A d \in dropped : InProgress(d[1], d[2])' # {} => d \in dropped'
  PROVE  /\ dropped' \subseteq Replicas \X Jobs
         /\ \A r \in Active' : <<ReplicaOf[r], JobOf[r]>> \in dropped =>
              <<ReplicaOf[r], JobOf[r]>> \in dropped'
         /\ \A d \in dropped' : \E r \in Active' : <<ReplicaOf[r], JobOf[r]>> = d
<1>1. dropped' \subseteq Replicas \X Jobs
  BY DEF TypeOK
<1>2. ASSUME NEW r \in Active', <<ReplicaOf[r], JobOf[r]>> \in dropped
      PROVE  <<ReplicaOf[r], JobOf[r]>> \in dropped'
  <2>1. r \in InProgress(ReplicaOf[r], JobOf[r])'
    BY DEF Active, InProgress, RunsOf
  <2> QED BY <1>2, <2>1
<1>3. ASSUME NEW d \in dropped'
      PROVE  \E r \in Active' : <<ReplicaOf[r], JobOf[r]>> = d
  <2>1. PICK r \in Runs : r \in InProgress(d[1], d[2])'
    BY DEF DroppedRuns, InProgress, RunsOf
  <2>2. r \in Active' /\ ReplicaOf[r] = d[1] /\ JobOf[r] = d[2]
    BY <2>1 DEF Active, InProgress, RunsOf
  <2>3. d = <<d[1], d[2]>>
    BY <1>1
  <2> QED BY <2>2, <2>3
<1> QED BY <1>1, <1>2, <1>3

\* A step is a stutter of the mutex, a run let in, or the end of some runs.
LEMMA MutexNext ==
  ASSUME LockInv, TypeOK', DroppedRuns, DroppedRuns', [Next]_vars
  PROVE  \/ Active' = Active /\ dropped' = dropped
         \/ /\ \E r \in Runs :
                 /\ r \notin Active /\ Active' = Active \cup {r}
                 /\ \A q \in Active :
                      JobOf[q] = JobOf[r] /\ ReplicaOf[q] # ReplicaOf[r] =>
                        <<ReplicaOf[q], JobOf[q]>> \in dropped
            /\ \A d \in dropped : InProgress(d[1], d[2])' # {} => d \in dropped'
         \/ /\ \E S \in SUBSET Active : Active' = Active \ S
            /\ \A d \in dropped : InProgress(d[1], d[2])' # {} => d \in dropped'
<1> USE DEF LockInv
<1>1. ASSUME UNCHANGED dropped, \A r \in Runs : Running(r)' <=> Running(r)
      PROVE  Active' = Active /\ dropped' = dropped
  BY <1>1 DEF Active
<1>2. ASSUME NEW s, NEW locks, DropLocks(s, locks)
      PROVE  \A d \in dropped : InProgress(d[1], d[2])' # {} => d \in dropped'
  BY <1>2 DEF DropLocks
<1>3. CASE UNCHANGED vars
  BY <1>1, <1>3 DEF vars, Running
<1>4. ASSUME NEW u \in Users, Sends(u)
      PROVE  Active' = Active /\ dropped' = dropped
  BY <1>1, <1>4, SendsKeep
<1>5. ASSUME NEW r \in Runs, SourceError(r)
      PROVE  Active' = Active /\ dropped' = dropped
  <2>1. \A q \in Runs : Running(q)' <=> Running(q)
    BY <1>5 DEF SourceError, Goto, Running, TypeOK, Users
  <2> QED BY <1>1, <1>5, <2>1 DEF SourceError
<1>6. ASSUME NEW u \in Users, Returns(u),
             pc[u] = "locking", ~LockedElsewhere(conn[u], JobOf[u])
      PROVE  /\ u \in Runs /\ u \notin Active /\ Active' = Active \cup {u}
             /\ \A q \in Active :
                  JobOf[q] = JobOf[u] /\ ReplicaOf[q] # ReplicaOf[u] =>
                    <<ReplicaOf[q], JobOf[q]>> \in dropped
  <2>1. u \in Runs /\ JobOf[u] \in Jobs
    BY <1>6, LockAssumption DEF Returns
  <2>2. pc' = [pc EXCEPT ![u] = "locked"]
    BY <1>6 DEF Returns, TakeBack, Goto, PlaceAfter
  <2>3. u \notin Active /\ Active' = Active \cup {u}
    BY <1>6, <2>1, <2>2 DEF Active, Running, TypeOK, Users
  <2>4. ASSUME NEW q \in Active, JobOf[q] = JobOf[u], ReplicaOf[q] # ReplicaOf[u],
               <<ReplicaOf[q], JobOf[q]>> \notin dropped
        PROVE  FALSE
    <3>1. q \in InProgress(ReplicaOf[q], JobOf[q])
      BY DEF Active, InProgress, RunsOf
    <3>2. ReplicaOf[q] \in Replicas /\ JobOf[q] \in Jobs
      BY LockAssumption DEF Active, Users
    <3>3. PICK t \in Sessions : t[1] = ReplicaOf[q] /\ held[t][JobOf[q]] > 0
      BY <2>4, <3>1, <3>2, Holder
    <3>4. t # conn[u]
      BY <1>6, <2>1, <2>4, <3>3 DEF PoolInv, TypeOK
    <3> QED BY <1>6, <2>4, <3>3, <3>4 DEF LockedElsewhere
  <2> QED BY <2>1, <2>3, <2>4
<1>7. ASSUME NEW u \in Users, Returns(u) \/ Lose(u),
             ~(Returns(u) /\ pc[u] = "locking" /\ ~LockedElsewhere(conn[u], JobOf[u]))
      PROVE  \E S \in SUBSET Active : Active' = Active \ S
  <2>1. PICK to : pc' = [pc EXCEPT ![u] = to] /\
                  (to = "idle" \/ (pc[u] = "reading" /\ to = "read")
                   \/ (pc[u] \in {"reading", "tx"} /\ to = "ending"))
    <3>1. CASE Returns(u)
      BY <1>7, <3>1 DEF Returns, TakeBack, Goto, PlaceAfter
    <3>2. CASE Lose(u)
      BY <3>2 DEF Lose, Goto
    <3> QED BY <1>7, <3>1, <3>2
  <2>2. \A r \in Runs : Running(r)' => Running(r)
    BY <2>1 DEF Running, TypeOK, Users
  <2>3. Active' = Active \ (Active \ Active') /\ Active \ Active' \in SUBSET Active
    BY <2>2 DEF Active
  <2> QED BY <2>3
<1>8. ASSUME NEW u \in Users, Returns(u) \/ Lose(u)
      PROVE  \A d \in dropped : InProgress(d[1], d[2])' # {} => d \in dropped'
  <2>1. CASE Returns(u)
    <3>1. DropLocks(conn[u], NoLocks) \/ DropLocks(conn[u], LocksAfter(u))
      BY <2>1 DEF Returns, TakeBack
    <3> QED BY <1>2, <3>1
  <2>2. CASE Lose(u)
    BY <1>2, <2>2 DEF Lose
  <2> QED BY <1>8, <2>1, <2>2
<1>9. ASSUME NEW p \in Replicas, LoseIdle(p)
      PROVE  /\ Active' = Active \ {}
             /\ \A d \in dropped : InProgress(d[1], d[2])' # {} => d \in dropped'
  BY <1>2, <1>9 DEF LoseIdle, Active, Running
<1>10. ASSUME NEW p \in Replicas, Restart(p)
       PROVE  /\ \E S \in SUBSET Active : Active' = Active \ S
              /\ \A d \in dropped : InProgress(d[1], d[2])' # {} => d \in dropped'
  <2>1. \A r \in Runs : Running(r)' => Running(r)
    BY <1>10 DEF Restart, Running, Users
  <2>2. Active' = Active \ (Active \ Active') /\ Active \ Active' \in SUBSET Active
    BY <2>1 DEF Active
  <2>3. \A j : InProgress(p, j)' = {}
    BY <1>10 DEF Restart, InProgress, RunsOf, Running, Users
  <2>4. \A d \in dropped : d[1] # p => d \in dropped'
    BY <1>10 DEF Restart
  <2> QED BY <2>2, <2>3, <2>4
<1>11. {} \in SUBSET Active
  OBVIOUS
<1> QED
  BY <1>3, <1>4, <1>5, <1>6, <1>7, <1>8, <1>9, <1>10, <1>11, Steps

\* What TryLockJob and UnlockJob make of sessions implements JobMutex, whatever
\* the pools close and lose: a run is let in beside one of another replica only
\* when that one has lost the lock.
THEOREM LockIsMutex == Spec => MutexSpec
<1>1. Init => Mutex!Init
  BY DEF Init, Mutex!Init, Running, Users
<1>2. Init => DroppedRuns
  BY DEF Init, DroppedRuns
<1>3. LockInv /\ DroppedRuns /\ [Next]_vars => LockInv' /\ DroppedRuns'
  BY LockStep, DroppedStep DEF LockInv
<1>4. LockInv /\ LockInv' /\ DroppedRuns /\ DroppedRuns' /\ [Next]_vars
        => [Mutex!Next]_<<Active, dropped>>
  <2> SUFFICES ASSUME LockInv, LockInv', DroppedRuns, DroppedRuns', [Next]_vars
               PROVE  [Mutex!Next]_<<Active, dropped>>
    OBVIOUS
  <2>1. TypeOK'
    BY DEF LockInv
  <2>2. CASE \A d \in dropped : InProgress(d[1], d[2])' # {} => d \in dropped'
    <3>1. Mutex!Dropping
      BY <2>1, <2>2, DropAllowed DEF Mutex!Dropping, Mutex!PairOf, Active
    <3> QED
      BY <2>1, <3>1, MutexNext
      DEF Mutex!Next, Mutex!Admit, Mutex!Leave, Mutex!PairOf, Active
  <2>3. CASE Active' = Active /\ dropped' = dropped
    BY <2>3
  <2> QED BY <2>1, <2>2, <2>3, MutexNext
<1> QED
  BY <1>1, <1>2, <1>3, <1>4, LockInit, PTL DEF Spec, MutexSpec, Mutex!Spec, Active
=============================================================================
