---------------------------- MODULE SessionLock ----------------------------
(***************************************************************************)
(* TryLockJob and UnlockJob of internal/target/store.go as the jobs use    *)
(* them.  The lock is a PostgreSQL advisory lock of the SESSION that asked *)
(* for it: the session may ask again and is granted again, only the same   *)
(* session can give it back, and it ends with the session.  But the calls  *)
(* go through a *sql.DB, which lends a connection for one statement or one *)
(* transaction and then takes it back, so a run does not keep the session  *)
(* its lock belongs to.                                                    *)
(*                                                                         *)
(* The users of the pool are the runs of both jobs (tickers and HTTP       *)
(* handlers) and the health checks of every replica of the service.        *)
(***************************************************************************)
EXTENDS Integers, FiniteSets, Sequences

CONSTANTS
  Replicas,    \* processes of the service
  Jobs,        \* the lock names
  Runs,        \* callers of Run: one ticker per job and replica, HTTP handlers
  Tickers,     \* the runs that are started again and again
  Probes,      \* health checks that ping the pool
  ReplicaOf,   \* user -> the replica it belongs to
  JobOf,       \* run -> the lock name it uses
  MaxSessions, \* bound on the session names of a replica: its number of users
  MaxIdle,     \* idle connections the pool keeps (2 unless configured)
  MaxHeld,     \* bound: a session's hold count stops growing here
  MayLose,     \* TRUE when connections may break or time out
  MaxFailures, \* bound on broken connections and restarts of replicas
  NoSession

Users == Runs \cup Probes

Sessions == Replicas \X (1..MaxSessions)

RunsOf(p, j) == {r \in Runs : ReplicaOf[r] = p /\ JobOf[r] = j}

ASSUME LockAssumption ==
  /\ ReplicaOf \in [Users -> Replicas] /\ JobOf \in [Runs -> Jobs]
  /\ Runs \cap Probes = {} /\ Tickers \subseteq Runs /\ IsFiniteSet(Runs)
  /\ MaxSessions \in Nat \ {0} /\ MaxIdle \in Nat \ {0} /\ MaxHeld \in Nat \ {0}
  /\ MayLose \in BOOLEAN /\ MaxFailures \in Nat
  /\ NoSession \notin Sessions
  \* A count that has stopped growing is then never brought down to 0.
  /\ \A p \in Replicas, j \in Jobs : Cardinality(RunsOf(p, j)) < MaxHeld

VARIABLES
  free,    \* replica -> idle connections of its pool, the last is lent first
  conn,    \* user -> the connection lent to it
  held,    \* session -> lock name -> how often the session holds the lock
  pc,      \* user -> where it is
  failures \* broken connections and restarts so far

\* For checking only: why the lock fails, of pairs of a replica and a job.
VARIABLES
  dropped, \* the session that held the lock ended while the job was in progress
  leaked   \* an unlock did not reach the session that holds the lock

vars == <<free, conn, held, pc, failures, dropped, leaked>>

Init ==
  /\ free = [p \in Replicas |-> <<>>]
  /\ conn = [u \in Users |-> NoSession]
  /\ held = [s \in Sessions |-> [j \in Jobs |-> 0]]
  /\ pc = [u \in Users |-> "idle"]
  /\ failures = 0
  /\ dropped = {} /\ leaked = {}

\* Between the grant and the unlock of the lock.
Running(r) ==
  pc[r] \in {"locked", "reading", "read", "tx", "ending", "unlocking"}

\* The runs of a job in progress in a replica.
InProgress(p, j) == {r \in RunsOf(p, j) : Running(r)}

-----------------------------------------------------------------------------
\* The pool (database/sql) and what ends with a session.

Pooled(p) == {free[p][i] : i \in 1..Len(free[p])}

Lent == {conn[u] : u \in Users} \ {NoSession}

Unopened(p) == ({p} \X (1..MaxSessions)) \ (Pooled(p) \cup Lent)

\* The most recently returned connection, or a new one when none is idle; the
\* name of the new one does not matter.
Lend(u) ==
  LET p == ReplicaOf[u]
      n == Len(free[p])
  IN  \/ /\ n > 0
         /\ conn' = [conn EXCEPT ![u] = free[p][n]]
         /\ free' = [free EXCEPT ![p] = SubSeq(free[p], 1, n - 1)]
      \/ /\ n = 0 /\ Unopened(p) # {}
         /\ conn' = [conn EXCEPT ![u] = CHOOSE s \in Unopened(p) : TRUE]
         /\ UNCHANGED free

NoLocks == [j \in Jobs |-> 0]

\* The session s, holding these locks, ends: jobs in progress are without theirs.
DropLocks(s, locks) ==
  dropped' = {d \in dropped \cup {<<s[1], j>> : j \in {k \in Jobs : locks[k] > 0}} :
                InProgress(d[1], d[2])' # {}}

\* An unlock for the pairs L did not reach the session that holds the lock.
LeakLocks(L) ==
  leaked' = {d \in leaked \cup L :
               \E s \in Sessions : s[1] = d[1] /\ held'[s][d[2]] > 0}

Goto(u, to) == pc' = [pc EXCEPT ![u] = to]

\* The statement is answered and the connection comes back; it is closed when
\* MaxIdle are idle already, and its locks go with it.  locks: what the session
\* holds after the statement.
TakeBack(u, locks, to) ==
  LET p == ReplicaOf[u]
  IN  /\ conn' = [conn EXCEPT ![u] = NoSession]
      /\ Goto(u, to)
      /\ IF Len(free[p]) < MaxIdle
           THEN /\ free' = [free EXCEPT ![p] = Append(@, conn[u])]
                /\ held' = [held EXCEPT ![conn[u]] = locks]
                /\ DropLocks(conn[u], NoLocks)
           ELSE /\ held' = [held EXCEPT ![conn[u]] = NoLocks]
                /\ DropLocks(conn[u], locks)
                /\ UNCHANGED free
      /\ UNCHANGED failures

-----------------------------------------------------------------------------
\* The statements of a run, each on the connection it is lent.

LockedElsewhere(s, j) == \E t \in Sessions \ {s} : held[t][j] > 0

\* A statement is sent on a connection from the pool.
Send(u, to) ==
  /\ Lend(u) /\ Goto(u, to)
  /\ UNCHANGED <<held, failures, dropped, leaked>>

\* TryLockJob sends pg_try_advisory_lock.
AskLock(r) == pc[r] = "idle" /\ Send(r, "locking")

Granted(r) ==
  /\ pc[r] = "locking" /\ ~LockedElsewhere(conn[r], JobOf[r])
  /\ TakeBack(r, [held[conn[r]] EXCEPT ![JobOf[r]] =
                    IF @ < MaxHeld THEN @ + 1 ELSE @], "locked")
  /\ LeakLocks({})

\* Mutant: Run logs that the job is running and goes on.
RefusedGoesOn(r) ==
  /\ pc[r] = "locking" /\ LockedElsewhere(conn[r], JobOf[r])
  /\ TakeBack(r, held[conn[r]], "locked") /\ LeakLocks({})

\* "job already running": Run returns nil.
Refused(r) ==
  /\ pc[r] = "locking" /\ LockedElsewhere(conn[r], JobOf[r])
  /\ TakeBack(r, held[conn[r]], "idle") /\ LeakLocks({})

\* MaxFromDate or MaxRawRequestTime.
AskDepth(r) == pc[r] = "locked" /\ Send(r, "reading")

GotDepth(r) ==
  /\ pc[r] = "reading"
  /\ TakeBack(r, held[conn[r]], "read") /\ LeakLocks({})

\* Mutant: Run returns without the deferred UnlockJob.
SourceErrorKeepsLock(r) ==
  /\ pc[r] = "read" /\ Goto(r, "idle") /\ DropLocks(<<ReplicaOf[r], 1>>, NoLocks)
  /\ UNCHANGED <<free, conn, held, failures, leaked>>

\* A query of the source fails: Run returns through its defers.
SourceError(r) ==
  /\ pc[r] = "read" /\ Goto(r, "ending")
  /\ UNCHANGED <<free, conn, held, failures, dropped, leaked>>

\* BeginTx keeps the connection until Commit or Rollback.
BeginTx(r) == pc[r] = "read" /\ Send(r, "tx")

\* Mutant: no deferred Rollback, the connection stays with the transaction.
EndTxWithoutRollback(r) ==
  /\ pc[r] = "tx" /\ Goto(r, "ending")
  /\ UNCHANGED <<free, conn, held, failures, dropped, leaked>>

EndTx(r) ==
  /\ pc[r] = "tx"
  /\ TakeBack(r, held[conn[r]], "ending") /\ LeakLocks({})

\* The deferred UnlockJob sends pg_advisory_unlock.
AskUnlock(r) == pc[r] = "ending" /\ Send(r, "unlocking")

\* Mutant: pg_advisory_unlock_all.
UnlockedAll(r) ==
  LET p == ReplicaOf[r]
      count == held[conn[r]][JobOf[r]]
  IN  /\ pc[r] = "unlocking"
      /\ TakeBack(r, NoLocks, "idle")
      /\ LeakLocks(IF count = 0 THEN {<<p, JobOf[r]>>} ELSE {})

\* A session that does not hold the lock is only warned; the result is dropped.
Unlocked(r) ==
  LET p == ReplicaOf[r]
      count == held[conn[r]][JobOf[r]]
  IN  /\ pc[r] = "unlocking"
      /\ TakeBack(r, [held[conn[r]] EXCEPT ![JobOf[r]] =
                        IF @ > 0 THEN @ - 1 ELSE 0], "idle")
      /\ LeakLocks(IF count = 0 THEN {<<p, JobOf[r]>>} ELSE {})

\* The health check of the replica pings the database.
Ping(u) == pc[u] = "idle" /\ Send(u, "pinging")

Ponged(u) ==
  /\ pc[u] = "pinging"
  /\ TakeBack(u, held[conn[u]], "idle") /\ LeakLocks({})

-----------------------------------------------------------------------------
\* Failures.

\* The run's context expires or the connection breaks during a statement: the
\* driver drops the connection and the session ends.
Lose(u) ==
  /\ MayLose /\ failures < MaxFailures /\ conn[u] # NoSession
  /\ failures' = failures + 1
  /\ conn' = [conn EXCEPT ![u] = NoSession]
  /\ held' = [held EXCEPT ![conn[u]] = NoLocks]
  /\ Goto(u, IF pc[u] \in {"reading", "tx"} THEN "ending" ELSE "idle")
  /\ DropLocks(conn[u], held[conn[u]])
  /\ LeakLocks(IF pc[u] = "unlocking" THEN {<<ReplicaOf[u], JobOf[u]>>} ELSE {})
  /\ UNCHANGED free

\* An idle connection breaks; the pool does not lend it again.
LoseIdle(p) ==
  /\ MayLose /\ failures < MaxFailures
  /\ failures' = failures + 1
  /\ UNCHANGED <<conn, pc>>
  /\ \E i \in 1..Len(free[p]) :
       /\ free' = [free EXCEPT ![p] = SubSeq(@, 1, i - 1)
                                        \o SubSeq(@, i + 1, Len(@))]
       /\ held' = [held EXCEPT ![free[p][i]] = NoLocks]
       /\ DropLocks(free[p][i], held[free[p][i]])
  /\ LeakLocks({})

\* A replica stops and starts again: all its sessions end.
Restart(p) ==
  /\ failures < MaxFailures
  /\ failures' = failures + 1
  /\ free' = [free EXCEPT ![p] = <<>>]
  /\ conn' = [u \in Users |-> IF ReplicaOf[u] = p THEN NoSession ELSE conn[u]]
  /\ held' = [s \in Sessions |-> IF s[1] = p THEN NoLocks ELSE held[s]]
  /\ pc' = [u \in Users |-> IF ReplicaOf[u] = p THEN "idle" ELSE pc[u]]
  /\ dropped' = {d \in dropped : d[1] # p}
  /\ leaked' = {d \in leaked : d[1] # p}

\* What a run does once it has asked for the lock.
GoOn(r) ==
  \/ Granted(r) \/ Refused(r)
  \/ AskDepth(r) \/ GotDepth(r)
  \/ SourceError(r) \/ BeginTx(r) \/ EndTx(r)
  \/ AskUnlock(r) \/ Unlocked(r)

Next ==
  \/ \E r \in Runs : AskLock(r) \/ GoOn(r)
  \/ \E u \in Probes : Ping(u) \/ Ponged(u)
  \/ \E u \in Users : Lose(u)
  \/ \E p \in Replicas : LoseIdle(p) \/ Restart(p)

Spec == Init /\ [][Next]_vars

\* Statements are answered and the tickers go on ticking; nothing is assumed of
\* the HTTP handlers' callers.
FairSpec ==
  /\ Spec
  /\ \A r \in Tickers : WF_vars(AskLock(r))
  /\ \A r \in Runs : WF_vars(GoOn(r))

-----------------------------------------------------------------------------

\* Every variable stays in its type, and a user has a connection only during a
\* statement or its transaction: none is kept when Run has returned.
TypeOK ==
  /\ free \in [Replicas -> Seq(Sessions)]
  /\ conn \in [Users -> Sessions \cup {NoSession}]
  /\ held \in [Sessions -> [Jobs -> 0..MaxHeld]]
  /\ pc \in [Users -> {"idle", "locking", "locked", "reading", "read", "tx",
                       "ending", "unlocking", "pinging"}]
  /\ \A u \in Probes : pc[u] \in {"idle", "pinging"}
  /\ failures \in 0..MaxFailures
  /\ dropped \subseteq Replicas \X Jobs /\ leaked \subseteq Replicas \X Jobs
  /\ \A u \in Users :
       conn[u] # NoSession <=>
         pc[u] \in {"locking", "reading", "tx", "unlocking", "pinging"}

\* Two runs of one job are never in progress at once ("job already running",
\* job.go:50-53).
ExclusiveRuns ==
  \A q, r \in Runs :
    Running(q) /\ Running(r) /\ JobOf[q] = JobOf[r] => q = r

\* Runs of one job in two replicas are in progress together only when one of
\* the replicas has lost its lock meanwhile: the pool closed the session that
\* held it, or the session broke.  Unlocks that reach the wrong session, runs
\* let in twice and the other job's statements are never the reason
\* (job.go:46-54, store.go:48-58).
ReplicasExclude ==
  \A j \in Jobs, p, q \in Replicas :
    p # q /\ InProgress(p, j) # {} /\ InProgress(q, j) # {} =>
      <<p, j>> \in dropped \/ <<q, j>> \in dropped

\* "job already running" is said only while a run of the job is in progress or
\* because an unlock has missed the session that holds the lock; a run that
\* fails half-way, is broken off or loses its connection leaves no lock behind
\* (job.go:51-54, store.go:57).
RefusedForCause ==
  \A r \in Runs :
    pc[r] = "locking" /\ LockedElsewhere(conn[r], JobOf[r]) =>
      \E p \in Replicas :
        InProgress(p, JobOf[r]) # {} \/ <<p, JobOf[r]>> \in leaked

\* Every job goes on being run, whatever happened before.
JobKeepsRunning ==
  \A j \in Jobs : []<>(\E p \in Replicas : InProgress(p, j) # {})

\* A job stops being run only for a lock that an unlock has missed and whose
\* session lives on (store.go:57, main.go:111-128).
StopsOnlyWhenLeaked ==
  \A j \in Jobs :
    \/ []<>(\E p \in Replicas : InProgress(p, j) # {})
    \/ <>[](\E p \in Replicas : <<p, j>> \in leaked)

\* The lock as the runs see it implements JobMutex.
Mutex == INSTANCE JobMutex
  WITH active <- {r \in Runs : Running(r)}

MutexSpec == Mutex!Spec
=============================================================================
