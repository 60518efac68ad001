------------------------------ MODULE JobMutex ------------------------------
(***************************************************************************)
(* What the job lock really promises to Run: a run is let in beside runs of *)
(* its own replica and beside runs of another replica only when that        *)
(* replica has lost the lock while it was running the job.                  *)
(***************************************************************************)
CONSTANTS
  Replicas,  \* processes of the service
  Jobs,      \* the lock names
  Runs,      \* the callers of Run
  ReplicaOf, \* run -> the replica it belongs to
  JobOf      \* run -> the lock name it uses

VARIABLES
  active,  \* the runs in progress
  dropped  \* <<replica, job>>: in progress, and its lock is gone

PairOf(r) == <<ReplicaOf[r], JobOf[r]>>

Init == active = {} /\ dropped = {}

\* Locks are dropped, also together with one of the actions below; a replica
\* that has no run of the job left has nothing to lose any more.
Dropping ==
  /\ dropped' \subseteq Replicas \X Jobs
  /\ \A r \in active' : PairOf(r) \in dropped => PairOf(r) \in dropped'
  /\ \A d \in dropped' : \E r \in active' : PairOf(r) = d

Admit(r) ==
  /\ r \notin active
  /\ \A q \in active :
       JobOf[q] = JobOf[r] /\ ReplicaOf[q] # ReplicaOf[r] => PairOf(q) \in dropped
  /\ active' = active \cup {r} /\ Dropping

\* Runs end: UnlockJob, or the end of the process they run in.
Leave(S) == active' = active \ S /\ Dropping

Next == (\E r \in Runs : Admit(r)) \/ \E S \in SUBSET active : Leave(S)

Spec == Init /\ [][Next]_<<active, dropped>>
=============================================================================
