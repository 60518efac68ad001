SPECIFICATION FairSpec
CONSTANTS
  Replicas = {"A", "B"}
  Jobs = {"portin"}
  Runs <- TickersAndHandlerOfTwo
  Tickers <- MCTickers
  Probes <- ProbeOfA
  ReplicaOf <- MCReplicaOf
  JobOf <- MCJobOf
  MaxSessions = 3
  MaxIdle = 2
  MaxHeld = 3
  MayLose = TRUE
  MaxFailures = 1
  NoSession = NoSession
INVARIANTS
  TypeOK
  ReplicasExclude
  RefusedForCause
PROPERTIES
  MutexSpec
  StopsOnlyWhenLeaked
