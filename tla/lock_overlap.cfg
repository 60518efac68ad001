SPECIFICATION Spec
CONSTANTS
  Replicas = {"A"}
  Jobs = {"portin"}
  Runs <- TickerAndHandler
  Tickers <- MCTickers
  Probes = {}
  ReplicaOf <- MCReplicaOf
  JobOf <- MCJobOf
  MaxSessions = 2
  MaxIdle = 2
  MaxHeld = 3
  MayLose = FALSE
  MaxFailures = 0
  NoSession = NoSession
INVARIANTS
  ExclusiveRuns
