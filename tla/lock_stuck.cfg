SPECIFICATION FairSpec
CONSTANTS
  Replicas = {"A"}
  Jobs = {"portin", "cdb"}
  Runs <- TwoTickers
  Tickers <- MCTickers
  Probes <- ProbeOfA
  ReplicaOf <- MCReplicaOf
  JobOf <- MCJobOf
  MaxSessions = 3
  MaxIdle = 2
  MaxHeld = 2
  MayLose = FALSE
  MaxFailures = 0
  NoSession = NoSession
PROPERTIES
  JobKeepsRunning
