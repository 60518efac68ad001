SPECIFICATION FairSpec
CONSTANTS
  Orders = {1, 2}
  Partitioned = {1, 2}
  FirstIds = {1}
  Msisdns = {"n1", "n2"}
  NumberStatuses = {"created", "portation-complete", "transfered"}
  MaxDate = 4
  MaxFailures = 1
  Null = Null
  ConsulAnswers <- MCOwnSettings
  Unreachable = Unreachable
  Retries = 0
  MaxOutage = 1
  Consumers = {c1, c2}
  Patches = {"moved", "garbled", "unknown"}
  PatchOf <- MCPatchOf
  NotANumber = NotANumber
  Requests = {"pair"}
  BodiesOf <- MCOneBodyOf
  CreationDates = {1}
CHECK_DEADLOCK FALSE
PROPERTIES
  PatchesHandled
