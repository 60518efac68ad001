SPECIFICATION Spec
CONSTANTS
  Orders = {1, 2}
  Partitioned = {1, 2}
  FirstIds = {1, 2}
  Msisdns = {"n1", "n2"}
  NumberStatuses = {"created", "portation-complete", "transfered"}
  MaxDate = 4
  MaxFailures = 1
  Null = Null
  ConsulAnswers <- MCConsulAnswers
  Unreachable = Unreachable
  Retries = 3
  MaxOutage = 8
  Consumers = {c1, c2}
  Patches = {"moved", "ported", "resent"}
  PatchOf <- MCPatchOf
  NotANumber = NotANumber
  Requests = {"single", "pair"}
  BodiesOf <- MCBodiesOf
  CreationDates = {1}
CHECK_DEADLOCK FALSE
SYMMETRY ConsumerSymmetry
INVARIANTS
  TypeOK
  ConfigIsUsable
  OutageSurvived
  OrdersAreWhole
  ConfirmedIsAnnounced
  DuplicatesAreRaces
  NoPatchLost
  UnannouncedIsRejected
  EventsTellCommitted
  StatesAreEarned
PROPERTIES
  ImplementsOrdersDB
