SPECIFICATION FairSpec
CONSTANTS
  MaxDuration = 15
  defaultRequeueInterval = 12
  defaultRetryInterval = 2
  maxRequeueJitter = 2
  Unset = Unset
  CR <- OneCR
  NoCR = NoCR
  Specs <- OneSpecs
  SpecOf <- OneSpecOf
  Holds = {TRUE, FALSE}
  MaxDisturbances = 3
  Namespace = {"n1"}
  Steady = {}
  InstState = {"ok", "noCR", "down"}
  Database = {"d"}
  Schema = {"public"}
  Role = {"r", "q"}
  Table = {"t"}
  DatabasePrivilege = {"CONNECT"}
  TablePrivilege = {"SELECT"}
INVARIANTS
  TypeOK
  ReadyMeansGranted
  NeverForgotten
PROPERTIES
  RevokedBeforeRelease
  ImplementsLifecycle
  EventuallyGranted
  DeletionCompletes
CHECK_DEADLOCK FALSE
