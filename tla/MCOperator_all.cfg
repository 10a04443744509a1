SPECIFICATION FairSpec
CONSTANTS
  MaxDuration = 15
  defaultRequeueInterval = 12
  defaultRetryInterval = 2
  maxRequeueJitter = 2
  Unset = Unset
  NoCR = NoCR
  Holds = {FALSE}
  MaxDisturbances = 4
  Namespace = {"n1"}
  InstState = {"ok"}
  Steady = {"n1"}
  database <- d
  user <- u
  grant <- g
  databaseSpec <- DatabaseD
  userSpec <- RoleR
  grantSpec <- AllOnD
  DatabaseNames = {"d"}
  RoleNames = {"r"}
  Schema = {"public"}
  Table = {"t"}
  DatabasePrivilege = {"CONNECT"}
  TablePrivilege = {"SELECT"}
  SecretName = {"s"}
  Password = {p1}
  Backslashed = {}
  NoPassword = NoPassword
  NoRole = NoRole
INVARIANTS
  TypeOK
  NothingLeft
PROPERTIES
  ServerCleared
  GrantReleased
  StrandedForGood
CHECK_DEADLOCK FALSE
