SPECIFICATION Spec
CONSTANTS
  MaxDuration = 15
  defaultRequeueInterval = 12
  defaultRetryInterval = 2
  maxRequeueJitter = 2
  Unset = Unset
  CR <- OneCR
  NoCR = NoCR
  Specs <- OneSpecs
  SpecOf <- OneSpecOf
  Holds = {FALSE}
  MaxDisturbances = 2
  Namespace = {"n1"}
  Steady = {}
  InstState = {"ok"}
  Database = {"d"}
  Schema = {"public"}
  Role = {"r", "q"}
  Table = {"t"}
  DatabasePrivilege = {"CONNECT"}
  TablePrivilege = {"SELECT"}
PROPERTY
  AllRevoked
CHECK_DEADLOCK FALSE
