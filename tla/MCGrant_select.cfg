SPECIFICATION FairSpec
CONSTANTS
  MaxDuration = 15
  defaultRequeueInterval = 12
  defaultRetryInterval = 2
  maxRequeueJitter = 2
  Unset = Unset
  CR <- OneCR
  NoCR = NoCR
  Specs <- SelectSpecs
  SpecOf <- SelectSpecOf
  Holds = {FALSE}
  MaxDisturbances = 1
  Namespace = {"n1"}
  Steady = {}
  InstState = {"ok"}
  Database = {"d"}
  Schema = {"public"}
  Role = {"r", "q"}
  Table = {"t"}
  DatabasePrivilege = {"CONNECT"}
  TablePrivilege = {"SELECT"}
PROPERTY
  TablePrivilegesGranted
CHECK_DEADLOCK FALSE
