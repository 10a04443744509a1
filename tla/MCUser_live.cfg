SPECIFICATION FairSpec
CONSTANTS
  MaxDuration = 15
  defaultRequeueInterval = 12
  defaultRetryInterval = 2
  maxRequeueJitter = 2
  Unset = Unset
  CR <- OneCR
  NoCR = NoCR
  Specs <- OneSpecs
  SpecOf <- OneSpecOf
  Holds = {TRUE, FALSE}
  MaxDisturbances = 3
  Namespace = {"n1"}
  Steady = {}
  InstState = {"ok", "noCR", "down"}
  Name = {"u", "w"}
  SecretName = {"s"}
  Password = {p1, p2}
  Backslashed = {p2}
  NoPassword = NoPassword
  NoRole = NoRole
  OutOfBand <- OthersW
PROPERTIES
  PasswordConverges
  DeletionCompletes
CHECK_DEADLOCK FALSE
