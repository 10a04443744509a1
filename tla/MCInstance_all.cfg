SPECIFICATION FairSpec
CONSTANTS
  MaxDuration = 15
  defaultRequeueInterval = 12
  defaultRetryInterval = 2
  maxRequeueJitter = 2
  Unset = Unset
  CR <- OneCR
  NoCR = NoCR
  Specs = {good, bad}
  SpecOf <- Any
  Holds = {TRUE, FALSE}
  MaxDisturbances = 4
  Namespace = {"n1"}
  Steady = {}
  InstState = {"ok", "noKey", "down"}
  Misdirected = {bad}
INVARIANTS
  TypeOK
  ReadyEarned
  NeverForgotten
PROPERTY
  StatusFollows
CHECK_DEADLOCK FALSE
