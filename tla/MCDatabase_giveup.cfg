SPECIFICATION Spec
CONSTANTS
  MaxDuration = 15
  defaultRequeueInterval = 12
  defaultRetryInterval = 2
  maxRequeueJitter = 2
  Unset = Unset
  CR <- OneCR
  NoCR = NoCR
  Specs <- OneSpecs
  SpecOf <- OneSpecOf
  Holds = {FALSE}
  MaxDisturbances = 3
  Namespace = {"n1"}
  Steady = {}
  InstState = {"ok", "noCR", "noSecret"}
  Name = {"x", "y"}
  OutOfBand <- NoOthers
PROPERTY
  GivesUpOnlyIfGone
CHECK_DEADLOCK FALSE
