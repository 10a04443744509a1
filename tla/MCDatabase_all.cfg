SPECIFICATION FairSpec
CONSTANTS
  MaxDuration = 15
  defaultRequeueInterval = 12
  defaultRetryInterval = 2
  maxRequeueJitter = 2
  Unset = Unset
  CR <- TwoCRs
  NoCR = NoCR
  Specs <- TwoSpecs
  SpecOf <- TwoSpecOf
  Holds = {TRUE, FALSE}
  MaxDisturbances = 3
  Namespace = {"n1", "n2"}
  Steady = {"n2"}
  InstState = {"ok", "noSecret", "down"}
  Name = {"x", "y"}
  OutOfBand <- Shared
INVARIANTS
  TypeOK
  FinalizerEarned
  ReadyEarned
  ReadyMeansExists
  NeverForgotten
PROPERTIES
  DropIsWanted
  CleanupBeforeRelease
  ImplementsLifecycle
  EventuallyReady
  DeletionCompletes
CHECK_DEADLOCK FALSE
