SPECIFICATION Spec
CONSTANTS
  MaxDuration = 15
  defaultRequeueInterval = 12
  defaultRetryInterval = 2
  maxRequeueJitter = 2
  Unset = Unset
  CR <- TwoCRs
  NoCR = NoCR
  Specs <- TwoSpecs
  SpecOf <- TwoSpecOf
  Holds = {TRUE, FALSE}
  MaxDisturbances = 3
  Namespace = {"n1", "n2"}
  Steady = {"n2"}
  InstState = {"ok", "noCR", "down"}
  Name = {"u", "w"}
  SecretName = {"s"}
  Password = {p1, p2}
  Backslashed = {p2}
  NoPassword = NoPassword
  NoRole = NoRole
  OutOfBand <- OthersW
INVARIANTS
  TypeOK
  ReadyIsGuarded
  ReadyMeansRole
  NeverForgotten
PROPERTIES
  ReportedPasswordApplied
  CleanupBeforeRelease
  ImplementsLifecycle
CHECK_DEADLOCK FALSE
