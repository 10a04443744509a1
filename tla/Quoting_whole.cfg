SPECIFICATION Spec
CONSTANT
  MaxLen = 5
INVARIANTS
  LiteralIsWhole
  LiteralIsExact
  ConnectionExact
CHECK_DEADLOCK FALSE
