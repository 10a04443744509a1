SPECIFICATION Spec
CONSTANT
  MaxLen = 5
INVARIANT
  GivenPassword
CHECK_DEADLOCK FALSE
