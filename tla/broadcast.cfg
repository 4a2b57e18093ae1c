SPECIFICATION Spec
CONSTANTS
  Handlers = {a, b, c, d, e}
  NoOne = none
  Capacity = 5
SYMMETRY Interchangeable
INVARIANTS
  NoDanglingPointer
  ListIsExact
  LossIsBounded
CHECK_DEADLOCK FALSE
