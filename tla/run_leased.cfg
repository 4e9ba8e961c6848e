SPECIFICATION Spec
CONSTANT Resources <- MCResources
INVARIANTS
  LeasedBeforeVisible
