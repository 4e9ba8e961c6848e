SPECIFICATION Spec
CONSTANT Resources <- MCResources
INVARIANTS
  VerifiedMeansGone
