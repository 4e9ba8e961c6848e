SPECIFICATION Spec
CONSTANT Resources <- MCResources
INVARIANTS
  TypeOK
  JudgedRunsAreClean
  EvidenceIsTrue
  ReceiptAccountsForAll
  StoppedRunsAreNotJudged
PROPERTIES
  ScratchGoesLast
