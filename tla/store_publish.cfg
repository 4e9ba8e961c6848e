SPECIFICATION Spec
CONSTANTS
  Processes = {p1, p2}
  a1 = a1
  a2 = a2
  i1 = i1
  Contents = {a1, a2}
  Identity <- MCIdentity
  Pids = {q1, q2}
  Inodes = {f1, f2, f3, f4}
  MaxAttempts = 2
  MaxFaults = 2
  None = None
SYMMETRY StoreSymmetry
INVARIANTS
  TypeOK
  PublishedIsComplete
PROPERTIES
  ChangesAreSeenOnce
  ImplementsWriteOnce
CHECK_DEADLOCK FALSE
