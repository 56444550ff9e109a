CONSTANTS
  s1 = s1
  s2 = s2
  empty = empty
  P = 11
  Bits = 2
  Sessions = {s1, s2}
  Amounts <- AroundThreshold
  Parts = 4
  Senders <- Names
  EmptyName = empty
  SetId = 16
  Threshold = 2
  Poseidon <- Shuffle
  MaxCrashes = 2
SYMMETRY Symmetric
SPECIFICATION Spec
CHECK_DEADLOCK FALSE
INVARIANTS
  IInv
  VerifiedMeansCompliant
  RejectedMeansNotCompliant
  CountersTellStatements
