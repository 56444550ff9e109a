CONSTANTS
  r1 = r1
  r2 = r2
  t1 = t1
  Requests = {r1, r2}
  TxIds = {t1}
  TxOf <- SameId
  None = None
  Faults = {"disconnect", "llm", "db"}
  HasZk = TRUE
  PoolSize = 1
  MaxCrashes = 1
SYMMETRY Symmetric
SPECIFICATION Spec
CHECK_DEADLOCK FALSE
INVARIANTS
  IInv
  FlagFollowsNer
  RowIsOneOutcome
  RefusalLeavesNoTrace
  RecordedBeforeAnnounced
  StatisticsCoherent
  CountersOrdered
PROPERTIES
  NoLateOverwrite
  ImplementsCompliance
