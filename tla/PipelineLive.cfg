CONSTANTS
  r1 = r1
  r2 = r2
  t1 = t1
  Requests = {r1, r2}
  TxIds = {t1}
  TxOf <- SameId
  None = None
  Faults = {"disconnect", "ner", "db"}
  HasZk = FALSE
  PoolSize = 1
  MaxCrashes = 0
SPECIFICATION FairSpec
CHECK_DEADLOCK FALSE
PROPERTIES
  HandlersWaitOnlyForDatabase
  DecidedIsSubmitted
