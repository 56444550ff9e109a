CONSTANTS
  r1 = r1
  r2 = r2
  r3 = r3
  memo = memo
  invoice = invoice
  mugabe = mugabe
  novak = novak
  None = None
  Requests = {r1, r2, r3}
  Texts = {memo, invoice}
  TextOf <- TextsSent
  Names = {mugabe, novak}
  Gliner <- Finds
  Builtin <- BuiltinNames
  Listings <- Lists
  MaxStarts = 2
SPECIFICATION FairSpec
INVARIANTS
  IInv
  AnswerFollowsList
  FailureIsNeverRedis
PROPERTIES
  EveryDetectEnds
