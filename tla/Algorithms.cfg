\* The field of 11 elements in two bytes of four values; the enumeration ends
\* when the inputs are picked.
CONSTANTS
  P = 11
  Bits = 2
  Base = 4
  Size = 2
SPECIFICATION Spec
INVARIANTS
  CircuitSound
  CircuitComplete
  StatementIsOrder
  OneEncoding
  RootCommits
  MessagesArrive
  DecodersAgree
  MatchesAreSameNames
  KeyTellsRequests
  ReportsCounted
CHECK_DEADLOCK FALSE
