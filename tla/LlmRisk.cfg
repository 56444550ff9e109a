\* Every form of reply, with a risk level of the contract, another or none.
CONSTANTS
  P = 11
  Bits = 2
  Base = 4
  Size = 2
SPECIFICATION Spec
INVARIANT RiskInContract
CHECK_DEADLOCK FALSE
