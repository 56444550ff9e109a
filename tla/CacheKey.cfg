\* Texts of up to two characters and up to two labels, separators included.
CONSTANTS
  P = 11
  Bits = 2
  Base = 4
  Size = 2
SPECIFICATION Spec
INVARIANT KeyNamesText
CHECK_DEADLOCK FALSE
