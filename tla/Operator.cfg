SPECIFICATION OFairSpec
CONSTANTS
  AddrBits = 1
  Keys <- MCKeys
  Specs <- MCSpecs
  MaxChanges = 3
  MaxErrors = 2
INVARIANT StatusIsTrue
PROPERTIES
  ObservedNeverBack
  StatusSettles
CHECK_DEADLOCK FALSE
