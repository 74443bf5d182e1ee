SPECIFICATION QueueFairSpec
CONSTANTS
  a = a
  b = b
  c = c
  Sales = {b, c}
  Skus = {"pen", "cap"}
  Serialized = {}
  Whole = {b}
  Scanned = {c}
  First <- MCFirst
  Demand <- MCDemandOf
  Opening <- MCOpeningBoth
  Batches <- MCSingles
  RowSecurity = {TRUE}
  MaxInFlight <- MCTwoInFlight
  MaxSupply <- MCNoSupply
  Key <- MCKeyOf
  Others = {}
  Drains = {1}
PROPERTIES ReconciledWhileOnline
CHECK_DEADLOCK FALSE
