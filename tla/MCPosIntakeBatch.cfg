SPECIFICATION Spec
CONSTANTS
  a = a
  b = b
  c = c
  Sales = {a, b, c}
  Skus <- MCSkus
  Serialized = {"phone"}
  Whole = {a, b, c}
  First <- MCFirst
  Demand <- MCDemand
  Opening <- MCOpening
  Batches <- MCBatches
  RowSecurity = {TRUE, FALSE}
  MaxInFlight <- MCMaxInFlight
  MaxSupply <- MCMaxSupply
PROPERTIES AcceptedIsRecorded
CHECK_DEADLOCK FALSE
