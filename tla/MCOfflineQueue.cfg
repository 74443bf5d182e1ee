SPECIFICATION QueueFairSpec
CONSTANTS
  a = a
  b = b
  c = c
  Sales = {a, b, c}
  Skus = {"pen", "cap"}
  Serialized = {}
  Whole = {a, b}
  Scanned = {}
  First <- MCFirst
  Demand <- MCDemand
  Opening <- MCOpening
  Batches <- MCBatches
  RowSecurity = {TRUE, FALSE}
  MaxInFlight <- MCMaxInFlight
  MaxSupply <- MCMaxSupply
  Key <- MCKey
  Others <- MCOthers
  Drains = {1, 2}
INVARIANTS QueueTypeOK EachSaleOnce CapturedIsKept
PROPERTIES AcceptedUnlessDuplicates ProcessedIsRecorded DrainedOnReconnect
CHECK_DEADLOCK FALSE
