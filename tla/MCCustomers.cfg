SPECIFICATION Spec
CONSTANTS
  ann = ann
  bob = bob
  cy = cy
  r1 = r1
  r2 = r2
  x1 = x1
  x2 = x2
  None = None
  Customers = {ann, bob, cy}
  Seeded <- MCSeeded
  Requests = {r1, r2}
  Emails = {"e1", "e2", "e3"}
  TaxIds = {"t"}
  Crids = {"k"}
  Bought <- MCBought
  Addresses = {1, 2}
  Kinds = {"billing"}
  Schemas = {"migrated", "queried"}
  MaxRequests = 3
SYMMETRY Symmetry
INVARIANTS CustTypeOK MergedOnce ReturnsFollowMerges ErasedStaysErased LogTellsTheProfile
CHECK_DEADLOCK FALSE
