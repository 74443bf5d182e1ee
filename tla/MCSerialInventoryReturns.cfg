SPECIFICATION Spec
CONSTANTS
  s1 = s1
  s2 = s2
  x1 = x1
  x2 = x2
  Serials = {s1, s2}
  Stores = {"front", "back"}
  Restricted = {"front"}
  Transfers = {x1, x2}
  Rmas = {"rma"}
  UnitCost = 1
  InTransit = "transit"
  NoLoc = "null"
  MaxSlips = 1
PROPERTY OnlySoldAreReturned

CHECK_DEADLOCK FALSE
