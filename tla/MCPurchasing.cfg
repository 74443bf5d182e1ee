SPECIFICATION Spec
CONSTANTS
  p1 = p1
  p2 = p2
  l1 = l1
  l2 = l2
  c1 = c1
  c2 = c2
  NoOrder = NoOrder
  Orders = {p1, p2}
  Lines = {l1, l2}
  Quantities = {1, 2}
  Tolerance = 50
  Callers = {{"Purchasing"}, {"Store Manager"}, {"Receiver"}, {"Cashier"}}
  Clerks = {c1, c2}
SYMMETRY Symmetry
INVARIANTS TypeOK WithinTolerance ClosedIsComplete NothingReceivedEarly FullyReceivedIsClosed
PROPERTY FinalStatesStay
CHECK_DEADLOCK FALSE
