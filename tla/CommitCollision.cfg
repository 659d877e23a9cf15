\* Violated: a collision at commit is acknowledged for another order.
SPECIFICATION Spec
CONSTANTS
  o1 = o1
  o2 = o2
  o9 = o9
  t1 = t1
  t2 = t2
  Null = Null
  Orders = {o1, o2}
  EcpayOrders = {o1, o2}
  PlanOrders = {}
  Charges <- ReusedTrade
  Happening <- PaidOrFailed
  Workers = {w1, w2}
  Askers = {}
INVARIANTS
  DuplicatesAreOfOneOrder
