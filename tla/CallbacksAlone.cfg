\* One server process, no queries; o2 carries a trade number of o1.
SPECIFICATION Spec
CONSTANTS
  o1 = o1
  o2 = o2
  o9 = o9
  t1 = t1
  t2 = t2
  Null = Null
  Orders = {o1, o2}
  EcpayOrders = {o1, o2}
  PlanOrders = {o1}
  Charges <- ReusedTrade3
  Happening <- OneEach
  Workers = {w1}
  Askers = {}
INVARIANTS
  DuplicatesAreOfOneOrder
  LedgerExplainsOrders
PROPERTIES
  ImplementsLifecycle
