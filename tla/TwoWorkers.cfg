\* Two server processes, no queries; the gateways send again; o2 carries a trade number of o1.
SPECIFICATION ResendSpec
CONSTANTS
  o1 = o1
  o2 = o2
  o9 = o9
  t1 = t1
  t2 = t2
  Null = Null
  Orders = {o1, o2}
  EcpayOrders = {o1, o2}
  PlanOrders = {o1, o2}
  Charges <- ReusedTrade
  Happening <- IssuedAndPaid
  Workers = {w1, w2}
  Askers = {}
INVARIANTS
  PlanFollowsPayment
  DuplicatesHaveOneOriginal
PROPERTIES
  NotificationsAreAcknowledged
