\* Violated: an order shown as expired becomes failed.
SPECIFICATION Spec
CONSTANTS
  o1 = o1
  o2 = o2
  o9 = o9
  t1 = t1
  t2 = t2
  Null = Null
  Orders = {o1}
  EcpayOrders = {o1}
  PlanOrders = {}
  Charges <- TwoAttempts
  Happening <- FailThenPay
  Workers = {w1}
  Askers = {}
PROPERTIES
  ExpiredOnlyGetsPaid
