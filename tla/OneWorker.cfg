\* One server process, one query thread, two attempts to pay one order; wrong amounts and
\* unknown order numbers, in callbacks and in replies.
SPECIFICATION QuerySpec
CONSTANTS
  o1 = o1
  o2 = o2
  o9 = o9
  t1 = t1
  t2 = t2
  Null = Null
  Orders = {o1}
  EcpayOrders = {o1}
  PlanOrders = {o1}
  Charges <- MixedAttempts
  Happening <- MixedEvents
  Workers = {w1}
  Askers = {q1}
INVARIANTS
  TypeOK
  PaidIsReal
  PaidHasEvidence
  PlanFollowsPayment
  AcknowledgedPaymentsAreSettled
PROPERTIES
  MissedPaymentRecovered
