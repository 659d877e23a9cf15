\* Two sessions, whose callers have work of their own, race for an order of 2.
SPECIFICATION FairSpec
CONSTANTS
  o1 = o1
  o2 = o2
  k1 = k1
  k2 = k2
  k3 = k3
  Orders = {o1, o2}
  CardOrders = {o1}
  Amount <- AmountOf
  Requests <- MixedRequests
  Sessions = {s1, s2}
  Callers = {s1, s2}
  Nobody = Nobody
INVARIANTS
  TypeOK
  RefundsWithinAmount
  OneRowPerKey
  DecisionIsCurrent
  RefundsAreOfPaidOrders
  LockHasOwner
PROPERTIES
  ImplementsAtomicRefunds
  CallerWorkIsUntouched
  EveryCallReturns
