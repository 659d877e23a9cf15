\* Violated: an order created on one day and paid on the next is missing here.
SPECIFICATION Spec
CONSTANTS
  o1 = o1
  o2 = o2
  o9 = o9
  Null = Null
  Nobody = Nobody
  Orders = {o1, o2}
  EcpayOrders = {o1, o2}
  AtmOrders = {o2}
  MonthlyOrders = {o1}
  LastDay = 2
  Importers = {i1}
  Starters = {p1}
  Shoppers = {s1}
  Strangers = {o9}
  Periods <- EachDay
  OddFiles = {}
  MaxRuns = 1
INVARIANTS
  MissingLocalMeansAbsent
