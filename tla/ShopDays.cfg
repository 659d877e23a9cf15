\* Two orders, one of them monthly, over two days, two imports beside payments
\* and checkouts.
SPECIFICATION Spec
CONSTANTS
  o1 = o1
  o2 = o2
  o9 = o9
  Null = Null
  Nobody = Nobody
  Orders = {o1, o2}
  EcpayOrders = {o1, o2}
  AtmOrders = {o2}
  MonthlyOrders = {o1}
  LastDay = 2
  Importers = {i1, i2}
  Starters = {p1}
  Shoppers = {s1}
  Strangers = {o9}
  Periods <- FirstDay
  OddFiles <- TwoFiles
  MaxRuns = 1
SYMMETRY ImporterSymmetry
INVARIANTS
  TypeOK
  MonthlyChargesFollowPlans
  WriteLockIsImporters
  CleanReportsMissNothing
PROPERTIES
  ImplementsAtomicReports
