----------------------------- MODULE ShopProofs -----------------------------
(***************************************************************************)
(* Proofs about Shop for every set of orders, shoppers, importers, periods *)
(* and files. The comparison of one file comes first, then types, then     *)
(* what pages rendered around the two commits of place_order may ask for,  *)
(* then the write lock and what it buys the reports.                       *)
(***************************************************************************)
EXTENDS Shop, FiniteSetTheorems, TLAPS

Numbers == Orders \cup Strangers

-----------------------------------------------------------------------------
(* The comparison *)

\* A set with one element per order number is as large as the set of numbers.
LEMMA OnePerOrder ==
  ASSUME NEW S, IsFiniteSet(S), NEW T,
         \A t \in T : t.order \in S,
         \A o \in S : \E t \in T : t.order = o,
         \A t, u \in T : t.order = u.order => t = u
  PROVE  IsFiniteSet(T) /\ Cardinality(T) = Cardinality(S)
<1> DEFINE f == [o \in S |-> CHOOSE t \in T : t.order = o]
<1>1. \A o \in S : f[o] \in T /\ f[o].order = o
  OBVIOUS
<1>2. f \in Bijection(S, T)
  <2>1. f \in [S -> T]
    BY <1>1
  <2>2. \A o, p \in S : f[o] = f[p] => o = p
    BY <1>1
  <2>3. \A t \in T : \E o \in S : f[o] = t
    BY <1>1
  <2> QED
    BY <2>1, <2>2, <2>3 DEF Bijection, Injection, Surjection, IsInjective
<1> QED
  BY <1>2, FS_Bijection DEF ExistsBijection

\* The dictionary of a file holds a row of the file for each of its numbers.
LEMMA GatewayRowsType ==
  ASSUME NEW rows \in SUBSET FileRows, HasLastRows(rows)
  PROVE  /\ DOMAIN GatewayRows(rows) = {r.order : r \in rows} \ {Nobody}
         /\ DOMAIN GatewayRows(rows) \subseteq Numbers
         /\ \A o \in DOMAIN GatewayRows(rows) :
              /\ GatewayRows(rows)[o] \in rows
              /\ GatewayRows(rows)[o].order = o
<1>1. ASSUME NEW o \in DOMAIN GatewayRows(rows)
      PROVE  GatewayRows(rows)[o] \in rows /\ GatewayRows(rows)[o].order = o
  <2>1. PICK q \in rows : q.order = o
    BY <1>1 DEF GatewayRows
  <2>2. \E r \in rows : r.order = o /\ \A s \in rows : s.order = o => s.line <= r.line
    BY <2>1 DEF HasLastRows
  <2> QED
    BY <1>1, <2>2 DEF GatewayRows
<1>2. DOMAIN GatewayRows(rows) = {r.order : r \in rows} \ {Nobody}
  BY DEF GatewayRows
<1> QED
  BY <1>1, <1>2 DEF FileRows, Numbers

NumbersOf(file) == DOMAIN GatewayRows(file.rows) \cup LocalOrders(file.period)

\* The items of a comparison: one for each number, with the fields Item gives.
LEMMA ItemsOf ==
  ASSUME NEW file \in Files, HasLastRows(file.rows)
  PROVE  /\ \A i \in CompareItems(file) :
              /\ i.order \in NumbersOf(file)
              /\ i = Item(i.order, GatewayRows(file.rows), LocalOrders(file.period))
         /\ \A o \in NumbersOf(file) : \E i \in CompareItems(file) : i.order = o
         /\ \A i, j \in CompareItems(file) : i.order = j.order => i = j
         /\ IsFiniteSet(NumbersOf(file))
         /\ IsFiniteSet(CompareItems(file))
<1> DEFINE items == CompareItems(file)
<1>1. \A i \in items :
        /\ i.order \in NumbersOf(file)
        /\ i = Item(i.order, GatewayRows(file.rows), LocalOrders(file.period))
  BY DEF CompareItems, NumbersOf, Item
<1>2. ASSUME NEW o \in NumbersOf(file)
      PROVE  \E i \in items : i.order = o
  <2>1. Item(o, GatewayRows(file.rows), LocalOrders(file.period)) \in items
    BY DEF CompareItems, NumbersOf
  <2>2. Item(o, GatewayRows(file.rows), LocalOrders(file.period)).order = o
    BY DEF Item
  <2> QED
    BY <2>1, <2>2
<1>3. \A i, j \in items : i.order = j.order => i = j
  BY <1>1
<1>4. IsFiniteSet(NumbersOf(file))
  <2>1. file.rows \in SUBSET FileRows
    BY DEF Files
  <2>2. NumbersOf(file) \subseteq Numbers
    BY <2>1, GatewayRowsType, ShopAssumption DEF NumbersOf, LocalOrders, Numbers
  <2>3. IsFiniteSet(Numbers)
    BY ShopAssumption, ReconciliationAssumption, FS_Union DEF Numbers
  <2> QED
    BY <2>2, <2>3, FS_Subset
<1>5. IsFiniteSet(items)
  <2> HIDE DEF items
  <2> QED
    BY <1>1, <1>2, <1>3, <1>4, OnePerOrder
<1> QED
  BY <1>1, <1>2, <1>3, <1>4, <1>5

\* What an item's result says of its two sides.
LEMMA ItemMeaning ==
  ASSUME BookTypeOK, NEW file \in Files, HasLastRows(file.rows),
         NEW i \in CompareItems(file)
  PROVE  /\ i \in Items
         /\ i.local # "NONE" <=> i.order \in LocalOrders(file.period)
         /\ i.local # "NONE" => i.local = orders[i.order].status
         /\ i.gateway # "NONE" <=> i.order \in DOMAIN GatewayRows(file.rows)
         /\ i.gateway # "NONE" => i.gateway = GatewayRows(file.rows)[i.order].status
         /\ i.result = "MISSING_LOCAL" <=> i.local = "NONE"
         /\ i.result = "MISSING_GATEWAY" <=> i.gateway = "NONE"
         /\ i.result = "AMOUNT_MISMATCH"
              <=> i.local # "NONE" /\ i.gateway # "NONE" /\ ~i.amountOk
         /\ i.result = "MATCHED"
              <=> /\ i.local # "NONE" /\ i.gateway \in {"PAID", "OTHER"}
                  /\ i.amountOk
                  /\ i.local = "PAID" <=> i.gateway = "PAID"
<1> DEFINE gateway == GatewayRows(file.rows)
           local == LocalOrders(file.period)
<1>1. i.order \in DOMAIN gateway \cup local /\ i = Item(i.order, gateway, local)
  BY ItemsOf DEF NumbersOf
<1>2. file.rows \in SUBSET FileRows
  BY DEF Files
<1>3. \A o \in DOMAIN gateway : gateway[o] \in FileRows
  BY <1>2, GatewayRowsType
<1>4. DOMAIN gateway \subseteq Numbers
  BY <1>2, GatewayRowsType
<1>5. \A o \in local : o \in Orders /\ orders[o].status \in OrderStatuses
  BY ShopAssumption DEF LocalOrders, Placed, BookTypeOK, OrderRows
<1> HIDE DEF gateway, local
<1> DEFINE o == i.order
<1>6. /\ i.local = (IF o \in local THEN orders[o].status ELSE "NONE")
      /\ i.gateway = (IF o \in DOMAIN gateway THEN gateway[o].status ELSE "NONE")
      /\ i.amountOk = (o \in local /\ o \in DOMAIN gateway /\ gateway[o].amountOk)
      /\ i.result = Result(o, gateway, local)
  BY <1>1 DEF Item
<1>7. /\ o \in DOMAIN gateway => /\ gateway[o].status \in RowStatuses
                                 /\ gateway[o].amountOk \in BOOLEAN
      /\ o \in local => orders[o].status \in OrderStatuses
  BY <1>3, <1>5 DEF FileRows
<1>8. i \in Items
  <2>1. i.order \in Orders \cup Strangers
    BY <1>1, <1>4, <1>5 DEF Numbers
  <2>2. i.result \in ItemResults
    BY <1>6 DEF Result, ItemResults
  <2> QED
    BY <1>1, <1>6, <1>7, <2>1, <2>2 DEF Item, Items
<1>9. /\ i.local # "NONE" <=> o \in local
      /\ i.gateway # "NONE" <=> o \in DOMAIN gateway
  BY <1>6, <1>7 DEF OrderStatuses, RowStatuses
<1>10. /\ i.result = "MISSING_LOCAL" <=> i.local = "NONE"
       /\ i.result = "MISSING_GATEWAY" <=> i.gateway = "NONE"
       /\ i.result = "AMOUNT_MISMATCH"
            <=> i.local # "NONE" /\ i.gateway # "NONE" /\ ~i.amountOk
       /\ i.result = "MATCHED"
            <=> /\ i.local # "NONE" /\ i.gateway \in {"PAID", "OTHER"}
                /\ i.amountOk
                /\ i.local = "PAID" <=> i.gateway = "PAID"
  BY <1>1, <1>6, <1>7, <1>9 DEF Result, RowStatuses
<1> QED
  BY <1>6, <1>8, <1>9, <1>10 DEF gateway, local

\* AtomicReports counts with the same operator.
LEMMA SameCount == \A S : Reports!Cardinality(S) = Cardinality(S)
BY DEF Reports!Cardinality, Cardinality

\* A comparison is a report of its type that is true of the orders it read.
LEMMA ReportIsTrue ==
  ASSUME BookTypeOK, NEW file \in Files, HasLastRows(file.rows)
  PROVE  /\ Report(file) \in Runs
         /\ Report(file).status = "COMPLETED"
         /\ Reports!TrueReport(Report(file))
<1> DEFINE gateway == GatewayRows(file.rows)
           local == LocalOrders(file.period)
           items == CompareItems(file)
           matched == {i \in items : i.result = "MATCHED"}
           known == {i \in items : i.gateway # "NONE"}
           ours == {i \in items : i.local # "NONE"}
           run == Report(file)
<1>1. \A i \in items :
        /\ i \in Items
        /\ i.local # "NONE" <=> i.order \in local
        /\ i.local # "NONE" => i.local = orders[i.order].status
        /\ i.gateway # "NONE" <=> i.order \in DOMAIN gateway
        /\ i.result = "MISSING_LOCAL" <=> i.local = "NONE"
        /\ i.result = "MISSING_GATEWAY" <=> i.gateway = "NONE"
        /\ i.result = "AMOUNT_MISMATCH"
             <=> i.local # "NONE" /\ i.gateway # "NONE" /\ ~i.amountOk
        /\ i.result = "MATCHED"
             <=> /\ i.local # "NONE" /\ i.gateway \in {"PAID", "OTHER"}
                 /\ i.amountOk
                 /\ i.local = "PAID" <=> i.gateway = "PAID"
  BY ItemMeaning
<1>2. /\ \A o \in DOMAIN gateway \cup local : \E i \in items : i.order = o
      /\ \A i, j \in items : i.order = j.order => i = j
      /\ IsFiniteSet(DOMAIN gateway \cup local)
      /\ IsFiniteSet(items)
  BY ItemsOf DEF NumbersOf
<1>3. IsFiniteSet(DOMAIN gateway) /\ IsFiniteSet(local)
  BY <1>2, FS_Subset
<1> HIDE DEF gateway, local, items
<1>4. Cardinality(known) = Cardinality(DOMAIN gateway)
  BY <1>1, <1>2, <1>3, OnePerOrder
<1>5. Cardinality(ours) = Cardinality(local)
  BY <1>1, <1>2, <1>3, OnePerOrder
<1>6. /\ Cardinality(items \ matched) = Cardinality(items) - Cardinality(matched)
      /\ Cardinality(items) \in Nat /\ Cardinality(matched) \in Nat
      /\ Cardinality(items \ matched) \in Nat
  <2>1. items \cap matched = matched
    OBVIOUS
  <2>2. IsFiniteSet(matched) /\ IsFiniteSet(items \ matched)
    BY <1>2, FS_Subset, FS_Difference
  <2> QED
    BY <1>2, <2>1, <2>2, FS_Difference, FS_CardinalityType
<1>7. /\ Cardinality(DOMAIN gateway) \in Nat
      /\ Cardinality(local) \in Nat
  BY <1>3, FS_CardinalityType
<1>8. /\ run.status = "COMPLETED" /\ run.period = file.period
      /\ run.complete = file.complete /\ run.items = items
      /\ run.gatewayRows = Cardinality(DOMAIN gateway)
      /\ run.localRows = Cardinality(local)
      /\ run.matched = Cardinality(matched)
      /\ run.differences = Cardinality(items) - Cardinality(matched)
  BY DEF Report, gateway, local, items
<1>9. run \in Runs
  <2>1. file.period \in Periods /\ file.complete \in BOOLEAN
    BY DEF Files
  <2>2. items \in SUBSET Items
    BY <1>1
  <2>3. run = [status |-> "COMPLETED", period |-> file.period,
               complete |-> file.complete, items |-> items,
               gatewayRows |-> Cardinality(DOMAIN gateway),
               localRows |-> Cardinality(local),
               matched |-> Cardinality(matched),
               differences |-> Cardinality(items) - Cardinality(matched)]
    BY DEF Report, gateway, local, items
  <2> HIDE DEF run, matched
  <2> QED
    BY <1>6, <1>7, <2>1, <2>2, <2>3 DEF Runs
<1>10. {<<i.order, i.local>> : i \in ours} = Reports!LocalSide(file.period)
  <2>1. local = {p \in EcpayOrders : orders[p].status # "ABSENT"
                                     /\ file.period.begin <= orders[p].created
                                     /\ orders[p].created <= file.period.end}
    <3>1. \A o \in EcpayOrders : Placed(o) <=> orders[o].status # "ABSENT"
      BY ShopAssumption DEF BookTypeOK, OrderRows, OrderStatuses, Placed, Absent
    <3> QED
      BY <3>1 DEF LocalOrders, In, local
  <2>2. Reports!LocalSide(file.period) = {<<o, orders[o].status>> : o \in local}
    BY <2>1 DEF Reports!LocalSide
  <2>3. \A i \in ours : i.order \in local /\ i.local = orders[i.order].status
    BY <1>1
  <2>4. \A o \in local : \E i \in ours : i.order = o
    BY <1>1, <1>2
  <2> HIDE DEF ours
  <2> QED
    BY <2>2, <2>3, <2>4
<1> HIDE DEF run
<1>11. Reports!WithResult(run, "MATCHED") = matched
  BY <1>8 DEF Reports!WithResult
<1>12. Reports!TrueReport(run)
  <2>1. \A i, j \in run.items : i.order = j.order => i = j
    BY <1>2, <1>8
  <2>2. {<<i.order, i.local>> : i \in {j \in run.items : j.local # "NONE"}}
          = Reports!LocalSide(run.period)
    BY <1>8, <1>10
  <2>3. \A i \in run.items :
          /\ i.result = "MISSING_LOCAL" <=> i.local = "NONE"
          /\ i.result = "MISSING_GATEWAY" <=> i.gateway = "NONE"
          /\ i.result = "AMOUNT_MISMATCH"
               <=> i.local # "NONE" /\ i.gateway # "NONE" /\ ~i.amountOk
          /\ i.result = "MATCHED"
               <=> /\ i.local # "NONE" /\ i.gateway \in {"PAID", "OTHER"}
                   /\ i.amountOk
                   /\ i.local = "PAID" <=> i.gateway = "PAID"
    BY <1>1, <1>8
  <2>4. /\ run.gatewayRows = Cardinality({i \in run.items : i.gateway # "NONE"})
        /\ run.localRows = Cardinality({i \in run.items : i.local # "NONE"})
    BY <1>4, <1>5, <1>8
  <2>5. /\ run.matched = Cardinality(Reports!WithResult(run, "MATCHED"))
        /\ run.differences
             = Cardinality(run.items \ Reports!WithResult(run, "MATCHED"))
    BY <1>6, <1>8, <1>11
  <2> QED
    BY <2>1, <2>2, <2>3, <2>4, <2>5, SameCount DEF Reports!TrueReport
<1> QED
  BY <1>8, <1>9, <1>12 DEF run

-----------------------------------------------------------------------------
(* Types *)

ImporterStates ==
  {Idle} \cup [phase : {"fetched", "importing", "failing"}, file : Files]
         \cup [phase : {"compared"}, file : Files, report : Runs]

\* The rows of a file an importer holds have last rows.
FilesAreRead ==
  \A i \in Importers : importer[i] # Idle => HasLastRows(importer[i].file.rows)

TypeInv == TypeOK /\ FilesAreRead

\* What the phases of an import say of its fields.
LEMMA ImportFields ==
  ASSUME TypeOK, NEW i \in Importers
  PROVE  /\ importer[i] \in ImporterStates
         /\ importer[i].phase \in {"fetched", "importing", "failing", "compared"}
              => importer[i] # Idle
         /\ importer[i] # Idle => importer[i].file \in Files
         /\ importer[i].phase = "compared" => importer[i].report \in Runs
         /\ importer[i].phase \in {"fetched", "importing", "failing"}
              => importer[i] = [phase |-> importer[i].phase, file |-> importer[i].file]
<1>1. importer[i] \in ImporterStates
  BY DEF TypeOK, ReconciliationTypeOK, ImporterStates
<1> QED
  BY <1>1 DEF ImporterStates, Idle

\* A failed run has its type.
LEMMA FailedRunType ==
  ASSUME NEW file \in Files
  PROVE  /\ FailedRun(file) \in Runs
         /\ FailedRun(file).status = "FAILED" /\ FailedRun(file).items = {}
<1> DEFINE f == [period |-> file.period, complete |-> file.complete]
<1>1. f \in [period : Periods, complete : BOOLEAN]
  BY DEF Files
<1>2. FailedRun(file) = FailedRun(f)
  BY DEF FailedRun
<1> QED
  BY <1>1, <1>2 DEF FailedRun, Runs

\* The tables keep their types while the gateway and its notifications move.
LEMMA PaymentTypes ==
  ASSUME BookTypeOK, Payments
  PROVE  BookTypeOK'
<1> USE DEF BookTypeOK
<1>1. CASE NextDay
  BY <1>1, ShopAssumption DEF NextDay, Days
<1>2. ASSUME NEW o \in Orders, NEW state \in {"ISSUED", "PAID", "FAILED"},
             GatewayEvent(o, state)
      PROVE  BookTypeOK'
  <2>1. trades[o] \in Trades /\ today \in 0 .. LastDay
    BY ShopAssumption DEF Days
  <2> DEFINE next == [state |-> state, monthly |-> trades[o].monthly,
                      day |-> IF state = "PAID" THEN today ELSE 0]
  <2>2. next \in Trades
    BY <2>1, ShopAssumption DEF Trades
  <2>3. trades' \in [Orders -> Trades]
    BY <1>2, <2>2 DEF GatewayEvent
  <2> QED
    BY <1>2, <2>3 DEF GatewayEvent
<1>3. ASSUME NEW o \in Orders, NEW kind \in NotificationKinds, NEW success \in BOOLEAN,
             NotifyOrder(o, kind, success)
      PROVE  BookTypeOK'
  <2>1. orders[o] \in [status : OrderStatuses \ {"EXPIRED"}, created : Days]
    BY <1>3 DEF NotifyOrder, Placed, OrderRows
  <2>2. OrderTarget(kind, success) \in OrderStatuses \ {"EXPIRED"}
    BY DEF OrderTarget, OrderStatuses
  <2>3. [orders[o] EXCEPT !.status = OrderTarget(kind, success)] \in OrderRows
    BY <2>1, <2>2 DEF OrderRows
  <2>4. orders' \in [Orders -> OrderRows]
    BY <1>3, <2>3 DEF NotifyOrder
  <2>5. plans' \in [Orders -> PlanStatuses]
    BY <1>3 DEF NotifyOrder, PlanStatuses
  <2> QED
    BY <1>3, <2>4, <2>5 DEF NotifyOrder
<1> QED
  BY <1>1, <1>2, <1>3 DEF Payments

\* So they do, and so do checkout's own variables, while orders are placed.
LEMMA ShoppingTypes ==
  ASSUME BookTypeOK, CheckoutTypeOK, Shopping
  PROVE  BookTypeOK' /\ CheckoutTypeOK'
<1> USE DEF BookTypeOK, CheckoutTypeOK
<1>1. ASSUME NEW p \in Starters, StartUp(p) \/ Seed(p) \/ StartFails(p)
      PROVE  BookTypeOK' /\ CheckoutTypeOK'
  BY <1>1 DEF StartUp, Seed, StartFails, shopVars
<1>2. ASSUME NEW s \in Shoppers, NEW o \in Orders, CreateOrder(s, o)
      PROVE  BookTypeOK' /\ CheckoutTypeOK'
  <2>1. NewOrder \in OrderRows
    BY DEF NewOrder, OrderRows, OrderStatuses
  <2> QED
    BY <1>2, <2>1 DEF CreateOrder
<1>3. ASSUME NEW s \in Shoppers, CreateSubscription(s) \/ PlacingFails(s)
      PROVE  BookTypeOK' /\ CheckoutTypeOK'
  BY <1>3 DEF CreateSubscription, PlacingFails, shopVars, PlanStatuses
<1>4. ASSUME NEW o \in Orders, RenderForm(o)
      PROVE  BookTypeOK' /\ CheckoutTypeOK'
  <2>1. CreatePayment(o) \in Forms
    BY DEF CreatePayment, Forms
  <2> QED
    BY <1>4, <2>1 DEF RenderForm, shopVars
<1>5. ASSUME NEW form \in Forms, SubmitForm(form)
      PROVE  BookTypeOK' /\ CheckoutTypeOK'
  <2>1. [state |-> "OPEN", monthly |-> form.monthly, day |-> 0] \in Trades
    BY ShopAssumption DEF Forms, Trades
  <2> QED
    BY <1>5, <2>1 DEF SubmitForm, checkoutVars
<1> QED
  BY <1>1, <1>2, <1>3, <1>4, <1>5 DEF Shopping

\* A fetched file has its type and last rows.
LEMMA FetchTypes ==
  ASSUME TypeInv, NEW i \in Importers, NEW file \in Files, HasLastRows(file.rows),
         Fetch(i, file)
  PROVE  BookTypeOK' /\ ReconciliationTypeOK' /\ FilesAreRead'
<1> DEFINE next == [phase |-> "fetched", file |-> file]
<1>1. next \in ImporterStates /\ next.file = file
  BY DEF ImporterStates
<1> HIDE DEF next
<1>2. importer' = [importer EXCEPT ![i] = next] /\ importer \in [Importers -> ImporterStates]
  BY DEF Fetch, TypeInv, TypeOK, ReconciliationTypeOK, ImporterStates, next
<1>3. importer' \in [Importers -> ImporterStates]
  BY <1>1, <1>2
<1>4. FilesAreRead'
  BY <1>1, <1>2 DEF FilesAreRead, TypeInv
<1> QED
  BY <1>3, <1>4
  DEF Fetch, shopVars, TypeInv, TypeOK, BookTypeOK, ReconciliationTypeOK, ImporterStates

\* So has every step that leaves an importer with the file it had, or idle.
LEMMA ImporterMoves ==
  ASSUME TypeInv, NEW i \in Importers, NEW next \in ImporterStates,
         importer' = [importer EXCEPT ![i] = next],
         next = Idle \/ (importer[i] # Idle /\ next.file = importer[i].file),
         UNCHANGED <<orders, plans, trades, today>>,
         writer' \in Importers \cup {Nobody}, runs' \in Seq(Runs)
  PROVE  BookTypeOK' /\ ReconciliationTypeOK' /\ FilesAreRead'
<1>1. importer \in [Importers -> ImporterStates] /\ BookTypeOK
  BY DEF TypeInv, TypeOK, ReconciliationTypeOK, ImporterStates
<1>2. importer' \in [Importers -> ImporterStates]
  BY <1>1
<1>3. FilesAreRead'
  BY <1>1 DEF FilesAreRead, TypeInv
<1> QED
  BY <1>1, <1>2, <1>3 DEF BookTypeOK, ReconciliationTypeOK, ImporterStates

\* Every step of an import keeps the types of what it touches.
LEMMA ImportTypes ==
  ASSUME TypeInv, NEW i \in Importers, ReconcileCsv(i)
  PROVE  BookTypeOK' /\ ReconciliationTypeOK' /\ FilesAreRead'
<1> DEFINE Goal == BookTypeOK' /\ ReconciliationTypeOK' /\ FilesAreRead'
<1>1. /\ importer \in [Importers -> ImporterStates]
      /\ runs \in Seq(Runs)
      /\ BookTypeOK
  BY DEF TypeInv, TypeOK, ReconciliationTypeOK, ImporterStates
<1>2. ASSUME NEW period \in Periods, Download(i, period)
      PROVE  Goal
  <2> DEFINE rows == PaidRows(period)
             file == [header |-> TRUE, rows |-> rows, period |-> period,
                      complete |-> period.end < today]
  <2>1. rows \subseteq FileRows
    <3>1. ASSUME NEW o \in EcpayOrders
          PROVE  [line |-> 1, order |-> o, amountOk |-> TRUE, status |-> "PAID"] \in FileRows
      BY ShopAssumption DEF FileRows, RowStatuses
    <3> QED
      BY <3>1 DEF PaidRows
  <2>2. HasLastRows(rows)
    <3>1. \A r \in rows : r.line = 1
      BY DEF PaidRows
    <3> HIDE DEF rows
    <3> QED
      BY <3>1 DEF HasLastRows
  <2> HIDE DEF rows
  <2>3. file \in Files /\ file.rows = rows
    BY <2>1 DEF Files
  <2>4. Fetch(i, file)
    BY <1>2 DEF Download, rows
  <2> QED
    BY <2>2, <2>3, <2>4, FetchTypes
<1>3. ASSUME NEW odd \in OddFiles, NEW period \in Periods, Upload(i, odd, period)
      PROVE  Goal
  <2> DEFINE file == [header |-> odd.header, rows |-> odd.rows, period |-> period,
                      complete |-> FALSE]
  <2>1. file \in Files /\ HasLastRows(file.rows)
    BY ReconciliationAssumption DEF Files
  <2> QED
    BY <1>3, <2>1, FetchTypes DEF Upload
<1>5. writer \in Importers \cup {Nobody} /\ Idle \in ImporterStates
  BY <1>1 DEF BookTypeOK, ImporterStates
<1>6. CASE BeginImport(i)
  <2> DEFINE next == [importer[i] EXCEPT !.phase = "importing"]
  <2>1. next \in ImporterStates /\ importer[i] # Idle /\ next.file = importer[i].file
    <3>1. /\ importer[i] # Idle /\ importer[i].file \in Files
          /\ importer[i] = [phase |-> "fetched", file |-> importer[i].file]
      BY <1>6, ImportFields DEF TypeInv, BeginImport
    <3>2. next = [phase |-> "importing", file |-> importer[i].file]
      BY <3>1
    <3> QED
      BY <3>1, <3>2 DEF ImporterStates
  <2>2. importer' = [importer EXCEPT ![i] = next]
    BY <1>6 DEF BeginImport
  <2>3. UNCHANGED <<orders, plans, trades, today>> /\ writer' = i /\ runs' = runs
    BY <1>6 DEF BeginImport
  <2> HIDE DEF next
  <2> QED
    BY <1>1, <2>1, <2>2, <2>3, ImporterMoves
<1>7. CASE Compare(i)
  <2> DEFINE file == importer[i].file
             next == [phase |-> "compared", file |-> file, report |-> Report(file)]
  <2>1. importer[i] # Idle /\ file \in Files /\ HasLastRows(file.rows)
    BY <1>7, ImportFields DEF Compare, TypeInv, FilesAreRead
  <2>2. Report(file) \in Runs
    BY <1>1, <2>1, ReportIsTrue
  <2>3. next \in ImporterStates /\ next.file = file
    BY <2>1, <2>2 DEF ImporterStates
  <2>4. importer' = [importer EXCEPT ![i] = next]
    BY <1>7 DEF Compare
  <2>5. UNCHANGED <<orders, plans, trades, today, writer, runs>>
    BY <1>7 DEF Compare, shopVars
  <2> HIDE DEF next
  <2> QED
    BY <1>1, <1>5, <2>1, <2>3, <2>4, <2>5, ImporterMoves
<1>8. CASE SaveRun(i)
  <2>1. importer[i].report \in Runs
    BY <1>8, ImportFields DEF SaveRun, TypeInv
  <2>2. runs' \in Seq(Runs)
    BY <1>1, <1>8, <2>1 DEF SaveRun
  <2> QED
    BY <1>5, <1>8, <2>2, ImporterMoves DEF SaveRun
<1>9. CASE ImportFails(i)
  <2> DEFINE next == [phase |-> "failing", file |-> importer[i].file]
  <2>1. importer[i] # Idle /\ next \in ImporterStates /\ next.file = importer[i].file
    BY <1>9, ImportFields DEF ImportFails, ImporterStates, TypeInv
  <2>2. importer' = [importer EXCEPT ![i] = next]
    BY <1>9 DEF ImportFails
  <2>3. UNCHANGED <<orders, plans, trades, today>> /\ writer' = Nobody /\ runs' = runs
    BY <1>9 DEF ImportFails
  <2> HIDE DEF next
  <2> QED
    BY <1>1, <2>1, <2>2, <2>3, ImporterMoves
<1>10. CASE SaveFailure(i)
  <2>1. FailedRun(importer[i].file) \in Runs
    BY <1>10, ImportFields, FailedRunType DEF SaveFailure, TypeInv
  <2>2. runs' \in Seq(Runs)
    BY <1>1, <1>10, <2>1 DEF SaveFailure
  <2> QED
    BY ImporterMoves, <1>5, <1>10, <2>2 DEF SaveFailure, shopVars
<1>11. CASE AbortImport(i)
  BY <1>1, ImporterMoves, <1>5, <1>11 DEF AbortImport
<1> QED
  BY <1>2, <1>3, <1>6, <1>7, <1>8, <1>9, <1>10, <1>11 DEF ReconcileCsv, Goal

\* The database starts empty.
LEMMA TypesInit == Init => TypeInv
BY ShopAssumption
DEF Init, BookInit, CheckoutInit, ReconciliationInit, TypeInv, TypeOK, BookTypeOK,
    CheckoutTypeOK, ReconciliationTypeOK, FilesAreRead, OrderRows, PlanStatuses, Trades,
    NoTrade, Days, Idle

\* The types are inductive together with what is known of the files.
LEMMA TypesNext == TypeInv /\ [Next]_vars => TypeInv'
<1> SUFFICES ASSUME TypeInv, [Next]_vars
             PROVE  TypeInv'
  OBVIOUS
<1> USE DEF TypeInv, TypeOK
<1>1. CASE Payments /\ UNCHANGED <<checkoutVars, reconciliationVars>>
  BY <1>1, PaymentTypes
  DEF checkoutVars, reconciliationVars, CheckoutTypeOK, ReconciliationTypeOK, FilesAreRead
<1>2. CASE Shopping /\ UNCHANGED reconciliationVars
  BY <1>2, ShoppingTypes DEF reconciliationVars, ReconciliationTypeOK, FilesAreRead
<1>3. CASE (\E i \in Importers : ReconcileCsv(i)) /\ UNCHANGED checkoutVars
  BY <1>3, ImportTypes DEF checkoutVars, CheckoutTypeOK
<1>4. CASE UNCHANGED vars
  BY <1>4
  DEF vars, shopVars, checkoutVars, reconciliationVars, BookTypeOK, CheckoutTypeOK,
      ReconciliationTypeOK, FilesAreRead
<1> QED
  BY <1>1, <1>2, <1>3, <1>4 DEF Next

\* Every table and every process keeps its type: EXPIRED is never stored, a
\* failed run of reconcile_csv has no items, for any number of orders, days,
\* importers and files.
THEOREM TypeCorrect == Spec => []TypeOK
<1>1. TypeInv => TypeOK
  BY DEF TypeInv
<1> QED
  BY <1>1, TypesInit, TypesNext, PTL DEF Spec

-----------------------------------------------------------------------------
(* Checkout *)

\* A number that nobody has drawn: no second commit, page or plan is under it.
UnusedNumber(o) ==
  ~Placed(o) =>
    /\ plans[o] = "NONE"
    /\ \A form \in forms : form.order # o
    /\ \A s \in Shoppers : placing[s] # o

\* Between the two commits of place_order. Pages, a trade and even the payment
\* may be there already.
HalfPlacedOrder(o) ==
  \A s \in Shoppers : placing[s] = o =>
    /\ o \in MonthlyOrders
    /\ Placed(o)
    /\ plans[o] = "NONE"
    /\ \A t \in Shoppers : placing[t] = o => t = s

\* A page that asks for monthly charges was rendered after the plan's commit.
MonthlyFormsHavePlans(o) ==
  \A form \in forms : form.order = o /\ form.monthly => plans[o] # "NONE"

MonthlyTradesHavePlans(o) ==
  trades[o].monthly =>
    /\ plans[o] # "NONE"
    /\ orders[o].status = "PAID" => plans[o] = "ACTIVE"

PlansWaitForPayment(o) ==
  /\ trades[o].state = "NONE" => orders[o].status \in {"ABSENT", "PENDING"}
  /\ plans[o] = "ACTIVE" => orders[o].status = "PAID"
  /\ plans[o] # "NONE" => o \in MonthlyOrders

\* Pages of an order may differ, but those that ask for monthly charges come
\* after its plan, and the plan is never taken away.
OrderInv(o) ==
  /\ UnusedNumber(o)
  /\ HalfPlacedOrder(o)
  /\ MonthlyFormsHavePlans(o)
  /\ MonthlyTradesHavePlans(o)
  /\ PlansWaitForPayment(o)

CheckoutInv == \A o \in Orders : OrderInv(o)

\* A step that leaves an order, its plan, its trade, its pages and who is
\* placing it as they are keeps what is known of it.
LEMMA OrderUntouched ==
  ASSUME NEW o \in Orders, OrderInv(o),
         orders'[o] = orders[o], plans'[o] = plans[o], trades'[o] = trades[o],
         \A form \in forms' : form.order = o => form \in forms,
         \A s \in Shoppers : placing'[s] = o => placing[s] = o
  PROVE  OrderInv(o)'
<1> USE DEF OrderInv, Placed
<1>1. UnusedNumber(o)'
  BY DEF UnusedNumber
<1>2. HalfPlacedOrder(o)'
  BY DEF HalfPlacedOrder
<1>3. MonthlyFormsHavePlans(o)' /\ MonthlyTradesHavePlans(o)' /\ PlansWaitForPayment(o)'
  BY DEF MonthlyFormsHavePlans, MonthlyTradesHavePlans, PlansWaitForPayment
<1> QED
  BY <1>1, <1>2, <1>3

\* Payments reach an order only through its trade.
LEMMA PaymentsKeepOrders ==
  ASSUME TypeOK, CheckoutInv, Payments, UNCHANGED checkoutVars
  PROVE  CheckoutInv'
<1> SUFFICES ASSUME NEW p \in Orders
             PROVE  OrderInv(p)'
  BY DEF CheckoutInv
<1>1. OrderInv(p) /\ UNCHANGED <<forms, placing>>
  BY DEF CheckoutInv, checkoutVars
<1>2. /\ orders \in [Orders -> OrderRows]
      /\ plans \in [Orders -> PlanStatuses]
      /\ trades \in [Orders -> Trades]
  BY DEF TypeOK, BookTypeOK
<1>3. CASE NextDay
  BY <1>1, <1>3, OrderUntouched DEF NextDay
<1>4. ASSUME NEW o \in Orders, NEW state \in {"ISSUED", "PAID", "FAILED"},
             GatewayEvent(o, state)
      PROVE  OrderInv(p)'
  <2>1. CASE o # p
    BY <1>1, <1>2, <1>4, <2>1, OrderUntouched DEF GatewayEvent
  <2>2. CASE o = p
    <3>1. /\ trades'[p].state = state /\ trades'[p].monthly = trades[p].monthly
          /\ UNCHANGED <<orders, plans>>
      BY <1>2, <1>4, <2>2 DEF GatewayEvent
    <3> QED
      BY <1>1, <3>1
      DEF OrderInv, UnusedNumber, HalfPlacedOrder, MonthlyFormsHavePlans,
          MonthlyTradesHavePlans, PlansWaitForPayment, Placed
  <2> QED
    BY <2>1, <2>2
<1>5. ASSUME NEW o \in Orders, NEW kind \in NotificationKinds, NEW success \in BOOLEAN,
             NotifyOrder(o, kind, success)
      PROVE  OrderInv(p)'
  <2>1. CASE o # p
    BY <1>1, <1>2, <1>5, <2>1, OrderUntouched DEF NotifyOrder
  <2>2. CASE o = p
    <3> DEFINE target == OrderTarget(kind, success)
    <3>1. trades[p].state # "NONE" /\ Placed(p) /\ UNCHANGED trades
      BY <1>5, <2>2 DEF NotifyOrder, Reported
    <3>2. orders[p].status # "PAID"
      BY <1>5, <2>2
      DEF NotifyOrder, TransitionApplies, CanTransitionOrder, ValidOrderTransitions
    <3>3. orders'[p].status = target
      <4>1. orders[p] \in [status : OrderStatuses \ {"EXPIRED"}, created : Days]
        BY <1>2, <3>1 DEF OrderRows, Placed
      <4> QED
        BY <1>2, <1>5, <2>2, <4>1 DEF NotifyOrder
    <3>4. orders'[p] # Absent
      BY <3>3 DEF Absent, OrderTarget
    <3>5. plans'[p] = IF target = "PAID" /\ plans[p] # "NONE" THEN "ACTIVE" ELSE plans[p]
      BY <1>2, <1>5, <2>2 DEF NotifyOrder
    <3> HIDE DEF target
    <3>6. plans'[p] # "NONE" <=> plans[p] # "NONE"
      BY <3>5
    <3>7. UnusedNumber(p)' /\ HalfPlacedOrder(p)' /\ MonthlyFormsHavePlans(p)'
      BY <1>1, <3>1, <3>4, <3>6
      DEF OrderInv, UnusedNumber, HalfPlacedOrder, MonthlyFormsHavePlans, Placed
    <3>8. MonthlyTradesHavePlans(p)'
      BY <1>1, <3>1, <3>3, <3>5 DEF OrderInv, MonthlyTradesHavePlans
    <3>9. PlansWaitForPayment(p)'
      BY <1>1, <3>1, <3>2, <3>3, <3>5 DEF OrderInv, PlansWaitForPayment
    <3> QED
      BY <3>7, <3>8, <3>9 DEF OrderInv
  <2> QED
    BY <2>1, <2>2
<1> QED
  BY <1>3, <1>4, <1>5 DEF Payments

\* A page asks for what the plan says at that moment, and a plan stays.
LEMMA ShoppingKeepsOrders ==
  ASSUME TypeOK, CheckoutInv, Shopping
  PROVE  CheckoutInv'
<1> SUFFICES ASSUME NEW p \in Orders
             PROVE  OrderInv(p)'
  BY DEF CheckoutInv
<1>1. OrderInv(p) /\ p # Nobody
  BY ShopAssumption DEF CheckoutInv
<1>2. /\ orders \in [Orders -> OrderRows]
      /\ plans \in [Orders -> PlanStatuses]
      /\ trades \in [Orders -> Trades]
      /\ placing \in [Shoppers -> Orders \cup {Nobody}]
      /\ forms \subseteq Forms
  BY DEF TypeOK, BookTypeOK, CheckoutTypeOK
<1>3. ASSUME NEW q \in Starters, StartUp(q) \/ Seed(q) \/ StartFails(q)
      PROVE  OrderInv(p)'
  BY <1>1, <1>3, OrderUntouched DEF StartUp, Seed, StartFails, shopVars
<1>4. ASSUME NEW s \in Shoppers, NEW o \in Orders, CreateOrder(s, o)
      PROVE  OrderInv(p)'
  <2>1. CASE o # p
    BY <1>1, <1>2, <1>4, <2>1, OrderUntouched DEF CreateOrder
  <2>2. CASE o = p
    <3>1. /\ plans[p] = "NONE" /\ \A form \in forms : form.order # p
          /\ \A t \in Shoppers : placing[t] # p
      BY <1>1, <1>4, <2>2 DEF OrderInv, UnusedNumber, CreateOrder
    <3>2. /\ orders'[p] = NewOrder /\ UNCHANGED <<plans, trades, forms>>
          /\ \A t \in Shoppers : placing'[t] = p => t = s /\ p \in MonthlyOrders
      BY <1>1, <1>2, <1>4, <2>2, <3>1 DEF CreateOrder
    <3>3. NewOrder # Absent /\ NewOrder.status = "PENDING"
      BY DEF NewOrder, Absent
    <3>4. UnusedNumber(p)' /\ HalfPlacedOrder(p)' /\ MonthlyFormsHavePlans(p)'
      BY <3>1, <3>2, <3>3 DEF UnusedNumber, HalfPlacedOrder, MonthlyFormsHavePlans, Placed
    <3>5. MonthlyTradesHavePlans(p)' /\ PlansWaitForPayment(p)'
      BY <1>1, <3>1, <3>2, <3>3 DEF OrderInv, MonthlyTradesHavePlans, PlansWaitForPayment
    <3> QED
      BY <3>4, <3>5 DEF OrderInv
  <2> QED
    BY <2>1, <2>2
<1>5. ASSUME NEW s \in Shoppers, CreateSubscription(s)
      PROVE  OrderInv(p)'
  <2>1. CASE placing[s] # p
    BY <1>1, <1>2, <1>5, <2>1, OrderUntouched DEF CreateSubscription
  <2>2. CASE placing[s] = p
    <3>1. /\ p \in MonthlyOrders /\ Placed(p) /\ plans[p] = "NONE"
          /\ \A t \in Shoppers : placing[t] = p => t = s
      BY <1>1, <2>2 DEF OrderInv, HalfPlacedOrder
    <3>2. /\ plans'[p] = "PENDING" /\ UNCHANGED <<orders, trades, forms>>
          /\ \A t \in Shoppers : placing'[t] # p
      BY <1>1, <1>2, <1>5, <2>2, <3>1 DEF CreateSubscription
    <3>3. ~trades[p].monthly
      BY <1>1, <3>1 DEF OrderInv, MonthlyTradesHavePlans
    <3> QED
      BY <1>1, <3>1, <3>2, <3>3
      DEF OrderInv, UnusedNumber, HalfPlacedOrder, MonthlyFormsHavePlans,
          MonthlyTradesHavePlans, PlansWaitForPayment, Placed
  <2> QED
    BY <2>1, <2>2
<1>6. ASSUME NEW s \in Shoppers, PlacingFails(s)
      PROVE  OrderInv(p)'
  BY <1>1, <1>2, <1>6, OrderUntouched DEF PlacingFails, shopVars
<1>7. ASSUME NEW o \in Orders, RenderForm(o)
      PROVE  OrderInv(p)'
  <2>1. UNCHANGED <<orders, plans, trades, placing>> /\ forms' = forms \cup {CreatePayment(o)}
    BY <1>7 DEF RenderForm, shopVars
  <2>2. CASE o # p
    <3>1. CreatePayment(o).order # p
      BY <2>2 DEF CreatePayment
    <3> QED
      BY <1>1, <2>1, <3>1, OrderUntouched
  <2>3. CASE o = p
    <3>1. orders[p] # Absent
      BY <1>7, <2>3 DEF RenderForm, Absent
    <3>2. CreatePayment(o).monthly => plans[p] # "NONE"
      BY <2>3 DEF CreatePayment
    <3>3. UnusedNumber(p)' /\ HalfPlacedOrder(p)' /\ MonthlyFormsHavePlans(p)'
      BY <1>1, <2>1, <3>1, <3>2
      DEF OrderInv, UnusedNumber, HalfPlacedOrder, MonthlyFormsHavePlans, Placed
    <3>4. MonthlyTradesHavePlans(p)' /\ PlansWaitForPayment(p)'
      BY <1>1, <2>1 DEF OrderInv, MonthlyTradesHavePlans, PlansWaitForPayment
    <3> QED
      BY <3>3, <3>4 DEF OrderInv
  <2> QED
    BY <2>2, <2>3
<1>8. ASSUME NEW form \in Forms, SubmitForm(form)
      PROVE  OrderInv(p)'
  <2>1. CASE form.order # p
    BY <1>1, <1>2, <1>8, <2>1, OrderUntouched DEF SubmitForm, checkoutVars
  <2>2. CASE form.order = p
    <3>1. /\ form \in forms /\ UNCHANGED <<orders, plans, placing, forms>>
          /\ trades[p].state = "NONE"
      BY <1>8, <2>2 DEF SubmitForm, checkoutVars, NoTrade
    <3>2. trades'[p].monthly = form.monthly /\ trades'[p].state = "OPEN"
      BY <1>2, <1>8, <2>2 DEF SubmitForm
    <3>3. orders[p].status # "PAID"
      BY <1>1, <3>1 DEF OrderInv, PlansWaitForPayment
    <3>4. MonthlyTradesHavePlans(p)'
      BY <1>1, <2>2, <3>1, <3>2, <3>3
      DEF OrderInv, MonthlyFormsHavePlans, MonthlyTradesHavePlans
    <3> QED
      BY <1>1, <3>1, <3>2, <3>4
      DEF OrderInv, UnusedNumber, HalfPlacedOrder, MonthlyFormsHavePlans,
          PlansWaitForPayment, Placed
  <2> QED
    BY <2>1, <2>2
<1> QED
  BY <1>3, <1>4, <1>5, <1>6, <1>7, <1>8 DEF Shopping

\* An import reads orders and writes none.
LEMMA ImportsKeepTheBook ==
  ASSUME NEW i \in Importers, ReconcileCsv(i)
  PROVE  UNCHANGED <<orders, plans, trades, today>>
BY DEF ReconcileCsv, Download, Upload, Fetch, BeginImport, Compare, SaveRun,
       ImportFails, SaveFailure, AbortImport, shopVars

\* What is known of every order is inductive.
LEMMA CheckoutNext ==
  ASSUME TypeOK, CheckoutInv, [Next]_vars
  PROVE  CheckoutInv'
<1>1. CASE Payments /\ UNCHANGED <<checkoutVars, reconciliationVars>>
  BY <1>1, PaymentsKeepOrders
<1>2. CASE Shopping /\ UNCHANGED reconciliationVars
  BY <1>2, ShoppingKeepsOrders
<1>3. CASE \/ (\E i \in Importers : ReconcileCsv(i)) /\ UNCHANGED checkoutVars
           \/ UNCHANGED vars
  <2>1. UNCHANGED <<orders, plans, trades, placing, forms>>
    BY <1>3, ImportsKeepTheBook DEF checkoutVars, vars, shopVars
  <2> QED
    BY <2>1, OrderUntouched DEF CheckoutInv
<1> QED
  BY <1>1, <1>2, <1>3 DEF Next

\* At the start there is no order to know anything of.
LEMMA CheckoutInitially == Init => CheckoutInv
BY ShopAssumption
DEF Init, BookInit, CheckoutInit, CheckoutInv, OrderInv, UnusedNumber, HalfPlacedOrder,
    MonthlyFormsHavePlans, MonthlyTradesHavePlans, PlansWaitForPayment, NoTrade, Absent

\* So it holds of every reachable state.
LEMMA CheckoutInvariant == Spec => []CheckoutInv
<1>1. TypeInv => TypeOK
  BY DEF TypeInv
<1> QED
  BY <1>1, TypesInit, TypesNext, CheckoutInitially, CheckoutNext, PTL DEF Spec

\* Nobody is charged every month who did not ask for it or whose plan the shop
\* does not have, and that plan is ACTIVE exactly from the payment on - for any
\* number of buyers, pages and submissions, and whatever happens between the two
\* commits of place_order.
THEOREM MonthlyChargesAreFollowed == Spec => []MonthlyChargesFollowPlans
<1>1. CheckoutInv => MonthlyChargesFollowPlans
  BY DEF CheckoutInv, OrderInv, MonthlyTradesHavePlans, PlansWaitForPayment,
         MonthlyChargesFollowPlans
<1> QED
  BY <1>1, CheckoutInvariant, PTL

-----------------------------------------------------------------------------
(* The write lock *)

\* Who is inside a write transaction is inductive with the types.
LEMMA LockNext ==
  ASSUME TypeInv, WriteLockIsImporters, [Next]_vars
  PROVE  WriteLockIsImporters'
<1>1. CASE UNCHANGED <<writer, importer>>
  BY <1>1 DEF WriteLockIsImporters
<1>2. ASSUME NEW i \in Importers, ReconcileCsv(i)
      PROVE  WriteLockIsImporters'
  <2>1. /\ importer \in [Importers -> ImporterStates]
        /\ writer \in Importers \cup {Nobody} /\ Nobody \notin Importers
    BY ShopAssumption DEF TypeInv, TypeOK, BookTypeOK, ReconciliationTypeOK, ImporterStates
  <2>2. ASSUME NEW next, importer' = [importer EXCEPT ![i] = next], writer' = writer,
               (importer[i].phase \in {"importing", "compared"})
                 <=> (next.phase \in {"importing", "compared"})
        PROVE  WriteLockIsImporters'
    BY <2>1, <2>2 DEF WriteLockIsImporters
  <2>3. ASSUME NEW next, importer' = [importer EXCEPT ![i] = next],
               writer = Nobody, writer' = i, next.phase \in {"importing", "compared"}
        PROVE  WriteLockIsImporters'
    BY <2>1, <2>3 DEF WriteLockIsImporters
  <2>4. ASSUME NEW next, importer' = [importer EXCEPT ![i] = next],
               writer = i, writer' = Nobody, next.phase \notin {"importing", "compared"}
        PROVE  WriteLockIsImporters'
    BY <2>1, <2>4 DEF WriteLockIsImporters
  <2>5. Idle.phase \notin {"importing", "compared"}
    BY DEF Idle
  <2>6. ASSUME NEW file, Fetch(i, file)
        PROVE  WriteLockIsImporters'
    BY <2>2, <2>5, <2>6 DEF Fetch, shopVars
  <2>7. CASE BeginImport(i)
    <3> DEFINE next == [importer[i] EXCEPT !.phase = "importing"]
    <3>1. next.phase = "importing"
      BY <2>7, ImportFields DEF TypeInv, BeginImport
    <3>2. importer' = [importer EXCEPT ![i] = next] /\ writer = Nobody /\ writer' = i
      BY <2>7 DEF BeginImport
    <3> HIDE DEF next
    <3> QED
      BY <2>3, <3>1, <3>2
  <2>8. CASE Compare(i)
    <3> DEFINE next == [phase |-> "compared", file |-> importer[i].file,
                        report |-> Report(importer[i].file)]
    <3>1. next.phase = "compared" /\ importer[i].phase = "importing" /\ writer' = writer
      BY <2>8 DEF Compare, shopVars
    <3>2. importer' = [importer EXCEPT ![i] = next]
      BY <2>8 DEF Compare
    <3> HIDE DEF next
    <3> QED
      BY <2>2, <3>1, <3>2
  <2>9. CASE SaveRun(i)
    BY <2>4, <2>5, <2>9 DEF SaveRun, WriteLockIsImporters
  <2>10. CASE ImportFails(i)
    <3> DEFINE next == [phase |-> "failing", file |-> importer[i].file]
    <3>1. /\ importer' = [importer EXCEPT ![i] = next] /\ next.phase = "failing"
          /\ writer = i /\ writer' = Nobody
      BY <2>10 DEF ImportFails, WriteLockIsImporters
    <3> HIDE DEF next
    <3> QED
      BY <2>4, <3>1
  <2>11. CASE SaveFailure(i)
    BY <2>2, <2>5, <2>11 DEF SaveFailure, shopVars
  <2>12. CASE AbortImport(i)
    <3>1. CASE writer = i
      BY <2>4, <2>5, <2>12, <3>1 DEF AbortImport
    <3>2. CASE writer # i
      BY <2>2, <2>5, <2>12, <3>2 DEF AbortImport, WriteLockIsImporters
    <3> QED
      BY <3>1, <3>2
  <2> QED
    BY <1>2, <2>6, <2>7, <2>8, <2>9, <2>10, <2>11, <2>12 DEF ReconcileCsv, Download, Upload
<1>3. \/ UNCHANGED <<writer, importer>>
      \/ \E i \in Importers : ReconcileCsv(i)
  BY DEF Next, Payments, NextDay, GatewayEvent, NotifyOrder, Shopping, StartUp, Seed,
         StartFails, CreateOrder, CreateSubscription, PlacingFails, RenderForm, SubmitForm,
         checkoutVars, reconciliationVars, shopVars, vars
<1> QED
  BY <1>1, <1>2, <1>3

\* Nobody holds the lock at the start.
LEMMA LockInitially == Init => WriteLockIsImporters
BY ShopAssumption DEF Init, BookInit, ReconciliationInit, WriteLockIsImporters, Idle

\* No way out of reconcile_csv leaves the write lock behind, and no two imports
\* are inside together.
THEOREM LockIsImporters == Spec => []WriteLockIsImporters
BY TypesInit, TypesNext, LockInitially, LockNext, PTL DEF Spec

-----------------------------------------------------------------------------
(* Reports *)

\* A comparison holds while its importer's transaction is open.
ReportInv ==
  \A i \in Importers :
    importer[i].phase = "compared" => importer[i].report = Report(importer[i].file)

ImportInv == TypeInv /\ WriteLockIsImporters /\ ReportInv

\* The report on a file depends on the orders alone.
LEMMA SameReport ==
  ASSUME UNCHANGED orders
  PROVE  \A file : Report(file)' = Report(file)
<1>1. \A period : LocalOrders(period)' = LocalOrders(period)
  BY DEF LocalOrders, Placed
<1>2. \A o, gateway, local : Item(o, gateway, local)' = Item(o, gateway, local)
  BY DEF Item, Result
<1>3. \A file : CompareItems(file)' = CompareItems(file)
  BY <1>1, <1>2 DEF CompareItems
<1> QED
  BY <1>1, <1>3 DEF Report

\* No order changes while somebody holds the write lock.
LEMMA OrdersUnderLock ==
  ASSUME [Next]_vars, writer # Nobody
  PROVE  UNCHANGED orders
BY ImportsKeepTheBook
DEF Next, Payments, NextDay, GatewayEvent, NotifyOrder, Shopping, StartUp, Seed,
    StartFails, CreateOrder, CreateSubscription, PlacingFails, RenderForm, SubmitForm,
    shopVars, vars

\* Only an import moves an importer.
LEMMA ImporterAlone ==
  ASSUME [Next]_vars
  PROVE  \/ UNCHANGED reconciliationVars
         \/ \E i \in Importers : ReconcileCsv(i)
BY DEF Next, reconciliationVars, vars

\* An importer that has compared keeps its file and report, or just compared.
LEMMA ComparedMoves ==
  ASSUME TypeInv, [Next]_vars, NEW i \in Importers, importer'[i].phase = "compared"
  PROVE  \/ importer'[i] = importer[i]
         \/ /\ importer[i].phase = "importing"
            /\ importer'[i].file = importer[i].file
            /\ importer'[i].report = Report(importer[i].file)
<1>1. importer \in [Importers -> ImporterStates]
  BY DEF TypeInv, TypeOK, ReconciliationTypeOK, ImporterStates
<1>2. ASSUME NEW j \in Importers, ReconcileCsv(j), j # i
      PROVE  importer'[i] = importer[i]
  BY <1>1, <1>2
  DEF ReconcileCsv, Download, Upload, Fetch, BeginImport, Compare, SaveRun,
      ImportFails, SaveFailure, AbortImport
<1>3. CASE ReconcileCsv(i)
  <2>1. ASSUME NEW next, importer' = [importer EXCEPT ![i] = next], next.phase # "compared"
        PROVE  FALSE
    BY <1>1, <2>1
  <2>2. Idle.phase # "compared"
    BY DEF Idle
  <2>3. ~BeginImport(i)
    <3>1. SUFFICES ASSUME BeginImport(i) PROVE FALSE
      OBVIOUS
    <3> DEFINE next == [importer[i] EXCEPT !.phase = "importing"]
    <3>2. next.phase = "importing"
      BY <3>1, ImportFields DEF TypeInv, BeginImport
    <3>3. importer' = [importer EXCEPT ![i] = next]
      BY <3>1 DEF BeginImport
    <3> HIDE DEF next
    <3> QED
      BY <2>1, <3>2, <3>3
  <2>4. \A file : ~Fetch(i, file)
    BY <1>1 DEF Fetch
  <2>5. ~SaveRun(i) /\ ~SaveFailure(i) /\ ~AbortImport(i)
    BY <2>1, <2>2 DEF SaveRun, SaveFailure, AbortImport
  <2>6. ~ImportFails(i)
    BY <1>1 DEF ImportFails
  <2>7. Compare(i)
    BY <1>3, <2>3, <2>4, <2>5, <2>6 DEF ReconcileCsv, Download, Upload
  <2> QED
    BY <1>1, <2>7 DEF Compare
<1> QED
  BY <1>2, <1>3, ImporterAlone DEF reconciliationVars

\* A comparison is still the one it would be now, until it is stored.
LEMMA ReportsNext ==
  ASSUME ImportInv, [Next]_vars
  PROVE  ReportInv'
<1> USE DEF ImportInv
<1> SUFFICES ASSUME NEW i \in Importers, importer'[i].phase = "compared"
             PROVE  importer'[i].report = Report(importer[i].file)'
  BY DEF ReportInv
<1>1. \/ importer'[i] = importer[i]
      \/ /\ importer[i].phase = "importing"
         /\ importer'[i].file = importer[i].file
         /\ importer'[i].report = Report(importer[i].file)
  BY ComparedMoves
<1>2. importer'[i].file = importer[i].file /\ importer'[i].report = Report(importer[i].file)
  BY <1>1 DEF ReportInv
<1>3. importer[i].phase \in {"importing", "compared"}
  BY <1>1
<1>4. writer # Nobody
  BY <1>3, ShopAssumption DEF WriteLockIsImporters
<1>5. \A file : Report(file)' = Report(file)
  BY <1>4, OrdersUnderLock, SameReport
<1> DEFINE file == importer[i].file
<1>6. Report(file)' = Report(importer'[i].file)
  BY <1>5
<1> QED
  BY <1>2, <1>5, <1>6

\* A stored run is a comparison of the moment or a failed run.
LEMMA RunsMove ==
  ASSUME ImportInv, [Next]_vars, runs' # runs
  PROVE  \E run \in Runs :
           /\ runs' = Append(runs, run)
           /\ UNCHANGED <<orders, trades, today>>
           /\ \/ \E i \in Importers : /\ importer[i] # Idle
                                      /\ run = Report(importer[i].file)
              \/ run.status = "FAILED" /\ run.items = {}
<1> USE DEF ImportInv
<1>1. PICK i \in Importers : ReconcileCsv(i)
  BY ImporterAlone DEF reconciliationVars
<1>2. SaveRun(i) \/ SaveFailure(i)
  BY <1>1
  DEF ReconcileCsv, Download, Upload, Fetch, BeginImport, Compare, ImportFails, AbortImport
<1>3. UNCHANGED <<orders, plans, trades, today>>
  BY <1>1, ImportsKeepTheBook
<1>4. TypeOK
  BY DEF TypeInv
<1>5. CASE SaveRun(i)
  <2>1. importer[i] # Idle /\ importer[i].report \in Runs
    BY <1>4, <1>5, ImportFields DEF SaveRun
  <2>2. importer[i].report = Report(importer[i].file)
    BY <1>5 DEF SaveRun, ReportInv
  <2> QED
    BY <1>3, <1>5, <2>1, <2>2 DEF SaveRun
<1>6. CASE SaveFailure(i)
  <2>1. importer[i].file \in Files
    BY <1>4, <1>6, ImportFields DEF SaveFailure
  <2> QED
    BY <1>3, <1>6, <2>1, FailedRunType DEF SaveFailure
<1> QED
  BY <1>2, <1>5, <1>6

\* Types, lock and comparisons are inductive together.
LEMMA ImportNext ==
  ImportInv /\ [Next]_vars => ImportInv'
BY TypesNext, LockNext, ReportsNext DEF ImportInv

\* At the start nobody imports.
LEMMA ImportInitially == Init => ImportInv
<1>1. Init => ReportInv
  BY DEF Init, ReconciliationInit, ReportInv, Idle
<1> QED
  BY <1>1, TypesInit, LockInitially DEF ImportInv

\* A file is compared and stored as if at one moment, beside every commit of
\* callbacks, checkouts and other imports; a failure stores no item.
THEOREM ReportsAreAtomic == Spec => ImplementsAtomicReports
<1>1. Init => runs = << >>
  BY DEF Init, ReconciliationInit
<1>2. ASSUME ImportInv, [Next]_vars
      PROVE  [Reports!NewRun]_runs
  <2> SUFFICES ASSUME runs' # runs
               PROVE  Reports!NewRun
    OBVIOUS
  <2>1. PICK run \in Runs :
          /\ runs' = Append(runs, run)
          /\ UNCHANGED <<orders, trades, today>>
          /\ \/ \E i \in Importers : /\ importer[i] # Idle
                                     /\ run = Report(importer[i].file)
             \/ run.status = "FAILED" /\ run.items = {}
    BY <1>2, RunsMove
  <2>2. runs \in Seq(Runs) /\ BookTypeOK /\ TypeOK
    BY <1>2 DEF ImportInv, TypeInv, TypeOK, ReconciliationTypeOK
  <2>3. /\ Len(runs') = Len(runs) + 1
        /\ \A n \in 1 .. Len(runs) : runs'[n] = runs[n]
        /\ runs'[Len(runs) + 1] = run
    BY <2>1, <2>2
  <2>4. IF run.status = "COMPLETED" THEN Reports!TrueReport(run) ELSE run.items = {}
    <3>1. ASSUME NEW i \in Importers, importer[i] # Idle, run = Report(importer[i].file)
          PROVE  run.status = "COMPLETED" /\ Reports!TrueReport(run)
      <4>1. importer[i].file \in Files
        BY <2>2, <3>1, ImportFields
      <4>2. HasLastRows(importer[i].file.rows)
        BY <1>2, <3>1 DEF ImportInv, TypeInv, FilesAreRead
      <4> QED
        BY <2>2, <3>1, <4>1, <4>2, ReportIsTrue
    <3> QED
      BY <2>1, <3>1
  <2> QED
    BY <2>1, <2>3, <2>4 DEF Reports!NewRun
<1> QED
  BY <1>1, <1>2, ImportInitially, ImportNext, PTL
  DEF Spec, ImplementsAtomicReports, Reports!AtomicReportsSpec

-----------------------------------------------------------------------------
(* What a report without differences is worth *)

FileTrue(file) ==
  file.complete =>
    /\ file.period.end < today
    /\ \A o \in EcpayOrders : PaidIn(o, file.period) =>
         /\ \E r \in file.rows : r.order = o
         /\ \A r \in file.rows : r.order = o => r.status = "PAID"

RunTrue(run) ==
  Clean(run) =>
    /\ \A i \in run.items : i.gateway = "PAID" =>
         i.order \in Orders /\ orders[i.order].status = "PAID"
    /\ run.complete =>
         /\ run.period.end < today
         /\ \A o \in EcpayOrders : PaidIn(o, run.period) => orders[o].status = "PAID"

TruthInv ==
  /\ \A i \in Importers : importer[i] # Idle => FileTrue(importer[i].file)
  /\ \A n \in 1 .. Len(runs) : RunTrue(runs[n])

\* PAID is final, and nobody pays in a period that has ended.
LEMMA PaymentsAreFinal ==
  ASSUME TypeOK, [Next]_vars
  PROVE  /\ \A o \in Orders : orders[o].status = "PAID" => orders'[o].status = "PAID"
         /\ \A period \in Periods : period.end < today =>
              /\ period.end < today'
              /\ \A o \in Orders : PaidIn(o, period)' => PaidIn(o, period)
<1>1. /\ orders \in [Orders -> OrderRows] /\ trades \in [Orders -> Trades]
      /\ today \in Nat /\ today \in Days
  BY ShopAssumption DEF TypeOK, BookTypeOK, Days
<1>2. \A period \in Periods : period.end \in Nat
  BY ReconciliationAssumption, ShopAssumption DEF Days
<1>3. CASE UNCHANGED <<orders, trades, today>>
  BY <1>3 DEF PaidIn
<1>4. CASE NextDay
  BY <1>1, <1>2, <1>4 DEF NextDay, PaidIn
<1>5. ASSUME NEW o \in Orders, NEW state \in {"ISSUED", "PAID", "FAILED"},
             GatewayEvent(o, state)
      PROVE  /\ UNCHANGED <<orders, today>>
             /\ \A period \in Periods : period.end < today =>
                  \A p \in Orders : PaidIn(p, period)' => PaidIn(p, period)
  <2>1. UNCHANGED <<orders, today>>
    BY <1>5 DEF GatewayEvent
  <2>2. ASSUME NEW period \in Periods, period.end < today, NEW p \in Orders,
               PaidIn(p, period)'
        PROVE  PaidIn(p, period)
    <3>1. CASE p # o
      BY <1>1, <1>5, <2>2, <3>1 DEF GatewayEvent, PaidIn
    <3>2. CASE p = o
      <4>1. trades'[p].state = state
            /\ trades'[p].day = IF state = "PAID" THEN today ELSE 0
        BY <1>1, <1>5, <3>2 DEF GatewayEvent
      <4>2. trades'[p].day <= period.end /\ trades'[p].state = "PAID"
        BY <2>2 DEF PaidIn, In
      <4> QED
        BY <1>1, <1>2, <2>2, <4>1, <4>2
    <3> QED
      BY <3>1, <3>2
  <2> QED
    BY <2>1, <2>2
<1>6. ASSUME NEW o \in Orders, NEW kind \in NotificationKinds, NEW success \in BOOLEAN,
             NotifyOrder(o, kind, success)
      PROVE  /\ UNCHANGED <<trades, today>>
             /\ \A p \in Orders : orders[p].status = "PAID" => orders'[p].status = "PAID"
  <2>1. orders[o].status # "PAID"
    BY <1>6
    DEF NotifyOrder, TransitionApplies, CanTransitionOrder, ValidOrderTransitions
  <2> QED
    BY <1>1, <1>6, <2>1 DEF NotifyOrder
<1>7. ASSUME NEW s \in Shoppers, NEW o \in Orders, CreateOrder(s, o)
      PROVE  /\ UNCHANGED <<trades, today>>
             /\ \A p \in Orders : orders[p].status = "PAID" => orders'[p].status = "PAID"
  <2>1. orders[o].status # "PAID"
    BY <1>7 DEF CreateOrder, Placed, Absent
  <2> QED
    BY <1>1, <1>7, <2>1 DEF CreateOrder
<1>8. ASSUME NEW form \in Forms, SubmitForm(form)
      PROVE  /\ UNCHANGED <<orders, today>>
             /\ \A period \in Periods : \A p \in Orders :
                  PaidIn(p, period)' => PaidIn(p, period)
  <2>1. \A p \in Orders : trades'[p] = trades[p] \/ trades'[p].state = "OPEN"
    BY <1>1, <1>8 DEF SubmitForm, Forms
  <2> QED
    BY <1>8, <2>1 DEF SubmitForm, PaidIn
<1>9. \/ UNCHANGED <<orders, trades, today>>
      \/ NextDay
      \/ \E o \in Orders, state \in {"ISSUED", "PAID", "FAILED"} : GatewayEvent(o, state)
      \/ \E o \in Orders, kind \in NotificationKinds, success \in BOOLEAN :
           NotifyOrder(o, kind, success)
      \/ \E s \in Shoppers, o \in Orders : CreateOrder(s, o)
      \/ \E form \in Forms : SubmitForm(form)
  BY ImportsKeepTheBook
  DEF Next, Payments, Shopping, StartUp, Seed, StartFails, CreateSubscription,
      PlacingFails, RenderForm, shopVars, vars
<1> QED
  <2>1. CASE \E o \in Orders, state \in {"ISSUED", "PAID", "FAILED"} : GatewayEvent(o, state)
    BY <1>5, <2>1
  <2>2. CASE \E o \in Orders, kind \in NotificationKinds, success \in BOOLEAN :
               NotifyOrder(o, kind, success)
    BY <1>6, <2>2 DEF PaidIn
  <2>3. CASE \E s \in Shoppers, o \in Orders : CreateOrder(s, o)
    BY <1>7, <2>3 DEF PaidIn
  <2>4. CASE \E form \in Forms : SubmitForm(form)
    BY <1>8, <2>4
  <2> QED
    BY <1>3, <1>4, <1>9, <2>1, <2>2, <2>3, <2>4

\* A report without differences matches every item.
LEMMA CleanMatchesAll ==
  ASSUME NEW file \in Files, HasLastRows(file.rows), Clean(Report(file))
  PROVE  \A i \in CompareItems(file) : i.result = "MATCHED"
<1> DEFINE items == CompareItems(file)
           matched == {i \in items : i.result = "MATCHED"}
<1>1. IsFiniteSet(items)
  BY ItemsOf
<1>2. Cardinality(items) - Cardinality(matched) = 0
  BY DEF Clean, Report
<1> HIDE DEF items
<1>3. /\ Cardinality(items) \in Nat /\ Cardinality(matched) \in Nat
      /\ Cardinality(matched) = Cardinality(items) => matched = items
  BY <1>1, FS_Subset, FS_CardinalityType
<1>4. matched = items
  BY <1>2, <1>3
<1> QED
  BY <1>4 DEF items

\* So what it says is true when it is made.
LEMMA FreshReportTrue ==
  ASSUME BookTypeOK, NEW file \in Files, HasLastRows(file.rows), FileTrue(file)
  PROVE  RunTrue(Report(file))
<1> SUFFICES ASSUME Clean(Report(file))
             PROVE  RunTrue(Report(file))
  BY DEF RunTrue
<1> DEFINE run == Report(file)
<1>1. run.items = CompareItems(file) /\ run.period = file.period /\ run.complete = file.complete
  BY DEF Report
<1>2. ASSUME NEW i \in CompareItems(file), i.gateway = "PAID"
      PROVE  i.order \in Orders /\ orders[i.order].status = "PAID"
  <2>1. i.result = "MATCHED"
    BY CleanMatchesAll
  <2>2. i.local = "PAID" /\ i.order \in LocalOrders(file.period)
        /\ i.local = orders[i.order].status
    BY <1>2, <2>1, ItemMeaning
  <2> QED
    BY <2>2, ShopAssumption DEF LocalOrders
<1>3. ASSUME file.complete, NEW o \in EcpayOrders, PaidIn(o, file.period)
      PROVE  orders[o].status = "PAID"
  <2>1. /\ \E r \in file.rows : r.order = o
        /\ \A r \in file.rows : r.order = o => r.status = "PAID"
    BY <1>3 DEF FileTrue
  <2>2. o # Nobody /\ file.rows \in SUBSET FileRows
    BY ShopAssumption DEF Files
  <2>3. o \in DOMAIN GatewayRows(file.rows)
    <3>1. o \in {r.order : r \in file.rows} \ {Nobody}
      BY <2>1, <2>2
    <3> QED
      BY <3>1 DEF GatewayRows
  <2>4. GatewayRows(file.rows)[o].status = "PAID"
    BY <2>1, <2>2, <2>3, GatewayRowsType
  <2>5. PICK i \in CompareItems(file) : i.order = o
    BY <2>3, ItemsOf DEF NumbersOf
  <2>6. i.gateway = "PAID"
    <3>1. i = Item(o, GatewayRows(file.rows), LocalOrders(file.period))
      BY <2>5, ItemsOf
    <3> QED
      BY <2>3, <2>4, <3>1 DEF Item
  <2> QED
    BY <1>2, <2>5, <2>6
<1> QED
  BY <1>1, <1>2, <1>3 DEF RunTrue, FileTrue

\* What is true of a file or a run stays true, whatever is committed later.
LEMMA TruthStays ==
  ASSUME TypeOK, [Next]_vars
  PROVE  /\ \A file \in Files : FileTrue(file) => FileTrue(file)'
         /\ \A run \in Runs : RunTrue(run) => RunTrue(run)'
<1>1. /\ \A o \in Orders : orders[o].status = "PAID" => orders'[o].status = "PAID"
      /\ \A period \in Periods : period.end < today =>
           /\ period.end < today'
           /\ \A o \in Orders : PaidIn(o, period)' => PaidIn(o, period)
  BY PaymentsAreFinal
<1>2. /\ \A file \in Files : file.period \in Periods
      /\ \A run \in Runs : run.period \in Periods
  BY DEF Files, Runs, FailedRun
<1>3. EcpayOrders \subseteq Orders
  BY ShopAssumption
<1>4. ASSUME NEW file \in Files, FileTrue(file)
      PROVE  FileTrue(file)'
  BY <1>1, <1>2, <1>3, <1>4 DEF FileTrue
<1>5. ASSUME NEW run \in Runs, RunTrue(run)
      PROVE  RunTrue(run)'
  BY <1>1, <1>2, <1>3, <1>5 DEF RunTrue, Clean
<1> QED
  BY <1>4, <1>5

\* An importer has the file it had, or one that was just fetched.
LEMMA FileMoves ==
  ASSUME TypeInv, [Next]_vars, NEW i \in Importers, importer'[i] # Idle
  PROVE  \/ importer[i] # Idle /\ importer'[i].file = importer[i].file
         \/ FileTrue(importer'[i].file) /\ UNCHANGED <<trades, today>>
<1>1. importer \in [Importers -> ImporterStates]
  BY DEF TypeInv, TypeOK, ReconciliationTypeOK, ImporterStates
<1>2. CASE UNCHANGED reconciliationVars
  BY <1>2 DEF reconciliationVars
<1>3. ASSUME NEW j \in Importers, ReconcileCsv(j), j # i
      PROVE  importer'[i] = importer[i]
  BY <1>1, <1>3
  DEF ReconcileCsv, Download, Upload, Fetch, BeginImport, Compare, SaveRun,
      ImportFails, SaveFailure, AbortImport
<1>4. ASSUME NEW period \in Periods, Download(i, period)
      PROVE  FileTrue(importer'[i].file) /\ UNCHANGED <<trades, today>>
  <2> DEFINE file == [header |-> TRUE, rows |-> PaidRows(period), period |-> period,
                      complete |-> period.end < today]
  <2>1. importer'[i].file = file
    <3>1. Fetch(i, file)
      BY <1>4 DEF Download
    <3> HIDE DEF file
    <3> QED
      BY <1>1, <3>1 DEF Fetch
  <2>2. UNCHANGED <<trades, today>>
    BY <1>4 DEF Download, Fetch, shopVars
  <2>3. /\ \A r \in PaidRows(period) : r.status = "PAID"
        /\ \A o \in EcpayOrders : PaidIn(o, period) =>
             \E r \in PaidRows(period) : r.order = o
    <3>1. ASSUME NEW o \in EcpayOrders, PaidIn(o, period)
          PROVE  \E r \in PaidRows(period) : r.order = o
      <4> DEFINE row == [line |-> 1, order |-> o, amountOk |-> TRUE, status |-> "PAID"]
      <4>1. row \in PaidRows(period) /\ row.order = o
        BY <3>1 DEF PaidRows
      <4> QED
        BY <4>1
    <3> QED
      BY <3>1 DEF PaidRows
  <2>4. FileTrue(file)
    BY <2>3 DEF FileTrue
  <2> QED
    BY <2>1, <2>2, <2>4
<1>5. ASSUME NEW odd \in OddFiles, NEW period \in Periods, Upload(i, odd, period)
      PROVE  FileTrue(importer'[i].file) /\ UNCHANGED <<trades, today>>
  <2>1. importer'[i].file = [header |-> odd.header, rows |-> odd.rows,
                             period |-> period, complete |-> FALSE]
    BY <1>1, <1>5 DEF Upload, Fetch
  <2> QED
    BY <1>5, <2>1 DEF FileTrue, Upload, Fetch, shopVars
<1>6. CASE BeginImport(i) \/ Compare(i) \/ ImportFails(i)
  <2>1. importer[i] # Idle
    BY <1>6, ImportFields DEF TypeInv, BeginImport, Compare, ImportFails
  <2>2. CASE BeginImport(i)
    <3>1. importer[i] = [phase |-> "fetched", file |-> importer[i].file]
      BY <2>2, ImportFields DEF TypeInv, BeginImport
    <3>2. importer'[i] = [phase |-> "importing", file |-> importer[i].file]
      BY <1>1, <2>2, <3>1 DEF BeginImport
    <3> QED
      BY <2>1, <3>2
  <2>3. CASE Compare(i) \/ ImportFails(i)
    BY <1>1, <2>1, <2>3 DEF Compare, ImportFails
  <2> QED
    BY <1>6, <2>2, <2>3
<1>7. ~SaveRun(i) /\ ~SaveFailure(i) /\ ~AbortImport(i)
  BY <1>1 DEF SaveRun, SaveFailure, AbortImport
<1> QED
  BY <1>2, <1>3, <1>4, <1>5, <1>6, <1>7, ImporterAlone DEF ReconcileCsv

\* The truth of files and runs is inductive.
LEMMA TruthNext ==
  ASSUME ImportInv, TruthInv, [Next]_vars
  PROVE  TruthInv'
<1> USE DEF ImportInv
<1>1. TypeOK /\ BookTypeOK /\ runs \in Seq(Runs)
  BY DEF TypeInv, TypeOK, ReconciliationTypeOK
<1>2. ASSUME NEW i \in Importers, importer'[i] # Idle
      PROVE  FileTrue(importer[i].file)'
  <2>1. CASE importer[i] # Idle /\ importer'[i].file = importer[i].file
    <3>1. importer[i].file \in Files /\ FileTrue(importer[i].file)
      BY <1>1, <2>1, ImportFields DEF TruthInv
    <3>2. \A file \in Files : FileTrue(file) => FileTrue(file)'
      BY <1>1, TruthStays
    <3> QED
      BY <2>1, <3>1, <3>2
  <2>2. CASE FileTrue(importer'[i].file) /\ UNCHANGED <<trades, today>>
    BY <2>2 DEF FileTrue, PaidIn
  <2> QED
    BY <1>2, <2>1, <2>2, FileMoves
<1>3. ASSUME NEW n \in 1 .. Len(runs), runs'[n] = runs[n]
      PROVE  RunTrue(runs[n])'
  <2>1. runs[n] \in Runs /\ RunTrue(runs[n])
    BY <1>1 DEF TruthInv
  <2>2. \A run \in Runs : RunTrue(run) => RunTrue(run)'
    BY <1>1, TruthStays
  <2> QED
    BY <1>3, <2>1, <2>2
<1>4. ASSUME NEW n \in 1 .. Len(runs')
      PROVE  RunTrue(runs[n])'
  <2>1. CASE runs' = runs
    BY <1>3, <1>4, <2>1
  <2>2. CASE runs' # runs
    <3>1. PICK run \in Runs :
            /\ runs' = Append(runs, run)
            /\ UNCHANGED <<orders, trades, today>>
            /\ \/ \E i \in Importers : /\ importer[i] # Idle
                                       /\ run = Report(importer[i].file)
               \/ run.status = "FAILED" /\ run.items = {}
      BY <2>2, RunsMove
    <3>2. CASE n \in 1 .. Len(runs)
      BY <1>1, <1>3, <3>1, <3>2
    <3>3. CASE n = Len(runs) + 1
      <4>1. runs'[n] = run
        BY <1>1, <3>1, <3>3
      <4>2. RunTrue(run)
        <5>1. ASSUME NEW i \in Importers, importer[i] # Idle, run = Report(importer[i].file)
              PROVE  RunTrue(run)
          <6>1. /\ importer[i].file \in Files /\ FileTrue(importer[i].file)
                /\ HasLastRows(importer[i].file.rows)
            BY <1>1, <5>1, ImportFields DEF TruthInv, TypeInv, FilesAreRead
          <6> QED
            BY <1>1, <5>1, <6>1, FreshReportTrue
        <5>2. run.status = "FAILED" => RunTrue(run)
          BY DEF RunTrue, Clean
        <5> QED
          BY <3>1, <5>1, <5>2
      <4>3. RunTrue(run)'
        BY <3>1, <4>2 DEF RunTrue, Clean, PaidIn
      <4> QED
        BY <4>1, <4>3
    <3> QED
      BY <1>1, <1>4, <3>1, <3>2, <3>3
  <2> QED
    BY <2>1, <2>2
<1> QED
  BY <1>2, <1>4 DEF TruthInv

\* At the start there is nothing to be true of.
LEMMA TruthInitially == Init => TruthInv
BY DEF Init, ReconciliationInit, TruthInv

\* What a report without differences says stays true: every payment it lists
\* is booked, and with a complete list every payment of the period is.
THEOREM CleanReportsStayTrue == Spec => []CleanReportsMissNothing
<1>1. TruthInv => CleanReportsMissNothing
  BY DEF TruthInv, RunTrue, CleanReportsMissNothing
<1> QED
  BY <1>1, ImportInitially, ImportNext, TruthInitially, TruthNext, PTL DEF Spec
=============================================================================
