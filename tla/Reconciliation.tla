--------------------------- MODULE Reconciliation ---------------------------
(***************************************************************************)
(* reconcile_csv: an operator's file is compared with the orders in one    *)
(* write transaction. The INSERT of the run row takes the write lock, the  *)
(* SELECT of the orders and the INSERTs of the items follow under it, and  *)
(* COMMIT gives it back. A failure rolls back and records a failed run in  *)
(* a transaction of its own.                                               *)
(*                                                                         *)
(* A file is its header and its rows. A row has the order number, whether  *)
(* its amount is the order's, and what _gateway_is_paid makes of its       *)
(* status; line orders the rows of one order number. The period is a pair  *)
(* of days. complete marks a list that ECPay cannot add to any more.       *)
(***************************************************************************)
EXTENDS ShopBook, Sequences

CONSTANTS
  Strangers,      \* order numbers that are not the shop's
  Periods,        \* records [begin, end] an operator may ask for
  OddFiles,       \* uploaded files: [header, rows]
  MaxRuns         \* bound: an import begins while there are fewer runs

RowStatuses == {"PAID", "OTHER", "BLANK"}

FileRows ==
  [line : Nat, order : Orders \cup Strangers \cup {Nobody}, amountOk : BOOLEAN,
   status : RowStatuses]

\* Every order number of a file has a last row.
HasLastRows(rows) ==
  \A q \in rows : \E r \in rows :
    /\ r.order = q.order
    /\ \A s \in rows : s.order = q.order => s.line <= r.line

ASSUME ReconciliationAssumption ==
  /\ IsFiniteSet(Strangers)
  /\ Strangers \cap (Orders \cup {Nobody}) = {}
  /\ Periods \subseteq {p \in [begin : Days, end : Days] : p.begin <= p.end}
  /\ OddFiles \subseteq [header : BOOLEAN, rows : SUBSET FileRows]
  /\ \A f \in OddFiles : HasLastRows(f.rows)

VARIABLES
  runs,         \* tables reconciliation_run and reconciliation_item
  importer      \* what each importer is doing

reconciliationVars == <<runs, importer>>

Idle == [phase |-> "idle"]

Files ==
  [header : BOOLEAN, rows : SUBSET FileRows, period : Periods, complete : BOOLEAN]

ItemResults ==
  {"MATCHED", "MISSING_LOCAL", "MISSING_GATEWAY", "AMOUNT_MISMATCH",
   "STATUS_MISMATCH"}

Items ==
  [order : Orders \cup Strangers, local : OrderStatuses \cup {"NONE"},
   amountOk : BOOLEAN, gateway : RowStatuses \cup {"NONE"},
   result : ItemResults]

-----------------------------------------------------------------------------
(* The comparison *)

In(day, period) == period.begin <= day /\ day <= period.end

\* The dictionary of the reader's loop: rows without an order number are
\* skipped, and the last row of an order number stands.
GatewayRows(rows) ==
  [o \in {r.order : r \in rows} \ {Nobody} |->
     CHOOSE r \in rows : /\ r.order = o
                         /\ \A s \in rows : s.order = o => s.line <= r.line]

LocalOrders(period) ==
  {o \in EcpayOrders : Placed(o) /\ In(orders[o].created, period)}

\* Mutant: an order that awaits its payment passes for paid.
ResultOfIssued(o, gateway, local) ==
  IF o \notin local THEN "MISSING_LOCAL"
  ELSE IF o \notin DOMAIN gateway THEN "MISSING_GATEWAY"
  ELSE IF ~gateway[o].amountOk THEN "AMOUNT_MISMATCH"
  ELSE IF \/ gateway[o].status = "BLANK"
          \/ (gateway[o].status = "PAID")
               # (orders[o].status \in {"AWAITING_PAYMENT", "PAID"})
  THEN "STATUS_MISMATCH"
  ELSE "MATCHED"

Result(o, gateway, local) ==
  IF o \notin local THEN "MISSING_LOCAL"
  ELSE IF o \notin DOMAIN gateway THEN "MISSING_GATEWAY"
  ELSE IF ~gateway[o].amountOk THEN "AMOUNT_MISMATCH"
  ELSE IF \/ gateway[o].status = "BLANK"
          \/ (gateway[o].status = "PAID") # (orders[o].status = "PAID")
  THEN "STATUS_MISMATCH"
  ELSE "MATCHED"

Item(o, gateway, local) ==
  [order |-> o,
   local |-> IF o \in local THEN orders[o].status ELSE "NONE",
   gateway |-> IF o \in DOMAIN gateway THEN gateway[o].status ELSE "NONE",
   amountOk |-> o \in local /\ o \in DOMAIN gateway /\ gateway[o].amountOk,
   result |-> Result(o, gateway, local)]

\* The rows of the file, then the orders that are not among them.
CompareItems(file) ==
  LET gateway == GatewayRows(file.rows)
      local == LocalOrders(file.period)
  IN  {Item(o, gateway, local) : o \in DOMAIN gateway \cup local}

Report(file) ==
  LET items == CompareItems(file)
      matched == {i \in items : i.result = "MATCHED"}
  IN  [status |-> "COMPLETED", period |-> file.period,
       complete |-> file.complete, items |-> items,
       gatewayRows |-> Cardinality(DOMAIN GatewayRows(file.rows)),
       localRows |-> Cardinality(LocalOrders(file.period)),
       matched |-> Cardinality(matched),
       differences |-> Cardinality(items) - Cardinality(matched)]

FailedRun(file) ==
  [status |-> "FAILED", period |-> file.period, complete |-> file.complete,
   items |-> {}, gatewayRows |-> 0, localRows |-> 0, matched |-> 0,
   differences |-> 0]

Runs ==
  [status : {"COMPLETED"}, period : Periods, complete : BOOLEAN,
   items : SUBSET Items, gatewayRows : Nat, localRows : Nat, matched : Nat,
   differences : Nat]
  \cup {FailedRun(f) : f \in [period : Periods, complete : BOOLEAN]}

-----------------------------------------------------------------------------
(* The file *)

PaidIn(o, period) == trades[o].state = "PAID" /\ In(trades[o].day, period)

\* DateType 2 asks ECPay for the trades paid in the period.
PaidRows(period) ==
  {[line |-> 1, order |-> o, amountOk |-> TRUE, status |-> "PAID"] :
     o \in {p \in EcpayOrders : PaidIn(p, period)}}

Fetch(i, file) ==
  /\ importer[i] = Idle
  /\ importer' = [importer EXCEPT ![i] = [phase |-> "fetched", file |-> file]]
  /\ UNCHANGED <<runs, shopVars>>

\* The script downloads the list of a period, by default of yesterday.
Download(i, period) ==
  Fetch(i, [header |-> TRUE, rows |-> PaidRows(period), period |-> period,
            complete |-> period.end < today])

\* A file of the operator's, whatever its period.
Upload(i, odd, period) ==
  Fetch(i, [header |-> odd.header, rows |-> odd.rows, period |-> period,
            complete |-> FALSE])

-----------------------------------------------------------------------------
(* The import *)

ReconciliationInit ==
  /\ runs = << >>
  /\ importer = [i \in Importers |-> Idle]

ReconciliationTypeOK ==
  /\ runs \in Seq(Runs)
  /\ importer \in [Importers -> {Idle}
        \cup [phase : {"fetched", "importing", "failing"}, file : Files]
        \cup [phase : {"compared"}, file : Files, report : Runs]]

\* Mutant: the run row is inserted with its items.
BeginImportUnflushed(i) ==
  /\ importer[i].phase = "fetched"
  /\ writer = Nobody
  /\ Len(runs) < MaxRuns
  /\ importer' = [importer EXCEPT ![i].phase = "importing"]
  /\ UNCHANGED <<runs, shopVars>>

\* The flush of the run row takes the write lock.
BeginImport(i) ==
  /\ importer[i].phase = "fetched"
  /\ writer = Nobody
  /\ Len(runs) < MaxRuns
  /\ writer' = i
  /\ importer' = [importer EXCEPT ![i].phase = "importing"]
  /\ UNCHANGED <<runs, orders, plans, trades, today>>

\* The SELECT of the orders and the comparison.
Compare(i) ==
  /\ importer[i].phase = "importing"
  /\ importer[i].file.header
  /\ importer' = [importer EXCEPT ![i] =
                    [phase |-> "compared", file |-> importer[i].file,
                     report |-> Report(importer[i].file)]]
  /\ UNCHANGED <<runs, shopVars>>

\* COMMIT of the run with its items.
SaveRun(i) ==
  /\ importer[i].phase = "compared"
  /\ runs' = Append(runs, importer[i].report)
  /\ importer' = [importer EXCEPT ![i] = Idle]
  /\ writer' = Nobody
  /\ UNCHANGED <<orders, plans, trades, today>>

\* Mutant: a failure leaves the transaction open.
ImportFailsUnended(i) ==
  /\ importer[i].phase \in {"importing", "compared"}
  /\ importer' = [importer EXCEPT ![i] = [phase |-> "failing", file |-> importer[i].file]]
  /\ UNCHANGED <<runs, shopVars>>

\* A file without header, or any exception up to the COMMIT: ROLLBACK.
ImportFails(i) ==
  /\ importer[i].phase \in {"importing", "compared"}
  /\ importer' = [importer EXCEPT ![i] = [phase |-> "failing", file |-> importer[i].file]]
  /\ writer' = Nobody
  /\ UNCHANGED <<runs, orders, plans, trades, today>>

\* Mutant: the failed run is stored with what was compared.
SaveFailureWithItems(i) ==
  /\ importer[i].phase = "failing"
  /\ writer = Nobody
  /\ runs' = Append(runs, [Report(importer[i].file) EXCEPT !.status = "FAILED"])
  /\ importer' = [importer EXCEPT ![i] = Idle]
  /\ UNCHANGED shopVars

SaveFailure(i) ==
  /\ importer[i].phase = "failing"
  /\ writer = Nobody
  /\ runs' = Append(runs, FailedRun(importer[i].file))
  /\ importer' = [importer EXCEPT ![i] = Idle]
  /\ UNCHANGED shopVars

\* The process dies, or the lock is not to be had in time, at the flush or for
\* the failed run: nothing is recorded.
AbortImport(i) ==
  /\ importer[i] # Idle
  /\ importer' = [importer EXCEPT ![i] = Idle]
  /\ writer' = IF writer = i THEN Nobody ELSE writer
  /\ UNCHANGED <<runs, orders, plans, trades, today>>

ReconcileCsv(i) ==
  \/ \E period \in Periods : Download(i, period)
  \/ \E odd \in OddFiles, period \in Periods : Upload(i, odd, period)
  \/ BeginImport(i) \/ Compare(i) \/ SaveRun(i)
  \/ ImportFails(i) \/ SaveFailure(i) \/ AbortImport(i)
=============================================================================
