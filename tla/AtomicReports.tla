--------------------------- MODULE AtomicReports ---------------------------
(***************************************************************************)
(* What reconcile_csv promises: a report appears whole, in one step that   *)
(* changes no order, and says what is true of the orders in that step; or  *)
(* a failed run appears, without items. A stored report never changes.     *)
(***************************************************************************)
EXTENDS Naturals, Sequences, FiniteSets

CONSTANTS Orders, EcpayOrders

VARIABLES orders, runs

WithResult(run, result) == {i \in run.items : i.result = result}

\* The ECPay orders created in the period, with their status.
LocalSide(period) ==
  {<<o, orders[o].status>> :
     o \in {p \in EcpayOrders : orders[p].status # "ABSENT"
                                /\ period.begin <= orders[p].created
                                /\ orders[p].created <= period.end}}

\* Every order number of either side has one item, which is MATCHED exactly
\* when both sides know it with one amount and agree on whether it is paid.
TrueReport(run) ==
  /\ \A i, j \in run.items : i.order = j.order => i = j
  /\ {<<i.order, i.local>> : i \in {j \in run.items : j.local # "NONE"}}
       = LocalSide(run.period)
  /\ \A i \in run.items :
       /\ i.result = "MISSING_LOCAL" <=> i.local = "NONE"
       /\ i.result = "MISSING_GATEWAY" <=> i.gateway = "NONE"
       /\ i.result = "AMOUNT_MISMATCH"
            <=> i.local # "NONE" /\ i.gateway # "NONE" /\ ~i.amountOk
       /\ i.result = "MATCHED"
            <=> /\ i.local # "NONE" /\ i.gateway \in {"PAID", "OTHER"}
                /\ i.amountOk
                /\ i.local = "PAID" <=> i.gateway = "PAID"
  /\ run.gatewayRows = Cardinality({i \in run.items : i.gateway # "NONE"})
  /\ run.localRows = Cardinality({i \in run.items : i.local # "NONE"})
  /\ run.matched = Cardinality(WithResult(run, "MATCHED"))
  /\ run.differences = Cardinality(run.items \ WithResult(run, "MATCHED"))

NewRun ==
  LET run == runs'[Len(runs) + 1]
  IN  /\ Len(runs') = Len(runs) + 1
      /\ \A n \in 1 .. Len(runs) : runs'[n] = runs[n]
      /\ IF run.status = "COMPLETED" THEN TrueReport(run) ELSE run.items = {}
      /\ UNCHANGED orders

AtomicReportsSpec == runs = << >> /\ [][NewRun]_runs
=============================================================================
