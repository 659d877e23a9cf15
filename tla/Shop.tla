-------------------------------- MODULE Shop --------------------------------
(***************************************************************************)
(* Checkout and reconciliation on one database while payments arrive.      *)
(***************************************************************************)
EXTENDS Checkout, Reconciliation

vars == <<shopVars, checkoutVars, reconciliationVars>>

Init == BookInit /\ CheckoutInit /\ ReconciliationInit

Next ==
  \/ Payments /\ UNCHANGED <<checkoutVars, reconciliationVars>>
  \/ Shopping /\ UNCHANGED reconciliationVars
  \/ (\E i \in Importers : ReconcileCsv(i)) /\ UNCHANGED checkoutVars

Spec == Init /\ [][Next]_vars

TypeOK == BookTypeOK /\ CheckoutTypeOK /\ ReconciliationTypeOK

-----------------------------------------------------------------------------
(* Checkout *)

\* Whoever is charged every month asked for it, and the shop knows: the order
\* has its plan, and the plan is ACTIVE exactly from the payment on - although
\* order and plan are two commits with crashes and rendered pages between
\* them, and pages are submitted late or twice. (The converse does not hold: a
\* page from between the commits may be paid as a single payment.)
MonthlyChargesFollowPlans ==
  \A o \in Orders : trades[o].monthly
    => /\ o \in MonthlyOrders
       /\ plans[o] # "NONE"
       /\ plans[o] = "ACTIVE" <=> orders[o].status = "PAID"

-----------------------------------------------------------------------------
(* Reconciliation *)

\* The write lock belongs to exactly the importer whose transaction is open:
\* no way out of reconcile_csv (commit, rollback, crash) leaves it behind, and
\* no two imports are inside together.
WriteLockIsImporters ==
  \A i \in Importers :
    writer = i <=> importer[i].phase \in {"importing", "compared"}

Clean(run) == run.status = "COMPLETED" /\ run.differences = 0

\* What a report without differences says stays true, whatever is committed
\* later: every payment it lists is booked, and if ECPay's list of the period
\* was complete, every payment of the period is.
CleanReportsMissNothing ==
  \A n \in 1 .. Len(runs) : Clean(runs[n]) =>
    /\ \A i \in runs[n].items : i.gateway = "PAID" => orders[i.order].status = "PAID"
    /\ runs[n].complete => \A o \in EcpayOrders :
         PaidIn(o, runs[n].period) => orders[o].status = "PAID"

\* A file is compared and stored as if at one moment, beside every commit of
\* callbacks, checkouts and other imports.
Reports == INSTANCE AtomicReports

ImplementsAtomicReports == Reports!AtomicReportsSpec

\* An order number that a report calls missing here is none of the shop's
\* orders (docs/gateway-notes.md 8.4: order numbers against the order table).
MissingLocalMeansAbsent ==
  \A n \in 1 .. Len(runs) : \A i \in runs[n].items :
    i.result = "MISSING_LOCAL" => i.order \notin Orders \/ ~Placed(i.order)
=============================================================================
